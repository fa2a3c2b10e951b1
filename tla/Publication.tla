---------------------------- MODULE Publication ----------------------------
(***************************************************************************)
(* The command entries in PINSET_HOME/v3/bin and the pair of executables,  *)
(* CLI and router, that they are made from.                                *)
(*                                                                         *)
(* Every install and every `self repair` publishes the pair it was started *)
(* from, with a router for each command, entry by entry under a journal;   *)
(* `self update` replaces the pair where it was started from, under a      *)
(* journal of its own, and hands over to the new executable's self repair. *)
(* The pair may be the one in bin, or one that a package manager put       *)
(* elsewhere.  A file is told from another by the release it is from.      *)
(***************************************************************************)
EXTENDS Naturals, FiniteSets

CONSTANTS
    Releases,
    Commands,       \* names of entries
    Public,         \* the ones every registry has (public_commands)
    Procs,
    InitialStates,  \* bin, package and registry at the start, and the places
                    \* where commands are started from
    MaxDeaths,      \* bounds how many commands are killed
    MaxUpgrades,    \* bounds how often the package manager brings a release
    External,       \* a file that is not Pinset's
    None

Pair == {"pinset", "pinset-shim"}

ASSUME PublicationAssumption ==
    /\ Public \subseteq Commands /\ Commands \cap Pair = {}
    /\ External \notin Releases /\ None \notin Releases \cup {External} \cup Procs
    /\ MaxDeaths \in Nat /\ MaxUpgrades \in Nat

Names == Pair \cup Commands
Places == {"bin", "package"}
TwoFiles == [Pair -> Releases]

Registry == [cli : Releases \cup {None}, shim : Releases, commands : SUBSET Commands]

\* The entries that a registry tells of are there.
TellsOf(reg, entries, names) ==
    reg # None =>
        /\ "pinset" \in names /\ reg.cli # None => entries["pinset"] = reg.cli
        /\ \A n \in names \cap ({"pinset-shim"} \cup reg.commands) : entries[n] = reg.shim

\* A CLI and a router, where both are Pinset's, are of one release.
Matched(files) ==
    files["pinset"] \in Releases /\ files["pinset-shim"] \in Releases
        => files["pinset"] = files["pinset-shim"]

\* Before any of the commands: what is there was published, or Pinset has
\* published nothing yet.
ASSUME InitialAssumption ==
    \A s \in InitialStates :
        /\ s.bin \in [Names -> Releases \cup {External, None}]
        /\ s.package \in TwoFiles
        /\ s.registry \in Registry \cup {None}
        /\ s.from \subseteq Places
        /\ TellsOf(s.registry, s.bin, Names)
        /\ s.registry # None => s.bin["pinset"] # None
        /\ Matched(s.bin) /\ Matched(s.package)
        /\ "package" \notin s.from => [n \in Pair |-> s.bin[n]] \in TwoFiles

VARIABLES
    bin,         \* what each entry of the managed directory is
    package,     \* the pair elsewhere
    from,        \* the places where commands are started from
    registry,    \* state/shims.json
    refresh,     \* state/shim-refresh/transaction.json, with what is staged
    update,      \* state/self-update/transaction.json
    updating,    \* who holds the maintenance lock exclusively
    repairing,   \* who holds the lock self-update, and maintenance shared
    publishing,  \* who holds the lock shims, and maintenance shared
    pc, hand, deaths, upgrades

files == <<bin, package>>
journals == <<registry, refresh, update>>
locks == <<updating, repairing, publishing>>
vars == <<files, from, journals, locks, pc, hand, deaths, upgrades>>

Steps == {"idle", "shims", "mark", "entries", "registry", "committed", "drop", "plan",
          "stage", "journal", "live", "repair", "undo", "undone", "drop-update",
          "want-update", "backup", "prepared", "swap", "commit-update"}

\* A journal of a refresh: entries maps a name to what it was before, old to
\* what was kept of it, and staged is the copy of the pair.
Entries == UNION {[names -> Releases \cup {None}] : names \in SUBSET Names}

Refresh == [phase : {"prepared", "rolling-back", "committed"},
            before : Registry \cup {None}, after : Registry,
            entries : Entries, old : Entries, staged : TwoFiles]

Update == [dest : Places, phase : {"preparing", "prepared", "committed"},
           backup : TwoFiles]

Hand == [op : {"none", "publish", "repair", "update"}, place : Places,
         seen : TwoFiles \cup {None}, plan : Refresh \cup {None},
         rollback : BOOLEAN, next : Releases \cup {None}]

ASSUME NoneIsNoJournal == None \notin Registry \cup Refresh \cup Update \cup TwoFiles

TypeOK ==
    /\ bin \in [Names -> Releases \cup {External, None}]
    /\ package \in TwoFiles
    /\ from \subseteq Places
    /\ registry \in Registry \cup {None}
    /\ refresh \in Refresh \cup {None}
    /\ update \in Update \cup {None}
    /\ {updating, repairing, publishing} \subseteq Procs \cup {None}
    /\ pc \in [Procs -> Steps]
    /\ hand \in [Procs -> Hand]
    /\ deaths \in 0 .. MaxDeaths /\ upgrades \in 0 .. MaxUpgrades

EmptyHand == [op |-> "none", place |-> "bin", seen |-> None, plan |-> None,
              rollback |-> FALSE, next |-> None]

Init ==
    /\ \E s \in InitialStates :
        bin = s.bin /\ package = s.package /\ registry = s.registry /\ from = s.from
    /\ refresh = None
    /\ update = None
    /\ updating = None /\ repairing = None /\ publishing = None
    /\ pc = [p \in Procs |-> "idle"]
    /\ hand = [p \in Procs |-> EmptyHand]
    /\ deaths = 0
    /\ upgrades = 0

-----------------------------------------------------------------------------
At(p, step) == pc[p] = step

Goto(p, step) == pc' = [pc EXCEPT ![p] = step]

PairAt(place) == [n \in Pair |-> IF place = "bin" THEN bin[n] ELSE package[n]]

\* Replacing one file of the pair at a place, by a rename.
Put(place, n, release) ==
    IF place = "bin"
    THEN bin' = [bin EXCEPT ![n] = release] /\ UNCHANGED package
    ELSE package' = [package EXCEPT ![n] = release] /\ UNCHANGED bin

Unlock(p) ==
    /\ updating' = IF updating = p THEN None ELSE updating
    /\ repairing' = IF repairing = p THEN None ELSE repairing
    /\ publishing' = IF publishing = p THEN None ELSE publishing

Return(p) ==
    /\ Unlock(p)
    /\ Goto(p, "idle")
    /\ hand' = [hand EXCEPT ![p] = EmptyHand]

\* A CLI can be started from a place where there is one.
Start(p) ==
    /\ At(p, "idle")
    /\ \E place \in from, op \in {"publish", "repair", "update"} :
        /\ PairAt(place)["pinset"] \in Releases
        /\ hand' = [hand EXCEPT ![p] = [EmptyHand EXCEPT !.op = op, !.place = place]]
        /\ Goto(p, CASE op = "publish" -> "shims" [] op = "repair" -> "repair"
                     [] op = "update" -> "want-update")
    /\ UNCHANGED <<files, journals, locks, deaths, upgrades>>

-----------------------------------------------------------------------------
(* install_shims_from: the pair at a place becomes the one in bin.         *)

Expected(r) ==
    [n \in Pair \cup r.after.commands |-> IF n = "pinset" THEN r.after.cli ELSE r.after.shim]

\* validate_journal: what was staged and kept is what was planned.
Valid(r) ==
    /\ r.staged = [n \in Pair |-> Expected(r)[n]]
    /\ \A n \in DOMAIN r.entries : r.entries[n] # None => r.old[n] = r.entries[n]

\* check_live: every entry is the old or the new one, or, with incoming, what
\* an update of the pair has put there meanwhile.
Live(r, incoming) ==
    /\ registry \in {r.before, r.after}
    /\ \A n \in DOMAIN Expected(r) :
        \/ bin[n] = Expected(r)[n]
        \/ n \in DOMAIN r.entries /\ bin[n] \in {r.entries[n], None}
        \/ n = "pinset" /\ r.before # None /\ bin[n] # None /\ bin[n] = r.before.cli
        \/ n = "pinset-shim" /\ r.before # None /\ bin[n] = r.before.shim
        \/ n \in Pair /\ incoming # None /\ bin[n] = incoming[n]

\* An unfinished refresh goes on if it is of the same pair, and back if not.
TakeShims(p) ==
    LET found == PairAt(hand[p].place)
        back == refresh.phase = "rolling-back" \/ [n \in Pair |-> Expected(refresh)[n]] # found
    IN
    /\ At(p, "shims")
    /\ publishing = None /\ updating = None
    /\ IF \/ ~(found \in TwoFiles)
          \/ refresh # None /\ ~(Valid(refresh) /\ Live(refresh, found))
       THEN Return(p)
       ELSE /\ publishing' = p
            /\ UNCHANGED <<updating, repairing>>
            /\ IF refresh = None
               THEN /\ hand' = [hand EXCEPT ![p].seen = found]
                    /\ Goto(p, "plan")
               ELSE /\ hand' = [hand EXCEPT ![p].seen = found, ![p].rollback = back]
                    /\ Goto(p, IF back /\ refresh.phase # "rolling-back"
                               THEN "mark" ELSE "entries")
    /\ UNCHANGED <<files, journals, deaths, upgrades>>

MarkRollingBack(p) ==
    /\ At(p, "mark")
    /\ refresh' = [refresh EXCEPT !.phase = "rolling-back"]
    /\ Goto(p, "entries")
    /\ UNCHANGED <<files, registry, update, locks, hand, deaths, upgrades>>

Desired(p, n) == IF hand[p].rollback THEN refresh.entries[n] ELSE Expected(refresh)[n]

\* Mutant: the old entry is taken away first.
PublishByUnlink(p) ==
    /\ At(p, "entries")
    /\ LET wrong == {n \in DOMAIN refresh.entries : bin[n] # Desired(p, n)} IN
        IF wrong = {}
        THEN Goto(p, "registry") /\ UNCHANGED bin
        ELSE /\ \E n \in wrong :
                    bin' = [bin EXCEPT ![n] = IF @ = None THEN Desired(p, n) ELSE None]
             /\ UNCHANGED pc
    /\ UNCHANGED <<package, journals, locks, hand, deaths, upgrades>>

\* One entry after the other, each by a rename over it; one that did not exist
\* is removed when the refresh goes back.
PublishEntry(p) ==
    /\ At(p, "entries")
    /\ LET wrong == {n \in DOMAIN refresh.entries : bin[n] # Desired(p, n)} IN
        IF wrong = {}
        THEN Goto(p, "registry") /\ UNCHANGED bin
        ELSE /\ \E n \in wrong : bin' = [bin EXCEPT ![n] = Desired(p, n)]
             /\ UNCHANGED pc
    /\ UNCHANGED <<package, journals, locks, hand, deaths, upgrades>>

\* Mutant: a refresh that goes back leaves the new registry.
WriteRegistryForward(p) ==
    /\ At(p, "registry")
    /\ registry' = refresh.after
    /\ Goto(p, "committed")
    /\ UNCHANGED <<files, refresh, update, locks, hand, deaths, upgrades>>

WriteRegistry(p) ==
    /\ At(p, "registry")
    /\ registry' = IF hand[p].rollback THEN refresh.before ELSE refresh.after
    /\ Goto(p, "committed")
    /\ UNCHANGED <<files, refresh, update, locks, hand, deaths, upgrades>>

\* A committed journal found by the next command publishes the same again.
WriteCommitted(p) ==
    /\ At(p, "committed")
    /\ refresh' = [refresh EXCEPT !.phase = "committed"]
    /\ Goto(p, "drop")
    /\ UNCHANGED <<files, registry, update, locks, hand, deaths, upgrades>>

\* install_shims_from returns.
Published(p) ==
    CASE hand[p].op = "repair" /\ update # None ->
            /\ publishing' = None
            /\ Goto(p, "drop-update")
            /\ UNCHANGED <<updating, repairing, hand>>
      [] OTHER -> Return(p)

DropRefresh(p) ==
    /\ At(p, "drop")
    /\ refresh' = None
    /\ IF hand[p].plan = None
       THEN Goto(p, "plan") /\ UNCHANGED <<locks, hand>>
       ELSE Published(p)
    /\ UNCHANGED <<files, registry, update, deaths, upgrades>>

\* The commands of the old registry stay, the ones of SDKs come on top.
NewRegistry(p, commands) ==
    [cli |-> hand[p].seen["pinset"], shim |-> hand[p].seen["pinset-shim"],
     commands |-> Public \cup commands
                    \cup (IF registry = None THEN {} ELSE registry.commands)]

\* What a refresh will replace: every entry that differs.  Nothing of it is
\* kept or staged yet.
NewPlan(p, commands) ==
    LET plain == [phase |-> "prepared", before |-> registry,
                  after |-> NewRegistry(p, commands), entries |-> [n \in {} |-> None],
                  old |-> [n \in {} |-> None], staged |-> hand[p].seen]
        differ == {n \in DOMAIN Expected(plain) : bin[n] # Expected(plain)[n]}
    IN [plain EXCEPT !.entries = [n \in differ |-> bin[n]]]

KeepPlan(p, r) ==
    /\ hand' = [hand EXCEPT ![p].rollback = FALSE, ![p].plan = r]
    /\ Goto(p, "stage")
    /\ UNCHANGED locks

NothingToDo(r) == DOMAIN r.entries = {} /\ registry = r.after

\* Mutant: whoever owns an entry.
PlanAllOwned(p) ==
    /\ At(p, "plan")
    /\ \E commands \in SUBSET Commands :
        LET r == NewPlan(p, commands)
        IN IF NothingToDo(r) THEN Published(p) ELSE KeepPlan(p, r)
    /\ UNCHANGED <<files, journals, deaths, upgrades>>

\* Every entry that is replaced must be Pinset's, before any is changed.
Owned(n) ==
    registry # None /\ bin[n] = IF n = "pinset" THEN registry.cli ELSE registry.shim

Plan(p) ==
    /\ At(p, "plan")
    /\ \E commands \in SUBSET Commands :
        LET r == NewPlan(p, commands)
        IN IF \E n \in DOMAIN r.entries : bin[n] # None /\ ~Owned(n)
           THEN Return(p)
           ELSE IF NothingToDo(r) THEN Published(p) ELSE KeepPlan(p, r)
    /\ UNCHANGED <<files, journals, deaths, upgrades>>

\* The pair is read again to be copied, and the old entries to be linked.
Stage(p) ==
    /\ At(p, "stage")
    /\ PairAt(hand[p].place) \in TwoFiles
    /\ hand' = [hand EXCEPT ![p].plan.staged = PairAt(hand[p].place),
                            ![p].plan.old = [n \in DOMAIN hand[p].plan.entries |-> bin[n]]]
    /\ Goto(p, "journal")
    /\ UNCHANGED <<files, journals, locks, deaths, upgrades>>

WriteRefresh(p) ==
    /\ At(p, "journal")
    /\ refresh' = hand[p].plan
    /\ Goto(p, "live")
    /\ UNCHANGED <<files, registry, update, locks, hand, deaths, upgrades>>

CheckLive(p) ==
    /\ At(p, "live")
    /\ IF Live(refresh, None) /\ Valid(refresh)
       THEN Goto(p, "entries") /\ UNCHANGED <<locks, hand>>
       ELSE Return(p)
    /\ UNCHANGED <<files, journals, deaths, upgrades>>

-----------------------------------------------------------------------------
(* self_update and replace_binary_pair.                                    *)

\* Mutant: the journal says prepared before anything is backed up.
TakeUpdateEarly(p) ==
    /\ At(p, "want-update")
    /\ updating = None /\ repairing = None /\ publishing = None
    /\ IF update # None \/ PairAt(hand[p].place) \notin TwoFiles
       THEN Return(p) /\ UNCHANGED update
       ELSE /\ updating' = p
            /\ \E next \in Releases \ {PairAt(hand[p].place)["pinset"]} :
                hand' = [hand EXCEPT ![p].next = next]
            /\ update' = [dest |-> hand[p].place, phase |-> "prepared",
                          backup |-> [n \in Pair |-> None]]
            /\ Goto(p, "prepared")
            /\ UNCHANGED <<repairing, publishing>>
    /\ UNCHANGED <<files, registry, refresh, deaths, upgrades>>

TakeUpdate(p) ==
    /\ At(p, "want-update")
    /\ updating = None /\ repairing = None /\ publishing = None
    /\ IF update # None \/ PairAt(hand[p].place) \notin TwoFiles
       THEN Return(p) /\ UNCHANGED update
       ELSE /\ updating' = p
            /\ \E next \in Releases \ {PairAt(hand[p].place)["pinset"]} :
                hand' = [hand EXCEPT ![p].next = next]
            /\ update' = [dest |-> hand[p].place, phase |-> "preparing",
                          backup |-> PairAt(hand[p].place)]
            /\ Goto(p, "prepared")
            /\ UNCHANGED <<repairing, publishing>>
    /\ UNCHANGED <<files, registry, refresh, deaths, upgrades>>

WritePrepared(p) ==
    /\ At(p, "prepared")
    /\ update' = [update EXCEPT !.phase = "prepared"]
    /\ Goto(p, "swap")
    /\ UNCHANGED <<files, registry, refresh, locks, hand, deaths, upgrades>>

\* The CLI, then the router.
Swap(p) ==
    /\ At(p, "swap")
    /\ LET place == hand[p].place
           left == {n \in Pair : PairAt(place)[n] = update.backup[n]}
       IN IF "pinset" \in left
          THEN Put(place, "pinset", hand[p].next) /\ UNCHANGED pc
          ELSE /\ Put(place, "pinset-shim", hand[p].next)
               /\ Goto(p, "commit-update")
    /\ UNCHANGED <<journals, locks, hand, deaths, upgrades>>

\* The lock is dropped, and the new executable repairs.
CommitUpdate(p) ==
    /\ At(p, "commit-update")
    /\ update' = [update EXCEPT !.phase = "committed"]
    /\ updating' = None
    /\ hand' = [hand EXCEPT ![p] = [EmptyHand EXCEPT !.op = "repair", !.place = hand[p].place]]
    /\ Goto(p, "repair")
    /\ UNCHANGED <<files, registry, refresh, repairing, publishing, deaths, upgrades>>

-----------------------------------------------------------------------------
(* self_repair, after the project's transactions.                          *)

\* Mutant: an update that did not finish is left as it is.
TakeRepairForward(p) ==
    /\ At(p, "repair")
    /\ repairing = None /\ updating = None
    /\ repairing' = p
    /\ UNCHANGED <<updating, publishing, hand>>
    /\ Goto(p, "shims")
    /\ UNCHANGED <<files, journals, deaths, upgrades>>

TakeRepair(p) ==
    /\ At(p, "repair")
    /\ repairing = None /\ updating = None
    /\ IF update # None /\ update.dest # hand[p].place
       THEN Return(p)
       ELSE /\ repairing' = p
            /\ UNCHANGED <<updating, publishing, hand>>
            /\ Goto(p, IF update # None /\ update.phase = "prepared" THEN "undo" ELSE "shims")
    /\ UNCHANGED <<files, journals, deaths, upgrades>>

\* rollback: the pair is given back, file by file.
Undo(p) ==
    /\ At(p, "undo")
    /\ LET place == update.dest
           wrong == {n \in Pair : PairAt(place)[n] # update.backup[n]}
       IN IF wrong = {}
          THEN Goto(p, "undone") /\ UNCHANGED files
          ELSE \E n \in wrong : Put(place, n, update.backup[n]) /\ UNCHANGED pc
    /\ UNCHANGED <<journals, locks, hand, deaths, upgrades>>

Undone(p) ==
    /\ At(p, "undone")
    /\ IF hand[p].op = "repair"
       THEN /\ update' = [update EXCEPT !.phase = "committed"]
            /\ Goto(p, "shims")
            /\ hand' = [hand EXCEPT ![p].next = update.backup["pinset"]]
            /\ UNCHANGED locks
       ELSE /\ update' = None
            /\ Return(p)
    /\ UNCHANGED <<files, registry, refresh, deaths, upgrades>>

\* After a rollback the restored CLI repairs once more.
DropUpdate(p) ==
    /\ At(p, "drop-update")
    /\ update' = None
    /\ IF hand[p].next = None
       THEN Return(p)
       ELSE /\ repairing' = None
            /\ hand' = [hand EXCEPT ![p] =
                    [EmptyHand EXCEPT !.op = "repair", !.place = hand[p].place]]
            /\ Goto(p, "repair")
            /\ UNCHANGED <<updating, publishing>>
    /\ UNCHANGED <<files, registry, refresh, deaths, upgrades>>

\* An error of one step: while the pair is replaced it is given back.
Fails(p) ==
    /\ ~At(p, "idle")
    /\ CASE At(p, "swap") ->
                Goto(p, "undo") /\ UNCHANGED <<update, locks, hand>>
         [] At(p, "prepared") ->
                update' = None /\ Return(p)
         [] OTHER ->
                Return(p) /\ UNCHANGED update
    /\ UNCHANGED <<files, registry, refresh, deaths, upgrades>>

Die(p) ==
    /\ ~At(p, "idle")
    /\ deaths < MaxDeaths
    /\ deaths' = deaths + 1
    /\ Return(p)
    /\ UNCHANGED <<files, journals, upgrades>>

\* The package manager brings another release, while no command runs.
Upgrade ==
    /\ upgrades < MaxUpgrades
    /\ upgrades' = upgrades + 1
    /\ \A p \in Procs : At(p, "idle")
    /\ update # None => update.dest = "bin"
    /\ \E release \in Releases : package' = [n \in Pair |-> release]
    /\ UNCHANGED <<bin, journals, locks, pc, hand, deaths>>

Publishing(p) ==
    \/ TakeShims(p) \/ MarkRollingBack(p) \/ PublishEntry(p) \/ WriteRegistry(p)
    \/ WriteCommitted(p) \/ DropRefresh(p) \/ Plan(p) \/ Stage(p) \/ WriteRefresh(p)
    \/ CheckLive(p)

Updating(p) ==
    \/ TakeUpdate(p) \/ WritePrepared(p) \/ Swap(p) \/ CommitUpdate(p)

Repairing(p) == TakeRepair(p) \/ Undo(p) \/ Undone(p) \/ DropUpdate(p)

Next ==
    /\ \/ \E p \in Procs :
                Start(p) \/ Publishing(p) \/ Updating(p) \/ Repairing(p) \/ Fails(p) \/ Die(p)
       \/ Upgrade
    /\ UNCHANGED from

Spec == Init /\ [][Next]_vars

-----------------------------------------------------------------------------
\* architecture.md: replacement never unlinks an old entry first.  Only an
\* entry that an aborted refresh had made is removed.
EntriesStay ==
    [][\A n \in Names : bin[n] # None /\ bin'[n] = None =>
        refresh.phase = "rolling-back" /\ refresh.entries[n] = None]_vars

\* architecture.md: a file that is not Pinset's, and a CLI that the registry
\* does not record, are never replaced, whatever was interrupted before.
NotOwnedStays ==
    [][/\ \A n \in Names : bin[n] = External => bin'[n] = External
       /\ registry # None /\ registry.cli = None /\ from = {"package"}
            /\ bin["pinset"] # package["pinset"] => bin'["pinset"] = bin["pinset"]]_vars

\* With no journal left, the entries are the ones the registry tells of.
PublishedIsWhole ==
    refresh = None /\ update = None => TellsOf(registry, bin, Names)

\* Whatever updates were interrupted, a CLI and a router that no journal will
\* see to are of one release.
PairsMatch ==
    /\ update = None => Matched(package)
    /\ update = None /\ refresh = None => Matched(bin)

\* architecture.md: interrupted publication can resume or roll back.
InterruptedCanResume == refresh # None /\ publishing = None => Valid(refresh)

-----------------------------------------------------------------------------
(* The inductive invariant behind the safety properties.                   *)

PublishSteps == {"mark", "entries", "registry", "committed", "drop",
                 "plan", "stage", "journal", "live"}
SwapSteps == {"prepared", "swap", "commit-update"}
UndoSteps == {"undo", "undone"}

HoldsUpdate(p) == pc[p] \in SwapSteps \/ (pc[p] \in UndoSteps /\ hand[p].op = "update")

HoldsRepair(p) ==
    hand[p].op = "repair" /\ pc[p] \in PublishSteps \cup UndoSteps \cup {"shims", "drop-update"}

LocksAreHeld ==
    /\ \A p \in Procs :
        /\ publishing = p <=> pc[p] \in PublishSteps
        /\ updating = p <=> HoldsUpdate(p)
        /\ repairing = p <=> HoldsRepair(p)
    /\ updating # None => repairing = None /\ publishing = None

\* Which command is at which step, and from where.
StepOfOp(p) ==
    /\ pc[p] \in PublishSteps \cup {"shims"} => hand[p].op \in {"publish", "repair"}
    /\ pc[p] \in SwapSteps \cup {"want-update"} => hand[p].op = "update"
    /\ pc[p] \in UndoSteps => hand[p].op \in {"update", "repair"}
    /\ pc[p] \in {"repair", "drop-update"} => hand[p].op = "repair"
    /\ pc[p] # "idle" => hand[p].place \in from

Planned(p) == pc[p] \in PublishSteps /\ hand[p].plan # None

\* The journal a command writes is the plan in its hand, but for the phase.
HandIsFull(p) ==
    /\ pc[p] \in PublishSteps => hand[p].seen \in TwoFiles
    /\ pc[p] \in {"mark", "entries", "registry", "committed", "drop"} => refresh # None
    /\ pc[p] = "mark" => hand[p].rollback
    /\ pc[p] \in {"entries", "registry"} =>
            hand[p].rollback = (refresh.phase = "rolling-back")
    /\ pc[p] \in {"plan", "stage", "journal"} => refresh = None
    /\ hand[p].plan # None =>
            /\ pc[p] \in (PublishSteps \ {"mark", "plan"}) \cup {"drop-update"}
            /\ ~hand[p].rollback
    /\ pc[p] \in {"stage", "journal", "live"} => hand[p].plan # None
    /\ pc[p] = "live" => refresh = hand[p].plan
    /\ pc[p] \in {"entries", "registry", "committed", "drop"} /\ hand[p].plan # None =>
            refresh = [hand[p].plan EXCEPT !.phase = refresh.phase]
    /\ Planned(p) =>
            /\ hand[p].plan.phase = "prepared"
            /\ hand[p].plan.after.cli = hand[p].seen["pinset"]
            /\ hand[p].plan.after.shim = hand[p].seen["pinset-shim"]

\* What a plan or its journal says of what it will replace.
Sound(r) ==
    /\ r.after.cli # None
    /\ DOMAIN r.entries \subseteq DOMAIN Expected(r)
    /\ r.before # None => r.before.commands \subseteq r.after.commands
    /\ \A n \in DOMAIN r.entries : bin[n] # External /\ r.entries[n] # Expected(r)[n]

\* The pair in bin while it is replaced counts as what it will be given back
\* to; what an update left behind is not looked at until it is dropped.
Entry(n) ==
    IF updating # None /\ n \in Pair /\ update.dest = "bin" THEN update.backup[n] ELSE bin[n]

Dropping == \E p \in Procs : pc[p] = "drop-update"

LeftBehind == update # None /\ updating = None /\ ~Dropping

Looked == IF LeftBehind /\ update.dest = "bin" THEN Commands ELSE Names

\* The entries before a refresh, while it is under way.
Before(r) == [n \in Names |-> IF n \in DOMAIN r.entries THEN r.entries[n] ELSE Entry(n)]

EntriesAreKnown ==
    /\ refresh = None => TellsOf(registry, [n \in Names |-> Entry(n)], Looked)
    /\ refresh # None =>
        /\ registry \in {refresh.before, refresh.after}
        /\ \A n \in Looked \cap DOMAIN Expected(refresh) :
            IF n \in DOMAIN refresh.entries
            THEN Entry(n) \in {refresh.entries[n], Expected(refresh)[n]}
            ELSE Entry(n) = Expected(refresh)[n]
        /\ TellsOf(refresh.before, Before(refresh), Looked)

\* A repair keeps updates away, so that it knows the pair, too.
LookedBy(p) == IF hand[p].op = "repair" THEN Names ELSE Looked

PlanIsKnown(p) ==
    LET r == hand[p].plan IN
    /\ Planned(p) =>
        /\ Sound(r)
        /\ \A n \in LookedBy(p) \cap DOMAIN Expected(r) :
                n \notin DOMAIN r.entries => bin[n] = Expected(r)[n]
    /\ pc[p] \in {"stage", "journal"} =>
        /\ registry = r.before
        /\ \A n \in LookedBy(p) \cap DOMAIN r.entries : bin[n] = r.entries[n]

PublishedIsKnown(p) ==
    /\ pc[p] \in {"registry", "committed", "drop"} =>
        \A n \in LookedBy(p) \cap DOMAIN refresh.entries : bin[n] = Desired(p, n)
    /\ pc[p] \in {"committed", "drop"} =>
        registry = IF hand[p].rollback THEN refresh.before ELSE refresh.after

\* A command that runs from elsewhere never meets a CLI that is not recorded.
RecordsItsCli(r) ==
    r.before # None /\ "pinset" \in DOMAIN r.entries =>
        r.before.cli # None /\ r.entries["pinset"] # None

UnrecordedStays ==
    "bin" \notin from =>
        /\ registry # None /\ (refresh # None => refresh.before # None)
                => bin["pinset"] # None
        /\ refresh # None => RecordsItsCli(refresh)
        /\ \A p \in Procs : Planned(p) => RecordsItsCli(hand[p].plan)

\* The update that is under way, and the one that a dead command left.
UpdateIsKnown(p) ==
    /\ pc[p] \in SwapSteps \cup UndoSteps =>
            update # None /\ update.dest = hand[p].place
    /\ pc[p] \in SwapSteps =>
            hand[p].next \in Releases /\ hand[p].next # update.backup["pinset"]
    /\ pc[p] = "prepared" =>
            update.phase = "preparing" /\ PairAt(update.dest) = update.backup
    /\ pc[p] \in {"swap", "commit-update"} \cup UndoSteps => update.phase = "prepared"
    /\ pc[p] = "swap" =>
            /\ PairAt(update.dest)["pinset"] \in {update.backup["pinset"], hand[p].next}
            /\ PairAt(update.dest)["pinset-shim"] = update.backup["pinset-shim"]
    /\ pc[p] = "commit-update" =>
            \A n \in Pair : PairAt(update.dest)[n] = hand[p].next
    /\ pc[p] = "undone" /\ (hand[p].op = "update" \/ from # Places) =>
            PairAt(update.dest) = update.backup
    /\ pc[p] = "drop-update" => update # None
    /\ HoldsRepair(p) /\ update # None =>
            /\ update.dest = hand[p].place
            /\ pc[p] \notin UndoSteps => update.phase # "prepared"

UpdatesAreKnown ==
    /\ update # None =>
        /\ update.dest \in from
        /\ update.dest = "bin" => \A n \in Pair : bin[n] # External
    /\ \A p \in Procs : UpdateIsKnown(p)

\* The pair of the only place that commands are started from changes by an
\* update alone, so that what an update left there is known.
PairIsKnown(place) ==
    IF update # None /\ update.dest = place
    THEN /\ Matched(update.backup)
         /\ update.phase = "preparing" => PairAt(place) = update.backup
         /\ update.phase = "committed" => Matched(PairAt(place))
    ELSE Matched(PairAt(place))

BinIsKnown ==
    /\ PairAt("bin") \in TwoFiles
    /\ refresh # None /\ Valid(refresh) => DOMAIN refresh.entries \cap Pair = {}
    /\ \A p \in Procs : LET r == hand[p].plan IN
        /\ Planned(p) => \A n \in Pair \cap DOMAIN r.entries : r.entries[n] # None
        /\ pc[p] = "journal" /\ Valid(r) => DOMAIN r.entries \cap Pair = {}
        /\ pc[p] \in {"mark", "entries"} => Valid(refresh)

\* What is published from elsewhere is of one release, unless an update left
\* something behind, and then what a repair publishes is.
PublishedIsMatched ==
    /\ \A p \in Procs : pc[p] \in PublishSteps /\ (hand[p].op = "repair" \/ ~LeftBehind)
            => Matched(hand[p].seen)
    /\ ~LeftBehind =>
        /\ refresh = None => Matched(bin)
        /\ refresh # None =>
                Matched(Before(refresh)) /\ refresh.after.cli = refresh.after.shim

PairsAreKnown ==
    /\ from # Places => PairIsKnown("package")
    /\ "package" \notin from => PairIsKnown("bin") /\ BinIsKnown
    /\ "bin" \notin from => PublishedIsMatched

\* Types, locks, and what every step of a refresh and of an update knows of
\* the files: in every state, however many commands died before it.
IInv ==
    /\ TypeOK
    /\ LocksAreHeld
    /\ \A p \in Procs : StepOfOp(p) /\ HandIsFull(p) /\ PlanIsKnown(p) /\ PublishedIsKnown(p)
    /\ refresh # None => Sound(refresh)
    /\ EntriesAreKnown
    /\ UnrecordedStays
    /\ UpdatesAreKnown
    /\ PairsAreKnown
=============================================================================
