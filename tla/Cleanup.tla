------------------------------ MODULE Cleanup ------------------------------
(***************************************************************************)
(* `clean installs` against everything that needs an installation.         *)
(*                                                                         *)
(* Several projects (and the global selection) share the installations of  *)
(* one PINSET_HOME.  Every command that edits, installs, binds or repairs  *)
(* holds state/locks/maintenance.lock shared, together with the lock of    *)
(* its project; clean holds it exclusively, decides from the registry of   *)
(* projects, their locks and environments and the journals what is still   *)
(* referenced, and removes the rest one directory after the other.         *)
(*                                                                         *)
(* A transaction is here only what clean can see of it (Transactions has   *)
(* its files), an environment only the interpreter it was made from.       *)
(***************************************************************************)
EXTENDS Naturals

CONSTANTS
    Roots,         \* project directories, and the global selection
    GlobalRoots,   \* the roots that are the global selection
    Payloads,      \* installation identities
    Interpreters,  \* the payloads a .venv is made from (python)
    Locks,         \* contents of a lock: the payloads it locks
    Procs,         \* CLI processes
    Ids,           \* transaction ids; bounds the commits
    InitialLocks,  \* locks on disk when the behaviour starts
    Installed,     \* payloads installed beforehand
    MaxDeaths,     \* bounds how many commands die halfway
    None

ASSUME CleanupAssumption ==
    /\ GlobalRoots \subseteq Roots
    /\ Interpreters \subseteq Payloads
    /\ Locks \subseteq SUBSET Payloads
    /\ None \notin Payloads /\ None \notin Locks
    /\ None \notin Procs /\ None \notin Ids
    /\ InitialLocks \subseteq [Roots -> Locks \cup {None}]
    /\ Installed \subseteq Payloads
    /\ MaxDeaths \in Nat

VARIABLES
    shared,      \* the processes holding the maintenance lock shared
    exclusive,   \* the process holding it exclusively
    owner,       \* who holds the lock of each project
    registrar,   \* who holds the lock of the project registry
    payload,     \* "absent", "whole", or "broken": partly removed
    lock,        \* lock.toml of each root
    marker,      \* local/transaction.json of each root
    journals,    \* state/transactions/<id>.json
    venv,        \* the interpreter each .venv was made from
    rebuild,     \* state/venv-transactions/<id>.json of each root
    registry,    \* state/projects.json
    pc, hand, deaths

locks == <<shared, exclusive, owner, registrar>>
project == <<lock, marker, journals, venv, rebuild, registry>>
vars == <<locks, payload, project, pc, hand, deaths>>

Journal == [root : Roots, phase : {"prepared", "committed", "recovered"},
            old : Locks \cup {None}, new : Locks]

Rebuild == [before : Interpreters \cup {None}, next : Interpreters]

ASSUME NoneIsNoRecord == None \notin Journal \cup Rebuild

\* use with its installation; commit stands for the edits that install
\* nothing: use --no-install, remove, import and the profile commands.
Ops == {"none", "init", "use", "commit", "install", "repair", "clean"}

Hand == [op : Ops,
         root : Roots \cup {None},
         next : Locks \cup {None},      \* the lock to install, or to commit
         id : Ids \cup {None},          \* the transaction begun or repaired
         seen : SUBSET Roots,           \* the registry as read
         removals : SUBSET Payloads]    \* what clean is going to remove

EmptyHand == [op |-> "none", root |-> None, next |-> None, id |-> None,
              seen |-> {}, removals |-> {}]

CleanSteps == {"scan", "remove", "removing"}
WriterSteps == {"want-project", "edit", "load", "sdk", "begin", "put-marker",
                "put-lock", "bind", "venv-create", "venv-finish",
                "register-maintenance", "register-lock", "register-read", "register-write", "commit",
                "clear", "repair-venv", "recheck", "restore", "recovered"}
Steps == CleanSteps \cup WriterSteps \cup
    {"idle", "want-maintenance", "repair-look", "want-exclusive"}

TypeOK ==
    /\ shared \subseteq Procs
    /\ exclusive \in Procs \cup {None}
    /\ owner \in [Roots -> Procs \cup {None}]
    /\ registrar \in Procs \cup {None}
    /\ payload \in [Payloads -> {"absent", "whole", "broken"}]
    /\ lock \in [Roots -> Locks \cup {None}]
    /\ marker \in [Roots -> Ids \cup {None}]
    /\ journals \in [Ids -> Journal \cup {None}]
    /\ venv \in [Roots -> Interpreters \cup {None}]
    /\ rebuild \in [Roots -> Rebuild \cup {None}]
    /\ registry \subseteq Roots
    /\ pc \in [Procs -> Steps]
    /\ hand \in [Procs -> Hand]
    /\ deaths \in 0 .. MaxDeaths

Init ==
    /\ shared = {}
    /\ exclusive = None
    /\ owner = [r \in Roots |-> None]
    /\ registrar = None
    /\ payload = [x \in Payloads |-> IF x \in Installed THEN "whole"
                                     ELSE "absent"]
    /\ lock \in InitialLocks
    /\ marker = [r \in Roots |-> None]
    /\ journals = [id \in Ids |-> None]
    /\ venv = [r \in Roots |-> None]
    /\ rebuild = [r \in Roots |-> None]
    /\ registry = {}
    /\ pc = [p \in Procs |-> "idle"]
    /\ hand = [p \in Procs |-> EmptyHand]
    /\ deaths = 0

-----------------------------------------------------------------------------
At(p, step) == pc[p] = step

Goto(p, step) == pc' = [pc EXCEPT ![p] = step]

Present(x) == payload[x] # "absent"

Content(l) == IF l = None THEN {} ELSE l

\* Dropping every lock file a process has open.
Unlock(p) ==
    /\ shared' = shared \ {p}
    /\ exclusive' = IF exclusive = p THEN None ELSE exclusive
    /\ owner' = [r \in Roots |-> IF owner[r] = p THEN None ELSE owner[r]]
    /\ registrar' = IF registrar = p THEN None ELSE registrar

Return(p) ==
    /\ Unlock(p)
    /\ Goto(p, "idle")
    /\ hand' = [hand EXCEPT ![p] = EmptyHand]

-----------------------------------------------------------------------------
(* Starting, and taking the locks: maintenance first, then the project.    *)

Start(p, op, root, step) ==
    /\ At(p, "idle")
    /\ Goto(p, step)
    /\ hand' = [hand EXCEPT ![p] = [EmptyHand EXCEPT !.op = op, !.root = root]]
    /\ UNCHANGED <<locks, payload, project, deaths>>

\* An edit or an install refuses to start while a transaction is pending.
StartCommand(p) ==
    \E root \in Roots :
        /\ marker[root] = None
        /\ \/ Start(p, "use", root, "want-maintenance")
           \/ Start(p, "commit", root, "want-maintenance")
           \/ lock[root] # None /\ Start(p, "install", root, "want-maintenance")

\* init takes the lock of its directory, for which no one here competes.
StartInit(p) ==
    \E root \in Roots \ GlobalRoots :
        /\ lock[root] = None /\ marker[root] = None
        /\ Start(p, "init", root, "want-maintenance")

\* The environment of a project is recovered first, under the project's lock;
\* then the locks are dropped, and taken again when there is a marker.
StartRepair(p) ==
    \E root \in Roots :
        /\ marker[root] # None \/ rebuild[root] # None
        /\ Start(p, "repair", root, IF root \in GlobalRoots THEN "repair-look"
                                    ELSE "want-maintenance")

StartClean(p) == Start(p, "clean", None, "want-exclusive")

\* Mutant: a lock that lets no one in past a waiting exclusive locker.
OpenToSharedFair(p) ==
    exclusive = None /\ \A q \in Procs : ~At(q, "want-exclusive")

\* flock: a shared lock waits for a holder only.
OpenToShared(p) == exclusive = None

TakeMaintenance(p) ==
    /\ At(p, "want-maintenance")
    /\ OpenToShared(p)
    /\ shared' = shared \cup {p}
    /\ Goto(p, IF hand[p].op = "init" THEN "register-maintenance" ELSE "want-project")
    /\ UNCHANGED <<exclusive, owner, registrar, payload, project, hand, deaths>>

TakeProject(p) ==
    /\ At(p, "want-project")
    /\ owner[hand[p].root] = None
    /\ owner' = [owner EXCEPT ![hand[p].root] = p]
    /\ Goto(p, CASE hand[p].op = "repair" /\ hand[p].id = None -> "repair-venv"
                 [] hand[p].op = "repair" /\ hand[p].id # None -> "recheck"
                 [] hand[p].op = "install" -> "load"
                 [] OTHER -> "edit")
    /\ UNCHANGED <<shared, exclusive, registrar, payload, project, hand, deaths>>

-----------------------------------------------------------------------------
(* use, install and the other edits.                                       *)

GiveUp(p) ==
    /\ Return(p)
    /\ UNCHANGED <<payload, project, deaths>>

Edit(p) ==
    /\ At(p, "edit")
    /\ marker[hand[p].root] = None
    /\ \E next \in Locks : hand' = [hand EXCEPT ![p].next = next]
    /\ Goto(p, IF hand[p].op = "use" THEN "sdk" ELSE "begin")
    /\ UNCHANGED <<locks, payload, project, deaths>>

Load(p) ==
    /\ At(p, "load")
    /\ marker[hand[p].root] = None /\ lock[hand[p].root] # None
    /\ hand' = [hand EXCEPT ![p].next = lock[hand[p].root]]
    /\ Goto(p, "sdk")
    /\ UNCHANGED <<locks, payload, project, deaths>>

\* The selection is not what it was before the lock was taken.
Refused(p) ==
    /\ \/ At(p, "edit") /\ marker[hand[p].root] # None
       \/ /\ At(p, "load")
          /\ marker[hand[p].root] # None \/ lock[hand[p].root] = None
    /\ GiveUp(p)

\* An installation is renamed into place whole; install --repair replaces one
\* that is not whole.
InstallPayload(p) ==
    /\ At(p, "sdk")
    /\ \E x \in hand[p].next :
          /\ \/ ~Present(x)
             \/ hand[p].op = "install" /\ payload[x] = "broken"
          /\ payload' = [payload EXCEPT ![x] = "whole"]
    /\ UNCHANGED <<locks, project, pc, hand, deaths>>

\* A broken installation passes when what is checked of it is still there.
InstallSdk(p) ==
    /\ At(p, "sdk")
    /\ \A x \in hand[p].next : Present(x)
    /\ Goto(p, IF hand[p].op = "install" THEN "bind" ELSE "begin")
    /\ UNCHANGED <<locks, payload, project, hand, deaths>>

InstallRefused(p) ==
    /\ At(p, "sdk")
    /\ \E x \in hand[p].next : payload[x] = "broken"
    /\ GiveUp(p)

WriteJournal(p) ==
    /\ At(p, "begin")
    /\ marker[hand[p].root] = None
    /\ \E id \in Ids :
          /\ journals[id] = None
          /\ journals' = [journals EXCEPT ![id] =
                [root |-> hand[p].root, phase |-> "prepared",
                 old |-> lock[hand[p].root], new |-> hand[p].next]]
          /\ hand' = [hand EXCEPT ![p].id = id]
    /\ Goto(p, "put-marker")
    /\ UNCHANGED <<locks, payload, lock, marker, venv, rebuild, registry, deaths>>

\* Out of ids: the bound, not the code.
OutOfIds(p) ==
    /\ At(p, "begin")
    /\ \A id \in Ids : journals[id] # None
    /\ GiveUp(p)

WriteMarker(p) ==
    /\ At(p, "put-marker")
    /\ marker' = [marker EXCEPT ![hand[p].root] = hand[p].id]
    /\ Goto(p, "put-lock")
    /\ UNCHANGED <<locks, payload, lock, journals, venv, rebuild, registry,
                   hand, deaths>>

\* After its files a transaction binds (unless nothing was to be installed)
\* and registers the project.
Registering(p) ==
    IF hand[p].root \notin GlobalRoots THEN "register-maintenance"
    ELSE IF hand[p].op = "install" THEN "idle" ELSE "commit"

WriteLock(p) ==
    /\ At(p, "put-lock")
    /\ lock' = [lock EXCEPT ![hand[p].root] = hand[p].next]
    /\ Goto(p, IF hand[p].op = "use" THEN "bind" ELSE Registering(p))
    /\ UNCHANGED <<locks, payload, marker, journals, venv, rebuild, registry,
                   hand, deaths>>

CommitJournal(p) ==
    /\ At(p, "commit")
    /\ journals' = [journals EXCEPT ![hand[p].id].phase = "committed"]
    /\ Goto(p, "clear")
    /\ UNCHANGED <<locks, payload, lock, marker, venv, rebuild, registry, hand,
                   deaths>>

ClearMarker(p) ==
    /\ At(p, "clear")
    /\ marker' = [marker EXCEPT ![hand[p].root] = None]
    /\ Return(p)
    /\ UNCHANGED <<payload, lock, journals, venv, rebuild, registry, deaths>>

-----------------------------------------------------------------------------
(* The environment.                                                        *)

\* The interpreter a project with this lock gets its .venv from.
Interpreter(p) ==
    IF hand[p].root \in GlobalRoots THEN {}
    ELSE Content(hand[p].next) \cap Interpreters

\* Where a command goes after binding; for install in a global context that
\* is the end.
Bound(p) ==
    IF hand[p].op = "repair"
    THEN Goto(p, "recovered") /\ UNCHANGED <<locks, hand>>
    ELSE IF Registering(p) = "idle"
    THEN Return(p)
    ELSE Goto(p, Registering(p)) /\ UNCHANGED <<locks, hand>>

\* Nothing to do: no interpreter, or an environment that matches, or one
\* that does not and is preserved (use and repair).
BindKeeps(p) ==
    /\ At(p, "bind")
    /\ \/ Interpreter(p) = {}
       \/ /\ venv[hand[p].root] # None
          /\ venv[hand[p].root] \in Interpreter(p) \/ hand[p].op # "install"
    /\ Bound(p)
    /\ UNCHANGED <<payload, project, deaths>>

\* create_venv: for an absent environment, or for install --recreate-venv.
\* Its journal keeps both interpreters.
BindRebuilds(p) ==
    /\ At(p, "bind")
    /\ rebuild[hand[p].root] = None
    /\ venv[hand[p].root] = None \/ hand[p].op = "install"
    /\ \E x \in Interpreter(p) :
          rebuild' = [rebuild EXCEPT ![hand[p].root] =
                        [before |-> venv[hand[p].root], next |-> x]]
    /\ Goto(p, "venv-create")
    /\ UNCHANGED <<locks, payload, lock, marker, journals, venv, registry, hand,
                   deaths>>

BindRefused(p) ==
    /\ At(p, "bind")
    /\ Interpreter(p) # {}
    /\ \/ venv[hand[p].root] = None /\ rebuild[hand[p].root] # None
       \/ /\ hand[p].op = "install"
          /\ \/ rebuild[hand[p].root] # None
             \/ venv[hand[p].root] \notin Interpreter(p) \cup {None}
    /\ GiveUp(p)

\* The interpreter's worker fills .venv, and the owner marker is written.
VenvCreate(p) ==
    LET root == hand[p].root IN
    /\ At(p, "venv-create")
    /\ Present(rebuild[root].next)
    /\ venv' = [venv EXCEPT ![root] = rebuild[root].next]
    /\ Goto(p, "venv-finish")
    /\ UNCHANGED <<locks, payload, lock, marker, journals, rebuild, registry,
                   hand, deaths>>

\* No interpreter, or one that does not work: what was before comes back.
VenvFails(p) ==
    /\ At(p, "venv-create")
    /\ payload[rebuild[hand[p].root].next] # "whole"
    /\ rebuild' = [rebuild EXCEPT ![hand[p].root] = None]
    /\ Return(p)
    /\ UNCHANGED <<payload, lock, marker, journals, venv, registry, deaths>>

VenvFinish(p) ==
    /\ At(p, "venv-finish")
    /\ rebuild' = [rebuild EXCEPT ![hand[p].root] = None]
    /\ Bound(p)
    /\ UNCHANGED <<payload, lock, marker, journals, venv, registry, deaths>>

-----------------------------------------------------------------------------
(* register: the maintenance lock once more, then the registry's own lock, *)
(* and the list read and written back with this root.                      *)

TakeMaintenanceAgain(p) ==
    /\ At(p, "register-maintenance")
    /\ OpenToShared(p)
    /\ shared' = shared \cup {p}
    /\ Goto(p, "register-lock")
    /\ UNCHANGED <<exclusive, owner, registrar, payload, project, hand, deaths>>

\* Mutant: the list is read and written without its lock.
TakeRegistryAtOnce(p) ==
    /\ At(p, "register-lock")
    /\ Goto(p, "register-read")
    /\ UNCHANGED <<locks, payload, project, hand, deaths>>

TakeRegistry(p) ==
    /\ At(p, "register-lock")
    /\ registrar = None
    /\ registrar' = p
    /\ Goto(p, "register-read")
    /\ UNCHANGED <<shared, exclusive, owner, payload, project, hand, deaths>>

ReadRegistry(p) ==
    /\ At(p, "register-read")
    /\ hand' = [hand EXCEPT ![p].seen = registry]
    /\ Goto(p, "register-write")
    /\ UNCHANGED <<locks, payload, project, deaths>>

WriteRegistry(p) ==
    /\ At(p, "register-write")
    /\ registry' = hand[p].seen \cup {hand[p].root}
    /\ IF hand[p].op \in {"init", "install"} THEN Return(p)
       ELSE /\ registrar' = IF registrar = p THEN None ELSE registrar
            /\ Goto(p, "commit")
            /\ UNCHANGED <<shared, exclusive, owner, hand>>
    /\ UNCHANGED <<payload, lock, marker, journals, venv, rebuild, deaths>>

-----------------------------------------------------------------------------
(* self repair.                                                            *)

\* The journal of the environment: either it is rolled back, or it was
\* already committed and is only cleared (told apart by its phase).
RepairVenv(p) ==
    LET root == hand[p].root IN
    /\ At(p, "repair-venv")
    /\ rebuild' = [rebuild EXCEPT ![root] = None]
    /\ \/ UNCHANGED venv
       \/ /\ rebuild[root] # None
          /\ venv[root] = rebuild[root].next
          /\ venv' = [venv EXCEPT ![root] = rebuild[root].before]
    /\ Unlock(p)
    /\ Goto(p, "repair-look")
    /\ UNCHANGED <<payload, lock, marker, journals, registry, hand, deaths>>

RepairLook(p) ==
    /\ At(p, "repair-look")
    /\ IF marker[hand[p].root] = None
       THEN Return(p)
       ELSE /\ hand' = [hand EXCEPT ![p].id = marker[hand[p].root]]
            /\ Goto(p, "want-maintenance")
            /\ UNCHANGED locks
    /\ UNCHANGED <<payload, project, deaths>>

Recheck(p) ==
    /\ At(p, "recheck")
    /\ marker[hand[p].root] = hand[p].id
    /\ IF journals[hand[p].id].phase = "prepared"
       THEN /\ hand' = [hand EXCEPT ![p].next = journals[hand[p].id].old]
            /\ Goto(p, "restore")
       ELSE Goto(p, "clear") /\ UNCHANGED hand
    /\ UNCHANGED <<locks, payload, project, deaths>>

RecheckRefused(p) ==
    /\ At(p, "recheck")
    /\ marker[hand[p].root] # hand[p].id
    /\ GiveUp(p)

Restore(p) ==
    /\ At(p, "restore")
    /\ lock' = [lock EXCEPT ![hand[p].root] = journals[hand[p].id].old]
    /\ Goto(p, "bind")
    /\ UNCHANGED <<locks, payload, marker, journals, venv, rebuild, registry,
                   hand, deaths>>

MarkRecovered(p) ==
    /\ At(p, "recovered")
    /\ journals' = [journals EXCEPT ![hand[p].id].phase = "recovered"]
    /\ Goto(p, "clear")
    /\ UNCHANGED <<locks, payload, lock, marker, venv, rebuild, registry, hand,
                   deaths>>

-----------------------------------------------------------------------------
(* clean installs.                                                         *)

\* Mutant: the lock is taken in spite of those who share it.
TakeExclusiveAtOnce(p) ==
    /\ At(p, "want-exclusive")
    /\ exclusive = None
    /\ exclusive' = p
    /\ Goto(p, "scan")
    /\ UNCHANGED <<shared, owner, registrar, payload, project, hand, deaths>>

TakeExclusive(p) ==
    /\ At(p, "want-exclusive")
    /\ exclusive = None /\ shared = {}
    /\ exclusive' = p
    /\ Goto(p, "scan")
    /\ UNCHANGED <<shared, owner, registrar, payload, project, hand, deaths>>

\* The journals not settled yet, and the environments being rebuilt.
Prepared == {id \in Ids : journals[id] # None /\ journals[id].phase = "prepared"}

Rebuilding == {r \in Roots : rebuild[r] # None}

\* The locks clean looks at: of registered projects, of the global selection,
\* and both sides of every transaction that was not settled.
ReferencedLocks ==
    {lock[r] : r \in registry \cup GlobalRoots}
    \cup {journals[id].old : id \in Prepared}
    \cup {journals[id].new : id \in Prepared}

VenvReferences ==
    ({venv[r] : r \in registry}
     \cup {rebuild[r].before : r \in Rebuilding}
     \cup {rebuild[r].next : r \in Rebuilding}) \ {None}

\* Mutant: what an unfinished transaction may go back to is forgotten.
ReferencesForward ==
    (UNION {Content(l) : l \in ReferencedLocks
                               \ {journals[id].old : id \in Prepared}})
    \cup VenvReferences

References == (UNION {Content(l) : l \in ReferencedLocks}) \cup VenvReferences

\* A registered project whose lock is gone: nothing is removed.
Uncertain == \E r \in registry : lock[r] = None

\* The command line may name the versions to consider.
Scan(p) ==
    /\ At(p, "scan")
    /\ \E removals \in SUBSET (IF Uncertain THEN {}
                               ELSE {x \in Payloads : Present(x)} \ References) :
          hand' = [hand EXCEPT ![p].removals = removals]
    /\ Goto(p, "remove")
    /\ UNCHANGED <<locks, payload, project, deaths>>

\* One directory after the other, and each entry by entry.
RemoveStarts(p) ==
    /\ At(p, "remove")
    /\ \E x \in hand[p].removals : payload' = [payload EXCEPT ![x] = "broken"]
    /\ Goto(p, "removing")
    /\ UNCHANGED <<locks, project, hand, deaths>>

RemoveEnds(p) ==
    /\ At(p, "removing")
    /\ \E x \in hand[p].removals :
          /\ payload[x] = "broken"
          /\ payload' = [payload EXCEPT ![x] = "absent"]
          /\ hand' = [hand EXCEPT ![p].removals = @ \ {x}]
    /\ Goto(p, "remove")
    /\ UNCHANGED <<locks, project, deaths>>

Cleaned(p) ==
    /\ At(p, "remove")
    /\ hand[p].removals = {}
    /\ GiveUp(p)

-----------------------------------------------------------------------------
\* A command may die anywhere; its locks are let go by the kernel.
Die(p) ==
    /\ ~At(p, "idle")
    /\ deaths < MaxDeaths
    /\ deaths' = deaths + 1
    /\ Return(p)
    /\ UNCHANGED <<payload, project>>

Begins(p) == StartCommand(p) \/ StartInit(p) \/ StartRepair(p) \/ StartClean(p)

Registers(p) == ReadRegistry(p) \/ WriteRegistry(p)

Commits(p) ==
    \/ Edit(p) \/ Load(p) \/ Refused(p)
    \/ InstallPayload(p) \/ InstallSdk(p) \/ InstallRefused(p)
    \/ WriteJournal(p) \/ OutOfIds(p) \/ WriteMarker(p) \/ WriteLock(p)
    \/ CommitJournal(p) \/ ClearMarker(p)

Binds(p) ==
    \/ BindKeeps(p) \/ BindRebuilds(p) \/ BindRefused(p)
    \/ VenvCreate(p) \/ VenvFails(p) \/ VenvFinish(p)

Repairs(p) ==
    \/ RepairVenv(p) \/ RepairLook(p) \/ Recheck(p) \/ RecheckRefused(p)
    \/ Restore(p) \/ MarkRecovered(p)

Cleans(p) == Scan(p) \/ RemoveStarts(p) \/ RemoveEnds(p) \/ Cleaned(p)

\* Steps that wait for no one.
Proceed(p) == Commits(p) \/ Binds(p) \/ Registers(p) \/ Repairs(p) \/ Cleans(p)

Takes(p) == \/ TakeMaintenance(p) \/ TakeProject(p)
            \/ TakeMaintenanceAgain(p) \/ TakeRegistry(p)

Next ==
    \E p \in Procs :
        Begins(p) \/ Proceed(p) \/ Takes(p) \/ TakeExclusive(p) \/ Die(p)

Spec == Init /\ [][Next]_vars

\* A running process runs on, and the kernel passes no waiter over for ever.
Fairness ==
    \A p \in Procs :
        WF_vars(Proceed(p)) /\ SF_vars(Takes(p))

FairSpec == Spec /\ Fairness

-----------------------------------------------------------------------------
\* A transaction some command still has to commit or to roll back.
Unsettled(id) ==
    /\ journals[id] # None
    /\ journals[id].phase = "prepared"
    /\ marker[journals[id].root] = id

\* What a project, a recovery or a running command counts on.
Needed ==
    UNION ({Content(lock[r]) : r \in registry \cup GlobalRoots}
           \cup {{venv[r]} \ {None} : r \in registry}
           \cup {{rebuild[r].before, rebuild[r].next} \ {None} : r \in Rebuilding}
           \cup {Content(journals[id].old) \cup Content(journals[id].new) :
                   id \in {i \in Ids : Unsettled(i)}}
           \cup {Content(hand[p].next) : p \in Procs})

\* Not one file of an installation goes while a registered project, the
\* global selection, an environment, an unsettled transaction or a command
\* that has chosen its lock needs it: maintenance.rs clean, the maintenance
\* locks of services.rs, and the order in which commands journal and register.
CleanKeepsWhatIsNeeded ==
    [][\A x \in Payloads :
         payload'[x] # payload[x] /\ payload'[x] # "whole" => x \notin Needed]_vars

\* A project that was registered stays registered, however the commands of
\* several projects interleave: services.rs register.
RegistrationsAreKept == [][registry \subseteq registry']_vars

\* What a command installed, or found installed, is there when it binds and
\* when it commits, and until it returns: services.rs install and use_tools.
UsedIsPresent ==
    \A p \in Procs :
        /\ hand[p].op \in {"use", "install"}
        /\ pc[p] \in WriterSteps \ {"want-project", "edit", "load", "sdk"}
        => \A x \in Content(hand[p].next) : Present(x)

\* Every command that is not a clean still waiting for its turn returns: the
\* maintenance lock, taken twice by those who register, blocks no one for
\* ever. (clean itself may be overtaken by shared lockers for ever.)
CommandsReturn ==
    \A p \in Procs :
        pc[p] \notin {"idle", "want-exclusive"} ~> At(p, "idle")

\* docs/commands.md, `clean installs`: installations are deleted that no
\* project, global choice or managed Python environment uses any more -
\* without a word on registration. Code: maintenance.rs references.
EnvironmentsKeepTheirInterpreter ==
    [][\A r \in Roots :
         venv[r] # None /\ payload[venv[r]] = "whole" => payload'[venv[r]] = "whole"]_vars

-----------------------------------------------------------------------------
(* The inductive invariant of CleanupProofs.                               *)

RegisterSteps == {"register-maintenance", "register-lock", "register-read",
                  "register-write"}

\* init takes the maintenance and the registry lock, not a project's.
OwnerSteps(p) ==
    WriterSteps \ ({"want-project"}
                   \cup IF hand[p].op = "init" THEN RegisterSteps ELSE {})

LocksAreHeld ==
    /\ exclusive # None => shared = {}
    /\ \A p \in Procs :
          /\ pc[p] \in WriterSteps => p \in shared
          /\ pc[p] \in CleanSteps => exclusive = p
          /\ pc[p] \in OwnerSteps(p) => owner[hand[p].root] = p
          /\ pc[p] \in {"register-read", "register-write"} => registrar = p

OpsAreInPlace ==
    \A p \in Procs :
        /\ pc[p] \in WriterSteps \cup {"want-maintenance", "repair-look"}
              => hand[p].root \in Roots
        /\ pc[p] \in {"repair-venv", "repair-look", "recheck", "restore",
                      "recovered"} => hand[p].op = "repair"
        /\ pc[p] = "want-maintenance"
              => hand[p].op \in {"init", "use", "commit", "install", "repair"}
        /\ pc[p] = "want-project"
              => hand[p].op \in {"use", "commit", "install", "repair"}
        /\ pc[p] \in {"bind", "venv-create", "venv-finish"}
              => hand[p].op \in {"use", "install", "repair"}
        /\ pc[p] \in {"edit", "begin", "put-marker", "put-lock", "commit"}
              => hand[p].op \in {"use", "commit"}
        /\ pc[p] \in RegisterSteps => hand[p].op \in {"init", "use", "commit", "install"}
        /\ pc[p] = "load" => hand[p].op = "install"
        /\ pc[p] = "sdk" => hand[p].op \in {"use", "install"}

HandsAreFilled ==
    /\ \A r \in Roots : marker[r] # None => journals[marker[r]] # None
    /\ \A p \in Procs :
          /\ hand[p].next # None
                => pc[p] \in WriterSteps \ {"want-project", "repair-venv"}
          /\ hand[p].id # None => journals[hand[p].id] # None
          /\ pc[p] \in {"sdk", "begin", "put-marker", "put-lock"}
                => hand[p].next # None
          /\ \/ pc[p] \in {"put-marker", "put-lock", "commit", "clear",
                           "recheck", "restore", "recovered"}
             \/ /\ pc[p] \in {"bind", "venv-create", "venv-finish"} \cup RegisterSteps
                /\ hand[p].op \in {"use", "commit", "repair"}
             => hand[p].id # None
          /\ pc[p] \in {"venv-create", "venv-finish"} => rebuild[hand[p].root] # None
          /\ pc[p] = "register-write" => hand[p].seen = registry

RemovalsAreSafe ==
    \A p \in Procs :
        pc[p] \in {"remove", "removing"} => hand[p].removals \cap Needed = {}

\* Who holds which lock and what in memory at each step of a command, and
\* that what clean has decided to remove is needed by no one.
IInv ==
    /\ TypeOK
    /\ LocksAreHeld
    /\ OpsAreInPlace
    /\ HandsAreFilled
    /\ RemovalsAreSafe
    /\ UsedIsPresent
=============================================================================
