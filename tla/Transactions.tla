---------------------------- MODULE Transactions ----------------------------
(***************************************************************************)
(* One pinset context - a project, or the global selection - edited,       *)
(* installed, read and repaired by several CLI processes at once, any of   *)
(* which may die between two writes.                                       *)
(*                                                                         *)
(* A writer takes the context's guard, writes a journal, then the marker   *)
(* .pinset/local/transaction.json, then the files one by one; it commits   *)
(* by turning the journal to "committed" and removes the marker.           *)
(* `self repair` finds the marker a dead writer left, restores the files   *)
(* from the journal, or, when the journal was committed, only clears the   *)
(* marker.  Readers (exec, which, check, the shims) take no guard: they    *)
(* look at the marker, then at the configuration, then at the lock.        *)
(*                                                                         *)
(* One action is one file-system step another process can see.  Whatever   *)
(* a command does under the guard before its first write is one step.      *)
(***************************************************************************)
EXTENDS ProjectFiles, Naturals

CONSTANTS
    Procs,             \* CLI processes
    Ids,               \* transaction ids (fresh uuids); bounds the commits
    VenvTools,         \* tools bound to the project by .venv (python)
    LinkedTools,       \* tools bound by a link in local/ (flutter)
    Global,            \* TRUE for PINSET_HOME/v3/global, FALSE for a project
    InitialFiles,      \* what is on disk when the behaviour starts
    InitialInstalled,  \* <<tool, version>> pairs installed beforehand
    MaxDeaths          \* bounds how many commands die halfway

ASSUME TransactionsAssumption ==
    /\ None \notin Procs
    /\ None \notin Ids
    /\ None \notin Versions
    /\ VenvTools \subseteq Tools
    /\ LinkedTools \subseteq Tools
    /\ Global \in BOOLEAN
    /\ InitialFiles \subseteq Files
    /\ InitialInstalled \subseteq Tools \X Versions
    /\ MaxDeaths \in Nat

VARIABLES
    files,       \* config.toml, lock.toml and the encrypted profile
    marker,      \* local/transaction.json: the id of the pending transaction
    journals,    \* state/transactions/<id>.json, never deleted
    guard,       \* the process holding state/locks/projects/<project_id>.lock
    registered,  \* the project is in state/projects.json
    installed,   \* installs/<tool>/<version> with a receipt
    venv,        \* the version .venv was created from
    pc,          \* where each process is
    hand,        \* what each process has in memory
    deaths

vars == <<files, marker, journals, guard, registered, installed, venv,
          pc, hand, deaths>>

Ops == {"none", "init", "import", "use", "remove", "profile", "install",
        "repair", "read"}

Phases == {"prepared", "committed", "recovered"}

\* new.profile is not in the journal of the code: it is the ciphertext the
\* command holds in memory.
Journal == [phase : Phases, old : Files, new : Files]

ASSUME NoneIsNoJournal == None \notin Journal

Hand == [op : Ops,
         bind : BOOLEAN,             \* use without --no-install
         names : SUBSET Tools,       \* the tools the command names
         next : Files \cup {None},   \* files read, or about to be written
         seen : Files \cup {None},   \* what an import plan was made from
         id : Ids \cup {None}]       \* the transaction begun or repaired

EmptyHand == [op |-> "none", bind |-> FALSE, names |-> {}, next |-> None,
              seen |-> None, id |-> None]

\* Steps taken while holding the guard.
WriterSteps == {"begin", "put-marker", "put-config", "put-lock", "put-profile",
                "commit-bind", "commit-register", "commit"}
RestoreSteps == {"restore-config", "restore-profile", "restore-lock",
                 "restore-bind", "recovered"}
GuardedSteps == WriterSteps \cup RestoreSteps \cup
    {"edit", "create", "sdk", "recheck", "clear", "load", "bind", "register"}
Steps == GuardedSteps \cup
    {"idle", "wait", "init-register", "read-config", "read-lock", "accepted"}

TypeOK ==
    /\ files \in Files
    /\ marker \in Ids \cup {None}
    /\ journals \in [Ids -> Journal \cup {None}]
    /\ guard \in Procs \cup {None}
    /\ registered \in BOOLEAN
    /\ installed \subseteq Tools \X Versions
    /\ venv \in Versions \cup {None}
    /\ pc \in [Procs -> Steps]
    /\ hand \in [Procs -> Hand]
    /\ deaths \in 0 .. MaxDeaths

Init ==
    /\ files \in InitialFiles
    /\ marker = None
    /\ journals = [id \in Ids |-> None]
    /\ guard = None
    /\ registered \in BOOLEAN
    /\ installed = InitialInstalled
    /\ venv = None
    /\ pc = [p \in Procs |-> "idle"]
    /\ hand = [p \in Procs |-> EmptyHand]
    /\ deaths = 0

-----------------------------------------------------------------------------
At(p, step) == pc[p] = step

Goto(p, step) == pc' = [pc EXCEPT ![p] = step]

\* The command returns, with or without an error, and its locks are dropped.
Return(p) ==
    /\ pc' = [pc EXCEPT ![p] = "idle"]
    /\ hand' = [hand EXCEPT ![p] = EmptyHand]
    /\ guard' = IF guard = p THEN None ELSE guard

Start(p, step, op, bind, next, id) ==
    /\ At(p, "idle")
    /\ Goto(p, step)
    /\ hand' = [hand EXCEPT ![p] = [op |-> op, bind |-> bind, names |-> {},
                                    next |-> next, seen |-> None, id |-> id]]

\* A command under the guard has settled what the files are to become.
Settle(p, names, next) ==
    hand' = [hand EXCEPT ![p] = [op |-> hand[p].op, bind |-> hand[p].bind,
                                 names |-> names, next |-> next,
                                 seen |-> hand[p].seen, id |-> None]]

\* load_for_edit: an absent lock is an empty one; so is the configuration of
\* the first global selection (edit_context).
Loaded == [config |-> IF files.config = None THEN NoTools ELSE files.config,
           lock |-> LockOrEmpty(files.lock),
           profile |-> files.profile]

bindings == <<registered, installed, venv>>

\* The transactions ever begun.
Begun == {id \in Ids : journals[id] # None}

LockedIn(lock) == {t \in Tools : lock[t] # None}

Payloads(lock, names) ==
    {<<t, lock[t].version>> : t \in LockedIn(lock) \cap names}

-----------------------------------------------------------------------------
(* pinset init: no marker check, and a guard named after the directory,    *)
(* which only import also takes: it makes the existence test and the write *)
(* one step.  While there is no configuration, guard is an import's.       *)

InitProject(p) ==
    /\ ~Global
    /\ files.config = None
    /\ guard = None
    /\ Start(p, "init-register", "init", FALSE, None, None)
    /\ files' = [files EXCEPT !.config = NoTools]
    /\ UNCHANGED <<marker, journals, guard, bindings, deaths>>

InitRegister(p) ==
    /\ At(p, "init-register")
    /\ registered' = TRUE
    /\ Return(p)
    /\ UNCHANGED <<files, marker, journals, installed, venv, deaths>>

-----------------------------------------------------------------------------
(* use, remove, profile edits and install, up to the guard.  What they     *)
(* load before it is read again under it, except that the first global     *)
(* selection has no configuration to read.                                 *)

StartEdit(p) ==
    /\ \/ /\ Global /\ files.config = None
       \/ /\ files.config # None /\ marker = None
    /\ \/ \E bind \in BOOLEAN : Start(p, "wait", "use", bind, Loaded, None)
       \/ Start(p, "wait", "remove", FALSE, Loaded, None)
    /\ UNCHANGED <<files, marker, journals, guard, bindings, deaths>>

\* plan_import: missing selections and missing locks are added to what is on
\* disk, existing ones are kept; the plan is shown to the user, then applied.
StartImport(p) ==
    /\ ~Global
    /\ files.config # None => marker = None
    /\ files.lock # None => Fits(Loaded.config, files.lock)
    /\ At(p, "idle")
    /\ \E names \in SUBSET {t \in Tools : Loaded.config[t] = None} :
       \E selector \in [names -> Selectors], version \in [Tools -> Versions] :
          LET config == [t \in Tools |-> IF t \in names THEN selector[t]
                                         ELSE Loaded.config[t]]
              lock == [t \in Tools |->
                         IF config[t] # None /\ Loaded.lock[t] = None
                         THEN [requested |-> config[t], version |-> version[t]]
                         ELSE Loaded.lock[t]]
          IN  /\ names # {} \/ (files.config # None /\ files.lock = None)
              /\ hand' = [hand EXCEPT ![p] =
                            [op |-> "import", bind |-> FALSE, names |-> names,
                             next |-> [config |-> config, lock |-> lock,
                                       profile |-> files.profile],
                             seen |-> files, id |-> None]]
    /\ Goto(p, "wait")
    /\ UNCHANGED <<files, marker, journals, guard, bindings, deaths>>

StartProfile(p) ==
    /\ ~Global
    /\ files.config # None
    /\ marker = None
    /\ Start(p, "wait", "profile", FALSE, None, None)
    /\ UNCHANGED <<files, marker, journals, guard, bindings, deaths>>

StartInstall(p) ==
    /\ marker = None
    /\ Loadable(files.config, files.lock)
    /\ Start(p, "wait", "install", FALSE, None, None)
    /\ UNCHANGED <<files, marker, journals, guard, bindings, deaths>>

\* `self repair` reads the marker and the journal it names before the guard:
\* the journal holds the project id the guard is named after.
StartRepair(p) ==
    /\ marker # None
    /\ journals[marker] # None
    /\ Start(p, "wait", "repair", FALSE, None, marker)
    /\ UNCHANGED <<files, marker, journals, guard, bindings, deaths>>

Guard(p) ==
    /\ At(p, "wait")
    /\ guard = None
    /\ hand[p].op = "import" => \A q \in Procs : ~At(q, "init-register")
    /\ guard' = p
    /\ Goto(p, CASE hand[p].op = "repair" -> "recheck"
                 [] hand[p].op = "install" -> "load"
                 [] OTHER -> "edit")
    /\ UNCHANGED <<files, marker, journals, bindings, hand, deaths>>

-----------------------------------------------------------------------------
(* Choosing the next pair, under the guard.                                *)

\* Mutant: the pair loaded before the guard is trusted.
EditBaseStale(p) == hand[p].next

\* The pair an edit starts from: read again when there is a configuration,
\* the one in memory otherwise (the first global selection).
EditBase(p) == IF files.config # None THEN Loaded ELSE hand[p].next

\* The reload refuses a pending transaction.
Reloadable == files.config # None => marker = None

\* use: the named tools get a selector and are resolved; the result must fit.
UseTools(p) ==
    /\ At(p, "edit")
    /\ hand[p].op = "use"
    /\ Reloadable
    /\ \E names \in (SUBSET Tools) \ {{}} :
       \E selector \in [names -> Selectors], version \in [names -> Versions] :
          LET base == EditBase(p)
              config == [t \in Tools |-> IF t \in names THEN selector[t]
                                         ELSE base.config[t]]
              lock == [t \in Tools |->
                         IF t \in names
                         THEN [requested |-> selector[t], version |-> version[t]]
                         ELSE base.lock[t]]
          IN /\ Fits(config, lock)
             /\ Settle(p, names, [config |-> config, lock |-> lock,
                                  profile |-> files.profile])
    /\ Goto(p, IF hand[p].bind THEN "sdk" ELSE "begin")
    /\ UNCHANGED <<files, marker, journals, guard, bindings, deaths>>

Remove(p) ==
    /\ At(p, "edit")
    /\ hand[p].op = "remove"
    /\ Reloadable
    /\ \E names \in (SUBSET Tools) \ {{}} :
          LET base == EditBase(p)
              config == [t \in Tools |-> IF t \in names THEN None
                                         ELSE base.config[t]]
              lock == [t \in Tools |-> IF t \in names THEN None
                                       ELSE base.lock[t]]
          IN /\ Fits(config, lock)
             /\ Settle(p, names, [config |-> config, lock |-> lock,
                                  profile |-> files.profile])
    /\ Goto(p, "begin")
    /\ UNCHANGED <<files, marker, journals, guard, bindings, deaths>>

\* Mutant: the plan is applied to whatever the disk holds by now.
ImportFreshAlways(p) == TRUE

\* validate_sources: the files are still those the plan was made from.
ImportFresh(p) ==
    files.config = hand[p].seen.config /\ files.lock = hand[p].seen.lock

\* apply_import: a new project first gets an empty configuration, so that a
\* rollback has something to go back to.
ApplyImport(p) ==
    /\ At(p, "edit")
    /\ hand[p].op = "import"
    /\ ImportFresh(p)
    /\ marker = None
    /\ Settle(p, hand[p].names, [config |-> hand[p].next.config,
                                 lock |-> hand[p].next.lock,
                                 profile |-> files.profile])
    /\ Goto(p, IF files.config = None THEN "create" ELSE "begin")
    /\ UNCHANGED <<files, marker, journals, guard, bindings, deaths>>

ImportCreate(p) ==
    /\ At(p, "create")
    /\ files' = [files EXCEPT !.config = NoTools]
    /\ Goto(p, "begin")
    /\ UNCHANGED <<marker, journals, guard, bindings, hand, deaths>>

\* Every profile edit commits the tool selection as it is, with another
\* profile (None: the profile is removed).
EditProfile(p) ==
    /\ At(p, "edit")
    /\ hand[p].op = "profile"
    /\ marker = None
    /\ Loadable(files.config, files.lock)
    /\ \E profile \in (Profiles \cup {None}) \ {files.profile} :
          Settle(p, {}, [config |-> Loaded.config, lock |-> Loaded.lock,
                         profile |-> profile])
    /\ Goto(p, "begin")
    /\ UNCHANGED <<files, marker, journals, guard, bindings, deaths>>

\* install_sdk of every tool of the new lock; nothing of the project changes.
InstallSdk(p) ==
    /\ At(p, "sdk")
    /\ installed' = installed \cup Payloads(hand[p].next.lock, Tools)
    /\ Goto(p, "begin")
    /\ UNCHANGED <<files, marker, journals, guard, registered, venv, hand,
                   deaths>>

-----------------------------------------------------------------------------
(* begin_commit.                                                           *)

\* Refuse an unfinished transaction, then journal the files as they are and
\* as they will be.
WriteJournal(p) ==
    /\ At(p, "begin")
    /\ marker = None
    /\ \E id \in Ids :
        /\ journals[id] = None
        /\ journals' = [journals EXCEPT ![id] =
                          [phase |-> "prepared", old |-> files,
                           new |-> hand[p].next]]
        /\ hand' = [hand EXCEPT ![p].id = id]
    /\ Goto(p, "put-marker")
    /\ UNCHANGED <<files, marker, guard, bindings, deaths>>

WriteMarker(p) ==
    /\ At(p, "put-marker")
    /\ marker' = hand[p].id
    /\ Goto(p, "put-config")
    /\ UNCHANGED <<files, journals, guard, bindings, hand, deaths>>

WriteConfig(p) ==
    /\ At(p, "put-config")
    /\ files' = [files EXCEPT !.config = journals[hand[p].id].new.config]
    /\ Goto(p, "put-lock")
    /\ UNCHANGED <<marker, journals, guard, bindings, hand, deaths>>

\* Mutant: the transaction is finished without binding the project.
WriteLockUnbound(p) ==
    /\ At(p, "put-lock")
    /\ files' = [files EXCEPT !.lock = journals[hand[p].id].new.lock]
    /\ Goto(p, IF hand[p].op = "profile" THEN "put-profile"
                                         ELSE "commit-register")
    /\ UNCHANGED <<marker, journals, guard, bindings, hand, deaths>>

WriteLock(p) ==
    /\ At(p, "put-lock")
    /\ files' = [files EXCEPT !.lock = journals[hand[p].id].new.lock]
    /\ Goto(p, CASE hand[p].op = "profile" -> "put-profile"
                 [] hand[p].op = "use" /\ hand[p].bind -> "commit-bind"
                 [] OTHER -> "commit-register")
    /\ UNCHANGED <<marker, journals, guard, bindings, hand, deaths>>

\* Profile edits replace or remove the encrypted profile between begin_commit
\* and finish_commit.
WriteProfile(p) ==
    /\ At(p, "put-profile")
    /\ files' = [files EXCEPT !.profile = hand[p].next.profile]
    /\ Goto(p, "commit-register")
    /\ UNCHANGED <<marker, journals, guard, bindings, hand, deaths>>

-----------------------------------------------------------------------------
(* bind_local and finish_commit.                                           *)

\* An existing .venv is kept, whatever it was made from (preserve_mismatch);
\* a missing one is made from the locked interpreter, which must be installed,
\* and a link needs the receipt of what it points to.
Bindable(lock) ==
    /\ venv = None => Payloads(lock, VenvTools) \subseteq installed
    /\ Payloads(lock, LinkedTools) \subseteq installed

BindLocal(lock) ==
    \/ Global /\ UNCHANGED venv
    \/ /\ ~Global
       /\ Bindable(lock)
       /\ IF venv = None /\ LockedIn(lock) \cap VenvTools # {}
          THEN \E t \in LockedIn(lock) \cap VenvTools : venv' = lock[t].version
          ELSE UNCHANGED venv

CommitBind(p) ==
    /\ At(p, "commit-bind")
    /\ BindLocal(hand[p].next.lock)
    /\ Goto(p, "commit-register")
    /\ UNCHANGED <<files, marker, journals, guard, registered, installed,
                   hand, deaths>>

CommitRegister(p) ==
    /\ At(p, "commit-register")
    /\ registered' = (registered \/ ~Global)
    /\ Goto(p, "commit")
    /\ UNCHANGED <<files, marker, journals, guard, installed, venv, hand,
                   deaths>>

\* The commit point.
CommitJournal(p) ==
    /\ At(p, "commit")
    /\ journals[hand[p].id].phase = "prepared"
    /\ journals' = [journals EXCEPT ![hand[p].id].phase = "committed"]
    /\ Goto(p, "clear")
    /\ UNCHANGED <<files, marker, guard, bindings, hand, deaths>>

ClearMarker(p) ==
    /\ At(p, "clear")
    /\ marker' = None
    /\ Return(p)
    /\ UNCHANGED <<files, journals, bindings, deaths>>

-----------------------------------------------------------------------------
(* install: reload, install, bind, register; the pair is not touched.      *)

InstallLoad(p) ==
    /\ At(p, "load")
    /\ marker = None
    /\ Loadable(files.config, files.lock)
    /\ \E names \in (SUBSET Tools) \ {{}} :
        /\ Settle(p, names, Loaded)
        /\ installed' = installed \cup Payloads(Loaded.lock, names)
    /\ Goto(p, "bind")
    /\ UNCHANGED <<files, marker, journals, guard, registered, venv, deaths>>

\* Without preserve_mismatch: a .venv of the locked version is kept, a missing
\* one is created and, with --recreate-venv, any other one is replaced.
InstallBind(p) ==
    /\ At(p, "bind")
    /\ LET lock == hand[p].next.lock
           named == LockedIn(lock) \cap VenvTools \cap hand[p].names
       IN IF ~Global /\ named # {}
          THEN \E t \in named : venv' = lock[t].version
          ELSE UNCHANGED venv
    /\ Goto(p, "register")
    /\ UNCHANGED <<files, marker, journals, guard, registered, installed, hand,
                   deaths>>

InstallRegister(p) ==
    /\ At(p, "register")
    /\ registered' = (registered \/ ~Global)
    /\ Return(p)
    /\ UNCHANGED <<files, marker, journals, installed, venv, deaths>>

-----------------------------------------------------------------------------
(* recover_transactions, under the guard.                                  *)

\* Is the journaled old pair one recovery accepts?  Only the first global
\* selection may have had no configuration, and then no lock either.
Restorable(old) ==
    IF old.config = None THEN Global /\ old.lock = None
                         ELSE Fits(old.config, LockOrEmpty(old.lock))

\* Mutant: the marker is not read again under the guard.
RepairRefusedUnchecked(p) ==
    LET journal == journals[hand[p].id] IN
    \/ marker = None
    \/ journal.phase = "prepared" /\ ~Restorable(journal.old)

\* Mutant: repair knows only of transactions that are to be rolled back.
RepairRefusedSettled(p) ==
    LET journal == journals[hand[p].id] IN
    \/ marker = None
    \/ marker # hand[p].id
    \/ journal.phase # "prepared"
    \/ ~Restorable(journal.old)

\* Another process finished the transaction, or began another one, or the
\* rollback is impossible: repair leaves everything as it is.
RepairRefused(p) ==
    LET journal == journals[hand[p].id] IN
    \/ marker = None
    \/ marker # hand[p].id
    \/ journal.phase = "prepared" /\ ~Restorable(journal.old)

\* Mutant: every marked transaction is rolled back, whatever its phase.
RecheckRollsBack(p) ==
    /\ At(p, "recheck")
    /\ ~RepairRefused(p)
    /\ Goto(p, "restore-config")
    /\ UNCHANGED <<files, marker, journals, guard, bindings, hand, deaths>>

Recheck(p) ==
    /\ At(p, "recheck")
    /\ ~RepairRefused(p)
    /\ Goto(p, IF journals[hand[p].id].phase = "prepared"
               THEN "restore-config" ELSE "clear")
    /\ UNCHANGED <<files, marker, journals, guard, bindings, hand, deaths>>

\* Mutant: a configuration that did not exist before is left in place.
RestoreConfigKeeps(p) ==
    /\ At(p, "restore-config")
    /\ LET old == journals[hand[p].id].old.config IN
        files' = IF old = None THEN files ELSE [files EXCEPT !.config = old]
    /\ Goto(p, "restore-profile")
    /\ UNCHANGED <<marker, journals, guard, bindings, hand, deaths>>

RestoreConfig(p) ==
    /\ At(p, "restore-config")
    /\ files' = [files EXCEPT !.config = journals[hand[p].id].old.config]
    /\ Goto(p, "restore-profile")
    /\ UNCHANGED <<marker, journals, guard, bindings, hand, deaths>>

\* Mutant: only profiles that existed before are restored.
RestoreProfileKeeps(p) ==
    /\ At(p, "restore-profile")
    /\ LET old == journals[hand[p].id].old.profile IN
        files' = IF old = None THEN files ELSE [files EXCEPT !.profile = old]
    /\ Goto(p, "restore-lock")
    /\ UNCHANGED <<marker, journals, guard, bindings, hand, deaths>>

RestoreProfile(p) ==
    /\ At(p, "restore-profile")
    /\ files' = [files EXCEPT !.profile = journals[hand[p].id].old.profile]
    /\ Goto(p, "restore-lock")
    /\ UNCHANGED <<marker, journals, guard, bindings, hand, deaths>>

RestoreLock(p) ==
    /\ At(p, "restore-lock")
    /\ files' = [files EXCEPT !.lock = journals[hand[p].id].old.lock]
    /\ Goto(p, "restore-bind")
    /\ UNCHANGED <<marker, journals, guard, bindings, hand, deaths>>

RestoreBind(p) ==
    /\ At(p, "restore-bind")
    /\ BindLocal(LockOrEmpty(journals[hand[p].id].old.lock))
    /\ Goto(p, "recovered")
    /\ UNCHANGED <<files, marker, journals, guard, registered, installed,
                   hand, deaths>>

\* Mutant: the phase name of the venv journals.
MarkRecoveredRolledBack(p) ==
    /\ At(p, "recovered")
    /\ journals' = [journals EXCEPT ![hand[p].id].phase = "rolled-back"]
    /\ Goto(p, "clear")
    /\ UNCHANGED <<files, marker, guard, bindings, hand, deaths>>

MarkRecovered(p) ==
    /\ At(p, "recovered")
    /\ journals' = [journals EXCEPT ![hand[p].id].phase = "recovered"]
    /\ Goto(p, "clear")
    /\ UNCHANGED <<files, marker, guard, bindings, hand, deaths>>

-----------------------------------------------------------------------------
(* Readers: marker, configuration and lock are three separate looks.       *)

StartRead(p) ==
    /\ marker = None
    /\ Start(p, "read-config", "read", FALSE, None, None)
    /\ UNCHANGED <<files, marker, journals, guard, bindings, deaths>>

ReadConfig(p) ==
    /\ At(p, "read-config")
    /\ files.config # None
    /\ hand' = [hand EXCEPT ![p].next = [config |-> files.config, lock |-> None,
                                         profile |-> None]]
    /\ Goto(p, "read-lock")
    /\ UNCHANGED <<files, marker, journals, guard, bindings, deaths>>

\* The lock as it is now, checked against the configuration read before; the
\* profile is not read here.
ReadLock(p) ==
    /\ At(p, "read-lock")
    /\ Loadable(hand[p].next.config, files.lock)
    /\ hand' = [hand EXCEPT ![p].next.lock = files.lock]
    /\ Goto(p, "accepted")
    /\ UNCHANGED <<files, marker, journals, guard, bindings, deaths>>

-----------------------------------------------------------------------------
(* Leaving early.                                                          *)

\* A command may give up on an error wherever the code returns one before it
\* has written anything of its own, and must where its next step is refused;
\* a reader ends.  A binding that cannot be made leaves the marker behind.
GivesUp(p) ==
    \/ pc[p] \in {"edit", "sdk", "load", "read-lock", "accepted"}
    \/ At(p, "read-config") /\ files.config = None
    \/ At(p, "begin") /\ (marker # None \/ Begun = Ids)   \* the bound Ids
    \/ At(p, "recheck") /\ RepairRefused(p)
    \/ At(p, "bind")
    \/ /\ At(p, "commit-bind")
       /\ ~Global
       /\ ~Bindable(hand[p].next.lock)
    \/ /\ At(p, "restore-bind")
       /\ ~Global
       /\ ~Bindable(LockOrEmpty(journals[hand[p].id].old.lock))

GiveUp(p) ==
    /\ GivesUp(p)
    /\ Return(p)
    /\ UNCHANGED <<files, marker, journals, bindings, deaths>>

\* A process that is killed, or whose next write fails, drops its locks and
\* leaves the files as they are.
Die(p) ==
    /\ pc[p] \in GuardedSteps \cup {"init-register"}
    /\ deaths < MaxDeaths
    /\ deaths' = deaths + 1
    /\ Return(p)
    /\ UNCHANGED <<files, marker, journals, bindings>>

-----------------------------------------------------------------------------
Commit(p) ==
    \/ WriteJournal(p) \/ WriteMarker(p) \/ WriteConfig(p) \/ WriteLock(p)
    \/ WriteProfile(p) \/ CommitBind(p) \/ CommitRegister(p)
    \/ CommitJournal(p) \/ ClearMarker(p)

Edit(p) ==
    \/ UseTools(p) \/ Remove(p) \/ EditProfile(p) \/ InstallSdk(p)
    \/ ApplyImport(p) \/ ImportCreate(p)

Install(p) == InstallLoad(p) \/ InstallBind(p) \/ InstallRegister(p)

Restore(p) ==
    \/ Recheck(p) \/ RestoreConfig(p) \/ RestoreProfile(p) \/ RestoreLock(p)
    \/ RestoreBind(p) \/ MarkRecovered(p)

Read(p) == ReadConfig(p) \/ ReadLock(p)

StartCommand(p) ==
    \/ InitProject(p) \/ StartImport(p) \/ StartEdit(p) \/ StartProfile(p)
    \/ StartInstall(p) \/ StartRead(p)

\* A command that was started, once it has its guard.
Proceed(p) ==
    \/ InitRegister(p) \/ Edit(p) \/ Commit(p) \/ Install(p) \/ Restore(p)
    \/ Read(p) \/ GiveUp(p)

Next ==
    \E p \in Procs :
        \/ StartCommand(p)
        \/ StartRepair(p)
        \/ Guard(p)
        \/ Proceed(p)
        \/ Die(p)

Spec == Init /\ [][Next]_vars

\* A running command is scheduled; a process blocked on the guard is woken in
\* turn; and the user keeps running `self repair` while there is a marker.
Fairness ==
    /\ \A p \in Procs : WF_vars(Proceed(p)) /\ SF_vars(Guard(p))
    /\ SF_vars(\E p \in Procs : StartRepair(p))

FairSpec == Spec /\ Fairness

-----------------------------------------------------------------------------
(* Properties.                                                             *)

Pending == marker # None /\ journals[marker].phase = "prepared"

\* What the files amount to: while a transaction is pending, still the old
\* ones; what is being attempted: the new ones it journaled.
Atomic == INSTANCE AtomicPair WITH
    current <- IF Pending THEN journals[marker].old ELSE files,
    proposed <- IF Pending THEN journals[marker].new ELSE None

\* However the commands interleave and die, configuration, lock and encrypted
\* profile change together or not at all, and one transaction at a time
\* (begin_commit, finish_commit, recover_transactions).
ImplementsAtomicPair == Atomic!Spec

\* A marker always names a journal from which the files can be made whole:
\* each file is the old or the new one of a prepared journal, all are the new
\* ones of a committed journal, all are the old ones of a recovered journal.
MarkedFilesAreJournaled ==
    marker # None =>
        /\ journals[marker] # None
        /\ LET journal == journals[marker] IN
            /\ journal.phase = "prepared" =>
                /\ files.config \in {journal.old.config, journal.new.config}
                /\ files.lock \in {journal.old.lock, journal.new.lock}
                /\ files.profile \in {journal.old.profile, journal.new.profile}
            /\ journal.phase = "committed" => files = journal.new
            /\ journal.phase = "recovered" => files = journal.old

\* The outcome of a transaction is final: a journal that says committed or
\* recovered never says anything else, however often repair runs.
OutcomeIsFinal ==
    [][\A id \in Ids :
         journals[id] # None /\ journals[id].phase # "prepared" =>
            journals'[id] = journals[id]]_vars

\* An edit touches only the tools it was told to: whatever another process
\* committed between its first look (for import, the plan the user saw) and its
\* guard survives it.
EditsOnlyNamedTools ==
    [][\A p \in Procs :
         At(p, "begin") /\ pc'[p] = "put-marker" /\ files.config # None =>
            \A t \in Tools \ hand[p].names :
                /\ hand[p].next.config[t] = files.config[t]
                /\ files.lock # None =>
                    hand[p].next.lock[t] = files.lock[t]]_vars

\* What a lock selects is there for the project's own bindings.
Bound(lock) ==
    /\ Payloads(lock, LinkedTools) \subseteq installed
    /\ Payloads(lock, VenvTools) # {} => venv # None

\* Local bindings complete and the project is registered before a journal
\* says committed, so that cleanup knows what a finished command relies on.
CommittedIsBound ==
    [][\A p \in Procs :
         At(p, "commit") /\ pc'[p] = "clear" /\ ~Global =>
            /\ registered
            /\ hand[p].bind => Bound(journals[hand[p].id].new.lock)]_vars

\* What was, or was to be, in the files between two transactions.
Settled == IF Pending THEN journals[marker].old ELSE files

Sides == {Settled} \cup {journals[id].old : id \in Begun}
                   \cup {journals[id].new : id \in Begun}

\* Files whose lock was made for their configuration: until the first
\* transaction is committed, the user may have edited the configuration.
Paired(side) ==
    Fits(IF side.config = None THEN NoTools ELSE side.config, LockOrEmpty(side.lock))

Whole(config, lock) ==
    \E side \in Sides :
        /\ config = side.config
        /\ LockOrEmpty(lock) = LockOrEmpty(side.lock)

\* The new configuration with the old lock, which was made for it before the
\* user edited the old configuration.
PutBack(config, lock) ==
    \E id \in Begun :
        /\ ~Paired(journals[id].old)
        /\ config = journals[id].new.config
        /\ LockOrEmpty(lock) = LockOrEmpty(journals[id].old.lock)

\* A reader that mixed two looks at the disk, without any lock, still accepts
\* only a configuration and a lock of the same side of one transaction.  Its
\* check lets one mixture pass: a transaction that puts a selector back which
\* the user had edited by hand finds the lock that was made for it.
ReadPairIsWhole ==
    \A p \in Procs :
        At(p, "accepted") => \/ Whole(hand[p].next.config, hand[p].next.lock)
                            \/ PutBack(hand[p].next.config, hand[p].next.lock)

-----------------------------------------------------------------------------
(* The inductive invariant behind the safety properties.                   *)

GuardIsHeld == \A p \in Procs : pc[p] \in GuardedSteps => guard = p

\* What a command that got that far has in memory.
HandIsFull(p) ==
    /\ pc[p] \in {"wait", "edit"} /\ hand[p].op \in {"use", "remove"} =>
        /\ hand[p].next # None
        /\ hand[p].next.config # None
        /\ hand[p].next.lock # None
    /\ pc[p] \in {"read-lock", "accepted"} => hand[p].next # None
    /\ pc[p] \in WriterSteps \cup {"sdk", "bind", "create"} =>
        /\ hand[p].next # None
        /\ hand[p].next.lock # None
    /\ pc[p] \in {"wait", "edit"} /\ hand[p].op = "import" =>
        /\ ~Global
        /\ hand[p].next # None
        /\ hand[p].next.lock # None
        /\ Loadable(hand[p].next.config, hand[p].next.lock)
    /\ pc[p] \in {"sdk", "begin", "create"} =>
        /\ Loadable(hand[p].next.config, hand[p].next.lock)
        /\ hand[p].op # "profile" => hand[p].next.profile = files.profile
    /\ pc[p] = "create" => ~Global /\ files.config = None
    /\ pc[p] = "wait" /\ hand[p].op = "repair" => hand[p].id \in Begun
    /\ pc[p] \in RestoreSteps \cup {"recheck", "clear"} => hand[p].id \in Begun

\* Where a transaction stands at each step of the process writing it.
Written(p) ==
    LET id == hand[p].id
        old == journals[id].old
        new == journals[id].new
    IN  /\ pc[p] \in WriterSteps \ {"begin"} =>
            /\ id \in Begun
            /\ journals[id].phase = "prepared"
            /\ new = hand[p].next
            /\ hand[p].op # "profile" => new.profile = old.profile
            /\ marker = IF pc[p] = "put-marker" THEN None ELSE id
            /\ files = CASE pc[p] \in {"put-marker", "put-config"} -> old
                         [] pc[p] = "put-lock" ->
                                [old EXCEPT !.config = new.config]
                         [] pc[p] = "put-profile" ->
                                [new EXCEPT !.profile = old.profile]
                         [] OTHER -> new
        /\ pc[p] \in RestoreSteps =>
            /\ marker = id
            /\ journals[id].phase = "prepared"
            /\ pc[p] # "restore-config" => files.config = old.config
            /\ pc[p] \in {"restore-lock", "restore-bind", "recovered"} =>
                files.profile = old.profile
            /\ pc[p] \in {"restore-bind", "recovered"} => files.lock = old.lock
        /\ pc[p] = "clear" => marker = id /\ journals[id].phase # "prepared"

\* Only pairs that fit are journaled, and a project once created has a
\* configuration on either side of every transaction.
JournalsFit ==
    \A id \in Begun :
        /\ Loadable(journals[id].new.config, journals[id].new.lock)
        /\ journals[id].new.lock # None
        /\ ~Global => journals[id].old.config # None

NotYetCreated ==
    ~Global /\ files.config = None =>
        /\ marker = None
        /\ \A p \in Procs :
            \/ pc[p] \in {"idle", "read-config", "create"}
            \/ pc[p] \in {"wait", "edit"} /\ hand[p].op = "import"

\* What every reachable state of one context satisfies: who holds the guard,
\* and how far the files are from either side of the journal at each step.
IInv ==
    /\ TypeOK
    /\ GuardIsHeld
    /\ \A p \in Procs : HandIsFull(p) /\ Written(p)
    /\ JournalsFit
    /\ NotYetCreated
    /\ MarkedFilesAreJournaled

\* Until a transaction is committed, all of them start from the same files;
\* from then on the lock is always made for the configuration.
HistoryIsPaired ==
    /\ ~Global /\ files.config = None => Begun = {}
    /\ IF \E id \in Begun : journals[id].phase = "committed"
       THEN Settled.config # None /\ Paired(Settled)
       ELSE \A id \in Begun : journals[id].old = Settled

\* A reader between its looks has a configuration of some transaction.
ReadersHoldASide ==
    \A p \in Procs :
        pc[p] = "read-lock" =>
            /\ hand[p].next.config # None
            /\ \E side \in Sides : hand[p].next.config = side.config

\* What an edit keeps of the files it starts from.
KeepsTool(next, from, t) ==
    /\ next.config[t] = IF from.config = None THEN None ELSE from.config[t]
    /\ from.lock # None => next.lock[t] = from.lock[t]

\* What a command is about to write has the tools it was not told to touch as
\* they are on disk, which nobody else writes to while it holds the guard; an
\* import plan has them as they were when it was made.
KeepsTheRest(p) ==
    \A t \in Tools \ hand[p].names :
        /\ pc[p] \in {"wait", "edit"} /\ hand[p].op = "import" =>
            hand[p].seen # None /\ KeepsTool(hand[p].next, hand[p].seen, t)
        /\ pc[p] = "create" => KeepsTool(hand[p].next, files, t)
        /\ pc[p] \in {"sdk", "begin"} /\ files.config # None =>
            KeepsTool(hand[p].next, files, t)

\* How far a command has come that binds and registers the project.
BindsFirst(p) ==
    /\ hand[p].bind => hand[p].op = "use"
    /\ pc[p] = "put-profile" => ~hand[p].bind
    /\ pc[p] \in {"commit-register", "commit"} /\ ~Global /\ hand[p].bind =>
        Bound(hand[p].next.lock)
    /\ pc[p] = "commit" /\ ~Global => registered

\* All of it, for the readers and for what a commit says.
ReadersInv == HistoryIsPaired /\ ReadersHoldASide /\ ReadPairIsWhole

EditsInv == \A p \in Procs : KeepsTheRest(p) /\ BindsFirst(p)

FullInv == IInv /\ ReadersInv /\ EditsInv

\* Repair gets every context out of an interrupted transaction.
RepairSettles == marker # None ~> marker = None

=============================================================================
