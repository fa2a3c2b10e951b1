# Verification of Pinset

Pinset keeps the tool versions of a project in a configuration and a lock,
installs the locked tools once per user under `PINSET_HOME/v3`, and binds them
to projects. Every command is a short-lived process. All coordination goes
through files: advisory locks, journals, markers and atomic renames. What is
hard about it is not the single command but commands of several terminals at
once, a process that dies between two writes, and the recovery
(`self repair`) that has to make sense of what is on disk.

This directory holds TLA+ models of that coordination, TLC runs on small
instances, and TLAPS proofs for any number of processes, projects, tools and
transactions.

    tlc -config tx_project.cfg MCTransactions.tla     # a run
    tlapm VenvProofs.tla                              # the proofs of a module

## The system

| part | code (`src/crates/...`) | state it keeps | operations |
|---|---|---|---|
| Transactions | `pinset-engine/src/transactions.rs` | `state/transactions/<id>.json`, `.pinset/local/transaction.json` | begin_commit, finish_commit, recover_transactions |
| Selection editing | `pinset-engine/src/services.rs` | `config.toml`, `lock.toml`, `state/projects.json`, `state/locks/**` | init, use, remove, install, register, the locks |
| Configuration and lock | `pinset-core/src/config.rs`, `model.rs` | - | load, load_locked, validate_lock |
| Import | `pinset-engine/src/import.rs` | - | plan_import, apply_import |
| Profiles | `pinset-engine/src/profiles.rs` | encrypted profiles, `local/profile.json` | init, use, set, unset, remove, grant, revoke, exec options |
| Authorization | `pinset-env` | `state/trust/*`, identities, key ring | trust add and revoke, verify_project_trust, encryption |
| Environments | `pinset-engine/src/venv.rs` | `.venv`, `local/venv-*`, `state/venv-transactions` | create_venv, recover_venv_transactions |
| Installer, download cache | `pinset-engine/src/installer.rs`, `download_cache.rs` | `installs/**`, `cache/**`, `state/quarantine` | install, repair, download, extract, import, clean cache |
| Maintenance | `pinset-engine/src/maintenance.rs` | - | clean installs, clean cache, self update |
| Publication | `pinset-engine/src/shims.rs`, `self_update.rs` | `bin/**`, `state/shims.json`, `state/shim-refresh`, `state/self-update` | refresh, replace_binary_pair, self repair |
| Metadata | the `*_metadata.rs` files, `provenance.rs` | - | what a selector resolves to |
| Routing, execution | `pinset-core/src/routing.rs`, `policy.rs`, `pinset-engine/src/execution.rs`, `process_tree.rs` | child processes | plan_command, exec, check |
| Providers, runtimes, CLI, shim, extension, scripts | the rest | - | tables, parsing, output |

How they interact. An edit takes `maintenance.lock` shared and the lock of its
project, reads the pair again, installs (`use`), journals, writes the marker,
the configuration and the lock, binds `.venv` and links, registers the project
(maintenance lock shared once more, and the registry's lock), turns the journal
to `committed` and removes the marker. A reader (`exec`, `check`, the shims)
takes no lock: it looks at the marker, then the configuration, then the lock.
`self repair` finds markers and journals a dead process left, first those of the
environment, then those of the project and of the global selection, then the
binaries. `clean` takes the maintenance lock exclusively and removes what no
lock, environment or journal refers to.

What has to hold, per part:

- Transactions: configuration, lock and encrypted profile change together or
  not at all; outcomes are final; repair gets out of every interruption.
- Editing and import: an edit does not undo what another process committed for
  tools it does not name; readers see pairs that belong together; bindings
  are there before a transaction counts as committed.
- Maintenance: nothing that a project, a recovery or a running command needs is
  removed; registrations are not lost; no command waits for ever.
- Environments: every crash point can be told from the directories and the
  journal; a finished environment is never lost; a live worker is waited for and
  writes to what was made for it.
- Installer: an installation directory is whole whenever its name exists; a
  failed repair gives the old one back; downloads that share a file agree and
  end.
- Publication: entries, registry, CLI and router belong to one release once no
  journal is left; entries do not vanish meanwhile; foreign files stay.
- Profiles: authorization and ciphertext change as one; every value can be read
  by the named recipients and by no one else; contents that came from elsewhere
  are not decrypted before the user has trusted them.
- Metadata: a lock never mixes two builds, however a vendor publishes between
  the requests, and is not older than what was offered when the command began.
- Routing: the selections of the project win, its policy covers what it
  inherits, and what a command was routed to is not taken away under it while it
  is selected.

`PROJECT.json` lists every part with its status, and under `hazards` the places
in the code where these can go wrong.

## Modules

| module | models |
|---|---|
| `ProjectFiles` | the values of one context's files, and validate_lock |
| `AtomicPair` | the abstract promise: one current value; a replacement is proposed, then happens as a whole or not at all |
| `Transactions` | one context and the processes editing, importing, installing, repairing and reading it |
| `Cleanup` | several contexts of one home, their locks, the registry, environments, and `clean installs` |
| `Environment` | what a project sees of its `.venv`: the old one or a whole new one |
| `VenvTransactions` | the directories, journal, marker and worker behind it; implements `Environment` |
| `Extraction` | what an archive leaves in a staging directory, or that it is refused |
| `Installer` | installations, quarantine, downloads with resume and retries, the cache; uses `Extraction` |
| `Publication` | command entries and the pair of executables: refresh, self update, self repair |
| `ProfileContents` | authorizations and encrypted values, and what each edit makes of them |
| `ProfileStore` | the abstract promise: contents change by whole edits |
| `Profiles` | the profile commands, trust and exec of several processes; implements `ProfileStore` |
| `Catalogs` | what eight vendors publish, and what their metadata clients resolve a selector to |
| `Routing` | inheritance, policy and requirements of a command, as functions of what was read |
| `Selections` | `use` against a vendor that publishes, and routing against edits, installs, repair and clean |
| `MC...` | instances of the above for TLC |
| `TransactionsProofs`, `CleanupProofs`, `VenvProofs`, `ProfilesProofs`, `PublicationProofs`, `InstallerProofs`, `SelectionsProofs`, `ResolutionProofs` | the proofs |

Composition is by abstraction: a module takes in one step what a finer one
takes apart. `Profiles` edits in transactions whose writes are steps, but leaves
their locks and bindings to `Transactions`; `Cleanup` has of an environment the
interpreter and the journal that `VenvTransactions` details; `Selections` commits
and installs in single steps that `Transactions` and `Installer` justify.

### Transactions

One action is one file-system step that another process can see; what a command
does under the guard before its first write is one step. `pc[p]` is where the
process is, `hand[p]` what it has in memory: the operation, the files it read or
is going to write, the transaction id. Actions have the names of what the code
does at that point: `WriteJournal`, `WriteMarker`, `WriteConfig`, `WriteLock`
(begin_commit), `CommitBind`, `CommitRegister`, `CommitJournal`, `ClearMarker`
(use_tools, finish_commit), `Recheck`, `Restore...`, `MarkRecovered`
(recover_transactions), `StartRead`, `ReadConfig`, `ReadLock` (load_locked).

Abstracted: a selector, a version, a ciphertext is a model value. A
configuration maps tools to selectors, a lock maps tools to the selector it was
resolved for and a version. Resolving a selector may give any version. An
installation is a pair of tool and version in a set. `.venv` is the version it
was created from: how the directory is replaced is in `VenvTransactions`. `Die` stands for a kill, and for an I/O error, at any step
under the guard; `GiveUp` for the error returns.

`AtomicPair` is implemented under this mapping: while a transaction is marked
and prepared, the current value is what its journal calls old and the proposed
value is what it calls new; otherwise the current value is on disk and nothing
is proposed. So the moment of commit is the phase in the journal, not a file.

Readers are the hard part. `Sides` is everything that was, or was to be, in the
files between two transactions. A reader that looks at the marker, the
configuration and the lock at three moments gets a configuration and a lock of
one side (`Whole`), because `load_locked` compares the selectors and a lock fits
one configuration only. There is one exception, `PutBack`: see Deviations.

### Cleanup

Several roots, each a project or the global selection. A transaction is here
what clean can see of it: the marker, the journal with its two locks, the lock
file. A lock is the set of installations it locks; an environment is the
interpreter in its owner marker, and its journal while it is rebuilt. The locks
are explicit: `shared` and `exclusive` (maintenance.lock), `owner` (project
locks), `registrar` (registry lock). A lock request conflicts with holders only,
as flock does; it does not queue behind waiters. An installation is `absent`,
`whole`, or `broken`: clean removes directories entry by entry and may die
meanwhile, and a later install may accept what is left (existing_install_outcome
compares the receipt and some paths).

`Needed`, in the main property, is stated independently of what `clean` looks
at (`References`): the locks of registered roots and of the global selection,
their environments, both sides of environments being rebuilt, both sides of
marked, unsettled transactions, and what running commands have in memory.

Not in this module: `clean cache`, an action of `Installer`; the backups of
environments, which have a journal while they exist; retrying an edit whose
selection moved (an error here).

### VenvTransactions

`current`, `backup[id]` and `staging[id]` are the directories; of a directory
the model keeps who made it, its creation token, its owner record, and whether
its packages are all there. `journal` and `marker` are the records on disk;
`worker[id]` is the Python process, which waits for its release, builds, and
goes on when the command that started it is killed. `Create` to `ClearJournal`
are the steps of create_venv in the order of the code, `Check`, `Remove`,
`Restore`, `DropStaging`, `WriteRolledBack` those of rollback, `Repair` and
`Recover` those of recover_venv_transactions. `Remove` deletes token, owner and
packages in any order and may stop anywhere, as remove_dir_all may; so may
`DropStaging`, after the token of the staging directory. `Fails` is
an error return: while the environment is built the code kills the worker and
rolls back. `WorkerWrites` writes to whatever is in `.venv`.

`Environment` is implemented with `Settled` for what the project sees: what is
in `.venv` once every unfinished transaction is rolled back. The one step that
changes it is `Commit`.

Assumed: the user changes `.venv` while nothing of Pinset works on it; the
process that waits for the release and Python itself are killed together; the
system gives the process id of a dead worker to no other process (venv.rs:338
would wait for that one, too).

### Extraction and Installer

`Extraction` says what an archive of a format leaves for given limits: paths,
links that are followed inside the root, entries that repeat or collide, strip
and prefixes. `Installer` uses it layer by layer. `installs` are the directories
under `installs/`, each with its files, whether they are as they were installed,
and a receipt; `quarantine[p]` is what a repair of `p` has moved away; `cache` and
`partial` are by digest. Every wait for a lock, look at a directory, removal and
rename is a step, and so is every time a source answers, stops, or sends
something else. The receipt of a JDK is completed after the locks are released
(`InventoryRead`, `InventoryWrite`), as inventory_java does.

### Publication

`bin` and `package` are the managed directory and a pair that a package manager
put elsewhere: a file is the release it is from. `refresh` and `update` are the
journals with what they keep beside them. A command runs from one of the places
in `from` and takes the release it finds there with it: after an update the next
step may be another release's, which is why recovery depends on who recovers.
The steps are named after install_shims_from, replace_binary_pair and
repair_binary_pair. An upgrade by the package manager happens while no command
runs.

### ProfileContents, ProfileStore, Profiles

An encrypted value is a value and the keys that can read it. `ProfileContents`
has what an edit makes of the configuration and the files as a function, with
the conditions under which the code accepts it. `Profiles` runs the edits of
several processes in a transaction (marker, configuration, file, local choice,
commit), the trust record, which no lock protects, and exec, which reads the
configuration and one file after the other, compares them with the trust, and
looks again before it decrypts. A removal looks for its profile before it has
the lock (`ProfileRemove`), and under the lock only for the trust
(`TakeRemove`): when two commands remove one profile, the second begins a
transaction that changes nothing, finds no file to remove, and leaves its marker
to `self repair` (`FileIsGone`). `reviewed` is a history variable: what is on disk derives,
by edits of this machine, from contents that the user has trusted.

Assumed: a pull, or an edit by hand, comes while no command holds the lock of
the project and no exec is between its look and its decryption; the code has no
lock that a version control system would take (profiles.rs:54, 294-301).

### Catalogs, Routing, Selections

`Catalogs` has the documents of the vendors as sets of releases, and for each
tool what its client makes of the documents it has read. `Routing` has what a
command is routed to, given what was read. `Selections` puts both in time: the
vendor announces a release, adds files to it or builds it again between any two
requests of `use`; meanwhile the user may select in another place, install,
repair or clean, and a command that was routed a moment ago is about to start.
A clean may die, also in the middle of an installation (`CleanDies`): what it
has left is `broken`, has its receipt, and is taken for an installation by a
later `use` or `install` without --repair, and by routing. `KeepsWhatRuns` says
that nothing that is selected and that a command was routed to is removed, or
removed further; that it is whole does not hold (`RunsFromWhole`, Deviations).

What is assumed of a vendor is in `Listed` and `Orderly`, in the assumption on
the instances and in the guards of the vendor's actions. A version is listed
once, and a nightly has a date of its own. The fourth part of a version tells
builds of Java and python-build-standalone apart; other tools have none.
Flutter's files are for the platforms that have an index. An upload adds files
and takes none back. python.org and npm do not change a file once it is
published. Of a Flutter release that is built again while `use` reads, nothing
is claimed: its platforms may disagree, and then it is left out. The policy, the platforms and the machine are chosen at the start and stay.

## Runs

| run | instance | question | states |
|---|---|---|---|
| `tx_project` | 2 processes, 1 tool, 2 selectors, 2 versions, 2 transactions, 2 deaths, any initial files | nothing mixes the two sides of a transaction, on disk or in a reader; the full invariant of the proofs | 3.5 M |
| `tx_edits` | 2 tools (one `.venv`, one link), 1 profile content, 2 transactions, 1 death | edits and imports keep what others committed; the profile goes with the pair | 1.4 M |
| `tx_global` | 2 versions, 2 transactions, 2 deaths, starting with nothing | rollback that removes files; final outcomes; the inductive invariant | 0.4 M |
| `tx_repair` | fair, everything installed, pairs that fit, 2 deaths | repair settles every interrupted transaction, also when a repair dies | 0.5 M |
| `cleanup` | 2 processes, a cloned and a new project, 2 interpreters, 1 transaction, 1 death | clean against everything else, the registry, the inductive invariant | 1.5 M |
| `cleanup_turns` | fair, a project and the global selection, 1 death | no command waits for ever, the second shared lock included | 0.4 M |
| `venv` | 2 commands, 2 transactions, 2 interpreters, 3 deaths, 2 changes by the user | replacement is one step; nothing finished is lost; the inductive invariant | 0.1 M |
| `installer` | 2 processes, a JDK and a layered pnpm, 2 archives, 2 sources with 2 attempts, 1 death | installations change as a whole; downloads agree and end; the inductive invariant | 1.6 M |
| `publication` | 2 processes, 2 releases, 2 commands, 2 deaths, 1 upgrade | entries, registry and pair are one release; the inductive invariant | 2.3 M |
| `publication_update` | 1 process, 3 releases, commands of two places, 1 death | a violation: see Deviations | - |
| `profiles` | 2 processes, 2 profiles, 2 variables, 2 keys, 2 edits, 1 pull, 1 death | what is trusted was reviewed; readers are the recipients; the inductive invariant | 1.8 M |
| `selections` | seven tools, 2 places, 2 platforms, 2 edits, 1 command, 1 publication | locks do not mix builds and hold the newest release; commands run what is selected and keep it; the inductive invariant | 2.3 M |

Bounds. `Ids` and `MaxEdits` bound the transactions begun, `MaxDeaths` the
commands that die, `Procs` the processes at once; processes themselves start
commands without bound unless a constant says so. Two processes suffice for a
pair of commands to interleave, and because each runs one command after the
other, a third command meets what two left. Two transactions are needed to have
one begin after another was settled while a process still holds the id of the
first; two deaths to have a repair die after a writer did, and three in `venv`
to have that repair repaired by one that dies, too. Two tools are needed to tell
what an edit names from what it does not; two selectors, versions, interpreters
or releases to tell old from new. Two versions are needed besides two selectors
in `tx_project`: with one version, a lock made for a selector is always the same
lock, and the exception of `ReadPairIsWhole` cannot be seen. Two changes by the user let one happen before
an interrupted replacement and one before its recovery.

In `Cleanup` two installations and two roots are the least with which one root's
need can meet another root's clean, and the registry can lose an entry. One
transaction there is enough for the question, since clean looks at journals one
by one; a chain of them is the question of `Transactions`.

In `Installer` the two installations share an archive, so that two requests
meet at one digest; two sources with two attempts each are the least with which
a download can start over, go to the next source and give up. Archives have at
most five entries, one of them a link through a link.

In `Publication` one command is in every registry and one comes with a tool or
belongs to someone else. The runs start where commands are started from one
place, in `bin` or elsewhere; commands of both at once are the violation.

In `Selections` a behaviour has the catalog of one vendor with an old and a new
release (two vendors where a tool reads two), chosen so that every order of an
announcement, an upload and a second build with the requests happens. Pages of
Adoptium hold one release. Each tool, both places and each field of the policy
are in one of the seven scenes.

Symmetry in the processes, ids, selectors, versions or interpreters is used
where only safety is checked. The initial files are symmetric sets, too.

Fairness. Two runs check liveness. A running process proceeds (weak fairness of
its next step). A process waiting for an advisory lock gets it if it becomes
free again and again (strong fairness): the kernel wakes waiters, and commands
hold locks for a bounded time. `tx_repair` assumes in addition that the user
runs `self repair` again and again while there is a marker, since nothing else
in the code does. No command is assumed to be started otherwise. Fairness of
`clean`'s exclusive lock is not assumed, and `CommandsReturn` does not claim
that it gets its turn: shared lockers may overlap for ever. The deaths are
bounded; with unbounded deaths nothing would ever be completed. That a download
ends is checked without fairness, by a variant: every return to a connection
uses up an attempt or a source (`RetriesAreUsedUp`).

TLC looks for deadlocks where a configuration does not switch it off. It does in
runs whose bounds stop the system (`venv`, `profiles`, `selections`,
`publication_update`).

## Deviations

One is a run that TLC has to find violated:

- `publication_update`: a refresh takes its source pair before it rolls back a
  refresh that failed earlier (shims.rs:603-613). When the CLI runs from the bin
  directory itself, the rollback changes those very files; the journal is then
  written with digests its staged files do not have, and every later refresh and
  `self repair` refuses it. docs/architecture.md:31: "Interrupted publication can
  resume or roll back".

For the others the property is in the module; checking it in the instance named
here gives the counterexample.

- A reader accepts one mixture (`Transactions.ReadPairIsWhole` without its
  `PutBack`; tx_project.cfg): the user edits the selector of a locked tool by
  hand, and `use` puts the old selector back with another version. A reader that
  looked for the marker before the transaction then finds the new configuration
  with the old lock, which was made for that very selector, and runs the version
  that the command is about to replace. docs/architecture.md:21: "Readers reject
  an unfinished pair." The property names this case, so the run shows that it is
  the only one.
- Rolling back in a clone (`Transactions.RepairSettles`; tx_repair.cfg with
  `InitialInstalled <- NothingInstalled`): rolling back binds the old lock, and
  creating `.venv` needs the old interpreter (transactions.rs:173,
  venv.rs:448-454). In a clone that never installed it, a first edit that dies
  cannot be rolled back by any number of repairs, and every other command
  refuses while the marker is there. docs/commands.md:877 and README.md:83
  promise recovery.
- Rolling back an edit of a pair that does not fit (`Transactions.RepairSettles`;
  tx_repair.cfg with `InitialFiles <- Everything`): recovery requires the old
  pair to fit (transactions.rs:141); edits accept pairs that do not
  (services.rs:177). docs/architecture.md:27.
- An environment loses its interpreter
  (`Cleanup.EnvironmentsKeepTheirInterpreter`; cleanup.cfg with `Roots = {a}`,
  `Installed = {}`): clean looks for environments of registered roots only, and
  install registers after it binds (services.rs:519-521). docs/commands.md:738
  and 755 promise that managed environments keep their installations.
- A receipt written without a lock (`Installer.RepairReplacesOrGivesBack`;
  installer.cfg with `InitialInstalls <- ChangedJdk`, `Identities = {jdk}`,
  `InitialCache <- EmptyCache`, `InitialPartial <- NoPartial`, `MaxDeaths = 0`):
  inventory_java rewrites the receipt after the per-install lock was released
  (services.rs:676); when another process has just moved the damaged JDK to
  quarantine, the write makes its directory again, with nothing but a receipt in
  it, and what was in quarantine can not be put back. The receipts of generic
  tools are written in the same way (generic_provider.rs:205-210).
  docs/architecture.md:23: repair restores payloads "under the same per-install
  lock".
- A half-made environment without its token
  (`VenvTransactions.InterruptedIsRestorable`; venv.cfg with `MaxUsers = 0`):
  remove_dir_all of `.venv` (venv.rs:240) or of the staging directory
  (venv.rs:246) may delete the token first and then be interrupted; recovery no
  longer recognises the directory and refuses to touch it. docs/architecture.md:29: "a failed or interrupted replacement restores the
  previous owned environment".
- A command runs from half an installation (`Selections.RunsFromWhole`;
  selections.cfg): a clean that dies inside remove_dir_all (maintenance.rs:206)
  may leave the receipt and the paths that installer.rs:371 looks at. A later
  `use` takes that for the installation, and routing runs from it; what routing's
  own look at the receipt (routing.rs:445) is for does not come about. `install
  --repair` heals it. docs/architecture.md:23 has repairs quarantine and restore;
  nothing of the kind covers clean.
- The local choice of a removed profile (`Profiles.LocalChoiceIsRolledBack`;
  profiles.cfg): profile remove deletes `local/profile.json`, which no journal
  covers, before the commit (profiles.rs:191); a rollback does not bring it
  back. docs/commands.md:406: "Transactionally updates profile, configuration,
  lock and local choice".
- A trust that was revoked comes back (`Profiles.RevokedTrustStaysRevoked`;
  profiles.cfg): an edit checks the trust before its transaction and renews it
  after (profiles.rs:58, 88-97); a `trust revoke` in between, which takes no
  lock, is undone. docs/environment.md:23: "ordinary profile mutations cannot
  silently renew invalid trust".

Met while reading, and not stated as properties:

- routing.rs:457 skips a selected JDK that is not ready when it sets the
  environment, so a command other than Java's inherits the caller's `JAVA_HOME`;
  docs/java.md:20 says that it shares the precise SDK root.
- On Windows Python resolves for the current platform only, so a project that
  declares several platforms cannot select it there.
- Between python.org's release of a version and its standalone build, `use
  python@latest` fails on Linux and macOS instead of taking the one before.
- The search of a floating Java selector with two parts ends with the first
  page that has any release.
- The rollback of an interrupted self update in `self repair` replaces entries
  in `bin` without the lock that refreshes take; with commands started from two
  places `PairsMatch` fails. Runs start them from one.
- `trust add` prints a fingerprint computed before the one it records
  (profiles.rs:101).
- exec may read values of a transaction that is rolled back later.
- Of two commands that remove one profile at once the second fails with its
  transaction begun (profiles.rs:177, 190): every command but `self repair`
  refuses until then.
- `prefetch` of the download cache has no caller.
- store_identity rewrites identities.toml without a lock (pinset-env lib.rs:579).

## Proofs

All proof modules use the same argument: an invariant `IInv`, that the
initial states satisfy it, one lemma or step per action that it is preserved,
and the properties from it. Each `IInv` is checked by TLC in a run, too. The
assumptions are those named in the modules: None is not one of the values it is
told apart from, the initial values have their types, and what the modules say
of their constants. Nothing is assumed about the number of processes, tools,
versions, roots, transactions, releases, downloads, profiles or keys.

`Transactions`. `MarkedFilesAreJournaled` alone is not inductive: that a file is
"old or new" after a write depends on which step the writer is at. `IInv` adds
the guard (`GuardIsHeld`), what each step has in memory (`HandIsFull`), which
files are already written at each step (`Written`), that journaled pairs fit
(`JournalsFit`), and that a project without a configuration has no transaction
yet (`NotYetCreated`). From it: `MarkedFilesCanBeMadeWhole`, `OutcomesAreFinal`
and `TransactionsImplementAtomicPair`: every step is a step of `AtomicPair` or
leaves its variables alone, with CommitJournal and MarkRecovered as the steps
that settle a proposal.

`FullInv` adds what a reader and an edit rely on; both parts are inductive
relative to `IInv`. For readers, `HistoryIsPaired`: until the first commit every
transaction starts from the same files, and from then on the lock is made for
the configuration. Sides are only added (`SidesGrow`, one lemma per step that
touches a file, the marker or a journal), so the configuration a reader holds
stays one of a side, and since only one configuration fits a lock (`FitsOnce`)
the lock it accepts is that side's: `ReadersAcceptOneSide`. For edits,
`KeepsTheRest` follows what a command is about to write from the plan to the
journal; nobody moves the files of a command that holds the guard
(`GuardedFiles`). `BindsFirst` follows a `use` from its bindings to its commit,
and what is bound stays (`BindingsGrow`): `EditsKeepOtherTools` and
`CommitsAreBound`.

`Cleanup`. clean decides at one moment and removes at a later one.
`RemovalsAreSafe` says that what it has decided to remove is not needed in the
meantime; it is preserved since whatever makes something needed happens under a
shared maintenance lock (`LocksAreHeld`), or, before it, with empty hands
(`HandsAreFilled`). From it: `CleanIsSafe`. `UsedStaysPresent` is the other side:
no removal while a command is past its installation. `RegistrationsStay`
follows from the registry lock and from what was read being still the registry.

`VenvTransactions`. What is in `.venv` is either `Untouched`, finished and made
by no undecided transaction, or belongs to the one transaction under way
(`UnderWay`), and then the old one is in its backup. That is preserved because
there is one transaction at a time (`OneTransaction`), because each step knows
what it will meet (`Knows`), and because a worker that builds was recorded
before it was released, so that recovery waits for it (`WorkersAreKnown`).
From it: `RoutesFindWhole`, `WorkersAreConfined`, `NothingFinishedIsLost` (an
action property: by cases on who moves or removes a directory) and
`VenvImplementsEnvironment`. For the last one `SettledIs` says what the project
sees without a choice, and each step either leaves that alone or is `Commit`.

`Profiles`. `Proposes` and `Written` say that a transaction in any state lies
between contents and one edit of them, so a rollback and a commit both lead to
consistent contents, which edits preserve (one lemma per kind of edit). For the
trust the argument is the other way round: `Unreviewed` and `Unseen` say what
holds while what is on disk was not reviewed. Only a pull leads there; every
edit but that of the exec options asks for a trust first, so while it lasts what
a reader gets of two moments differs in the rest of the configuration only, and
equals no trust. From it: `ProfilesStayEncrypted`, `TrustIsReviewed` and
`ProfilesImplementStore`.

`Publication`. A refresh changes entry by entry, and a death leaves any prefix
of that; an update changes the pair, which may be entries of the same directory.
`EntriesAreKnown` says that each entry is the old or the new one of the journal
and that the registry of before tells of the entries of before. A plan is made
before it is journaled: `PlanIsKnown` says that it still describes the directory,
because the publishing lock is held (`LocksAreHeld`) and repairs keep updates
away. `UnrecordedStays` and `PairsAreKnown` hold for commands of one place; with
both places they are false, which is the run `publication_update`. From it:
`PublishedEntriesAreWhole`, `EntriesAreNeverUnlinked`, `UnownedEntriesStay` and
`PairsStayMatched`.

`Installer`. The invariant has two halves. `DownloadsAreKnown` holds whatever is
on disk: who works on a partial file has the lock of its digest, and the layers
staged are those of the plan so far. From it: `DownloadsNeverClash`; and
`DownloadsGiveUp` follows from the steps of a download alone. `InstallsAreKnown`
says that nothing is where a command under the lock is going to publish, and
that what a repair moved away is in one place (`PlaceIsKnown`). It is false when
a receipt is completed without the lock while a repair moves its directory: see
Deviations. `InstallerInvariantHolds`, `InstallationsChangeWhole` and
`RepairsReplaceOrGiveBack` therefore have the hypothesis that no installation
whose receipt is completed so (`Inventoried`, the JDKs) is damaged at the
start (`InventoriedAreWhole`). Other damaged installations, caches and partial
files are allowed.

`Selections`. `use` reads documents of a vendor that publishes between the
requests. The invariant has two halves. `Known` leaves the documents out:
`UserIsKnown` and `ResolvedIsOne` say that what was read is what was asked for and has one
content, whatever is published. `EditsAreAlone` says that clean takes nothing
that is needed while it removes and that a repair takes what its own place
selects. `RunnerIsKnown` follows a routed command: what it is going to run is
selected somewhere, or was dropped since. From it: `LocksHoldOneRelease`,
`CommandsRunWhatIsSelected` and `RunnersKeepWhatIsSelected`.

`NewestInv` compares what `use` has read with what was offered when it began. A
release that was offered stays, perhaps with more files (`OffersStay`), so one
that is chosen from a list read later is not older (`ChoiceIsNewest`). Java's
list comes in pages: publishing only adds releases before others, so the rank of
a release only grows, and what was not on the pages turned is on one still to
come (`PagesAreTurned`); a page that is not full is the last one, since the
versions of lower rank than a missing one would fill it, and the features before
the current one had none to offer. Flutter's comes in one index per platform:
what was offered for a platform whose index was read was in it
(`IndexesAreRead`). `ResolutionProofs` has the facts about orders, ranks and pages
that this needs as lemmas. None is an induction over a list: where one would be
used, a smallest set of releases is taken, which exists because the strict
subsets of a finite set are well founded (`SmallestSet`).
From it: `NewestIsResolved`.

Only model-checked. `RepairSettles` and `CommandsReturn` are liveness under
fairness. What the folds of `Extraction` compute for every archive is an
induction over data; the proofs of `Installer` use their results as given values,
and TLC checks them on the archives of the instance. `InterruptedCanResume` is
false. All other invariants and action properties of the runs are proved.

## Not modelled

- Metadata parsing, HTTP, signature and attestation checks (node_trust.rs,
  github_attestation.rs), generic providers and the verification transition of
  a selection: sequential code over data, without shared state of its own.
- Cryptography and key storage of pinset-env: age is taken to do what it says.
- The layout of each tool (`*_runtime.rs`), argument parsing, output, errors and
  progress, the VS Code extension, release and migration scripts.
- Supervision of process trees, except that a venv worker may outlive its
  parent: the semantics of signals, groups and job objects belong to the
  operating systems.
- File-system failures other than a process stopping or a step failing (a torn
  rename, a full disk that loses acknowledged writes): the code relies on atomic
  replacement, and so do the models. Linked and replaced paths, which the code
  refuses, are not modelled.
- What clean leaves of an installation when it dies, file by file: the models
  have a half-removed installation that may be taken for whole, not which file
  is gone.
- Details that no property tells apart. `Transactions.BindLocal` has one refusal
  for the errors of validate_venv (routing.rs:50-141). `Installer.Reusable` leaves
  out the paths that a base artifact requires and the executable bits
  (installer.rs:1554-1560). `Installer.ReceiveTooMuch` is a body that is too long,
  also where the Content-Length says so at once (installer.rs:986-990).
  `Installer.Restore` and `Discard` have no error of the rename or the removal
  itself. `Extraction.Extract` refuses an entry beneath a link that an earlier
  layer has staged, where the code follows the link if it leads to a directory
  (installer.rs:1333, 1381); the archives of the instance have no such entry.
  `Selections.ReadPackages` is one step for the npm documents of all platforms,
  since npm does not change a version that is published.

Still worth doing: abstract specifications that `Publication` and `Installer`
implement, as `VenvTransactions` implements `Environment`.
