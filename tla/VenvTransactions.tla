-------------------------- MODULE VenvTransactions --------------------------
(***************************************************************************)
(* Replacing the .venv of one project.                                     *)
(*                                                                         *)
(* Python builds an environment at its final path, so the old one is moved *)
(* to a backup first, and a journal, a marker and a token in the new       *)
(* directory tell a later `self repair` what to give back and what to      *)
(* remove.  Python runs in a worker that a killed command leaves behind.   *)
(* Commands hold the lock of the project; the worker and the user do not.  *)
(***************************************************************************)
EXTENDS Naturals

CONSTANTS
    Procs,         \* CLI processes
    Ids,           \* transactions; bounds how many are begun
    Interpreters,  \* what an environment may be made from
    MaxDeaths,     \* bounds how many commands are killed
    MaxUsers,      \* bounds how often the user replaces .venv
    None

ASSUME VenvAssumption ==
    /\ None \notin Ids /\ None \notin Interpreters /\ None \notin Procs
    /\ {"before", "user"} \cap Ids = {} /\ None \notin {"before", "user"}
    /\ MaxDeaths \in Nat /\ MaxUsers \in Nat

VARIABLES
    current,  \* .venv
    backup,   \* local/venv-backups/<id>
    staging,  \* local/venv-staging/<id>
    journal,  \* state/venv-transactions/<id>.json
    marker,   \* local/venv-transaction.json
    worker,   \* the process that runs python -m venv for a transaction
    guard,    \* who holds the lock of the project
    pc, hand, deaths, users

places == <<current, backup, staging>>
records == <<journal, marker>>
vars == <<places, records, worker, guard, pc, hand, deaths, users>>

\* A directory: by whom it was made, and the creation token, the owner record
\* and the packages that are in it.
Directory == [made : Ids \cup {"before", "user"},
              token : Ids \cup {None},
              owner : Interpreters \cup {None},
              packages : {"none", "part", "whole"}]

ASSUME NoneIsNoDirectory == None \notin Directory

Journal == [phase : {"prepared", "creating", "committed", "rolled-back"},
            worker : BOOLEAN,    \* its pid and birth are recorded
            before : Interpreters \cup {None},
            next : Interpreters]

ASSUME NoneIsNoJournal == None \notin Journal

Building == {"move-away", "publish", "creating", "spawn", "record", "release",
             "wait", "write-owner", "validate"}
Settling == {"commit", "drop-token", "clear-marker", "clear-journal"}
RollingBack == {"check", "remove", "restore", "drop-staging", "rolled-back"}
Steps == {"idle", "journal", "pending", "repair"} \cup Building \cup Settling \cup RollingBack

TypeOK ==
    /\ current \in Directory \cup {None}
    /\ backup \in [Ids -> Directory \cup {None}]
    /\ staging \in [Ids -> Directory \cup {None}]
    /\ journal \in [Ids -> Journal \cup {None}]
    /\ marker \in Ids \cup {None}
    /\ worker \in [Ids -> {"none", "waiting", "building", "done", "failed"}]
    /\ guard \in Procs \cup {None}
    /\ pc \in [Procs -> Steps]
    /\ hand \in [Procs -> [id : Ids \cup {None}, next : Interpreters \cup {None}]]
    /\ deaths \in 0 .. MaxDeaths
    /\ users \in 0 .. MaxUsers

Whole(made, owner) ==
    [made |-> made, token |-> None, owner |-> owner, packages |-> "whole"]

Users == Whole("user", None)

EmptyHand == [id |-> None, next |-> None]

Init ==
    /\ current \in {None, Users} \cup {Whole("before", i) : i \in Interpreters}
    /\ backup = [id \in Ids |-> None]
    /\ staging = [id \in Ids |-> None]
    /\ journal = [id \in Ids |-> None]
    /\ marker = None
    /\ worker = [id \in Ids |-> "none"]
    /\ guard = None
    /\ pc = [p \in Procs |-> "idle"]
    /\ hand = [p \in Procs |-> EmptyHand]
    /\ deaths = 0
    /\ users = 0

-----------------------------------------------------------------------------
At(p, step) == pc[p] = step

Goto(p, step) == pc' = [pc EXCEPT ![p] = step]

Return(p) ==
    /\ guard' = None
    /\ Goto(p, "idle")
    /\ hand' = [hand EXCEPT ![p] = EmptyHand]

Pending == {id \in Ids : journal[id] # None}

\* create_venv.  Only an environment of this project may be replaced, and only
\* when asked to; a pending transaction is recovered first.  The new directory
\* is made beside the old one, with its token in it.
Create(p) ==
    \E id \in Ids, next \in Interpreters :
        /\ At(p, "idle") /\ guard = None
        /\ marker = None /\ Pending = {}
        /\ current # None => current.owner # None
        /\ staging[id] = None /\ backup[id] = None /\ worker[id] = "none"
        /\ guard' = p
        /\ staging' = [staging EXCEPT ![id] =
                [made |-> id, token |-> id, owner |-> None, packages |-> "none"]]
        /\ hand' = [hand EXCEPT ![p] = [id |-> id, next |-> next]]
        /\ Goto(p, "journal")
        /\ UNCHANGED <<current, backup, records, worker, deaths, users>>

WriteJournal(p) ==
    /\ At(p, "journal")
    /\ journal' = [journal EXCEPT ![hand[p].id] =
            [phase |-> "prepared", worker |-> FALSE, next |-> hand[p].next,
             before |-> IF current = None THEN None ELSE current.owner]]
    /\ Goto(p, "pending")
    /\ UNCHANGED <<places, marker, worker, guard, hand, deaths, users>>

WritePending(p) ==
    /\ At(p, "pending")
    /\ marker' = hand[p].id
    /\ Goto(p, "move-away")
    /\ UNCHANGED <<places, journal, worker, guard, hand, deaths, users>>

MoveAway(p) ==
    /\ At(p, "move-away")
    /\ backup' = [backup EXCEPT ![hand[p].id] = current]
    /\ current' = None
    /\ Goto(p, "publish")
    /\ UNCHANGED <<staging, records, worker, guard, hand, deaths, users>>

Publish(p) ==
    /\ At(p, "publish")
    /\ current' = staging[hand[p].id]
    /\ staging' = [staging EXCEPT ![hand[p].id] = None]
    /\ Goto(p, "creating")
    /\ UNCHANGED <<backup, records, worker, guard, hand, deaths, users>>

WriteCreating(p) ==
    /\ At(p, "creating")
    /\ journal' = [journal EXCEPT ![hand[p].id].phase = "creating"]
    /\ Goto(p, "spawn")
    /\ UNCHANGED <<places, marker, worker, guard, hand, deaths, users>>

Spawn(p) ==
    /\ At(p, "spawn")
    /\ worker' = [worker EXCEPT ![hand[p].id] = "waiting"]
    /\ Goto(p, "record")
    /\ UNCHANGED <<places, records, guard, hand, deaths, users>>

\* Mutant: the worker is let go before its birth is on disk.
RecordLate(p) ==
    /\ At(p, "record")
    /\ worker' = [worker EXCEPT ![hand[p].id] = "building"]
    /\ Goto(p, "release")
    /\ UNCHANGED <<places, records, guard, hand, deaths, users>>

RecordWorker(p) ==
    /\ At(p, "record")
    /\ journal' = [journal EXCEPT ![hand[p].id].worker = TRUE]
    /\ Goto(p, "release")
    /\ UNCHANGED <<places, marker, worker, guard, hand, deaths, users>>

Release(p) ==
    /\ At(p, "release")
    /\ worker' = [worker EXCEPT ![hand[p].id] = "building"]
    /\ Goto(p, "wait")
    /\ UNCHANGED <<places, records, guard, hand, deaths, users>>

\* python -m venv writes to .venv, whatever is there by now.
WorkerWrites(id) ==
    /\ worker[id] = "building"
    /\ current' = IF current = None
                  THEN [made |-> id, token |-> None, owner |-> None, packages |-> "part"]
                  ELSE [current EXCEPT !.packages = "part"]
    /\ UNCHANGED <<backup, staging, records, worker, guard, pc, hand, deaths, users>>

WorkerEnds(id) ==
    /\ worker[id] = "building"
    /\ \/ /\ current # None
          /\ current' = [current EXCEPT !.packages = "whole"]
          /\ worker' = [worker EXCEPT ![id] = "done"]
       \/ /\ worker' = [worker EXCEPT ![id] = "failed"]
          /\ UNCHANGED current
    /\ UNCHANGED <<backup, staging, records, guard, pc, hand, deaths, users>>

\* Mutant: how the worker ended is not looked at.
WaitOnly(p) ==
    /\ At(p, "wait")
    /\ worker[hand[p].id] \in {"done", "failed"}
    /\ Goto(p, "write-owner")
    /\ UNCHANGED <<places, records, worker, guard, hand, deaths, users>>

Wait(p) ==
    /\ At(p, "wait")
    /\ worker[hand[p].id] \in {"done", "failed"}
    /\ Goto(p, IF worker[hand[p].id] = "done" THEN "write-owner" ELSE "check")
    /\ UNCHANGED <<places, records, worker, guard, hand, deaths, users>>

WriteOwner(p) ==
    /\ At(p, "write-owner")
    /\ current' = [current EXCEPT !.owner = hand[p].next]
    /\ Goto(p, "validate")
    /\ UNCHANGED <<backup, staging, records, worker, guard, hand, deaths, users>>

Validate(p) ==
    /\ At(p, "validate")
    /\ Goto(p, "commit")
    /\ UNCHANGED <<places, records, worker, guard, hand, deaths, users>>

Commit(p) ==
    /\ At(p, "commit")
    /\ journal' = [journal EXCEPT ![hand[p].id].phase = "committed"]
    /\ Goto(p, "drop-token")
    /\ UNCHANGED <<places, marker, worker, guard, hand, deaths, users>>

DropToken(p) ==
    /\ At(p, "drop-token")
    /\ current' = [current EXCEPT !.token = None]
    /\ Goto(p, "clear-marker")
    /\ UNCHANGED <<backup, staging, records, worker, guard, hand, deaths, users>>

\* finish_venv_journal: the marker, then the journal.
ClearMarker(p) ==
    /\ At(p, "clear-marker")
    /\ marker' = None
    /\ Goto(p, "clear-journal")
    /\ UNCHANGED <<places, journal, worker, guard, hand, deaths, users>>

ClearJournal(p) ==
    /\ At(p, "clear-journal")
    /\ journal' = [journal EXCEPT ![hand[p].id] = None]
    /\ Return(p)
    /\ UNCHANGED <<places, marker, worker, deaths, users>>

-----------------------------------------------------------------------------
Owns(id, directory) == directory.token = id

\* What rollback asks before it touches anything.
Restorable(id) ==
    LET before == journal[id].before IN
    /\ backup[id] # None => before # None /\ backup[id].owner = before
    /\ current # None /\ ~Owns(id, current) =>
        before # None /\ backup[id] = None /\ current.owner = before
    /\ staging[id] # None => Owns(id, staging[id])

\* Mutant: whatever is in the way of a backup is removed.
CheckBackupOnly(p) ==
    /\ At(p, "check")
    /\ Goto(p, IF current # None THEN "remove" ELSE "restore")
    /\ UNCHANGED <<places, records, worker, guard, hand, deaths, users>>

Check(p) ==
    LET id == hand[p].id IN
    /\ At(p, "check")
    /\ IF ~Restorable(id)
       THEN Return(p)
       ELSE /\ Goto(p, IF current # None /\ Owns(id, current) THEN "remove" ELSE "restore")
            /\ UNCHANGED <<guard, hand>>
    /\ UNCHANGED <<places, records, worker, deaths, users>>

\* remove_dir_all, one piece after the other in no particular order.
Remove(p) ==
    /\ At(p, "remove")
    /\ \/ /\ current.token # None
          /\ current' = [current EXCEPT !.token = None]
          /\ UNCHANGED pc
       \/ /\ current.owner # None
          /\ current' = [current EXCEPT !.owner = None]
          /\ UNCHANGED pc
       \/ /\ current.packages # "none"
          /\ \E left \in {"none", "part"} : current' = [current EXCEPT !.packages = left]
          /\ UNCHANGED pc
       \/ /\ current.token = None /\ current.owner = None /\ current.packages = "none"
          /\ current' = None
          /\ Goto(p, "restore")
    /\ UNCHANGED <<backup, staging, records, worker, guard, hand, deaths, users>>

Restore(p) ==
    LET id == hand[p].id IN
    /\ At(p, "restore")
    /\ IF backup[id] # None
       THEN /\ current' = backup[id]
            /\ backup' = [backup EXCEPT ![id] = None]
       ELSE UNCHANGED <<current, backup>>
    /\ Goto(p, "drop-staging")
    /\ UNCHANGED <<staging, records, worker, guard, hand, deaths, users>>

\* Here the token is all there is, in an otherwise empty directory.
DropStaging(p) ==
    LET id == hand[p].id IN
    /\ At(p, "drop-staging")
    /\ IF staging[id] # None /\ staging[id].token # None
       THEN staging' = [staging EXCEPT ![id].token = None] /\ UNCHANGED pc
       ELSE staging' = [staging EXCEPT ![id] = None] /\ Goto(p, "rolled-back")
    /\ UNCHANGED <<current, backup, records, worker, guard, hand, deaths, users>>

WriteRolledBack(p) ==
    /\ At(p, "rolled-back")
    /\ journal' = [journal EXCEPT ![hand[p].id].phase = "rolled-back"]
    /\ Goto(p, "clear-marker")
    /\ UNCHANGED <<places, marker, worker, guard, hand, deaths, users>>

-----------------------------------------------------------------------------
\* recover_venv_transactions of self repair.
Repair(p) ==
    \E id \in Pending :
        /\ At(p, "idle") /\ guard = None
        /\ guard' = p
        /\ hand' = [hand EXCEPT ![p] = [id |-> id, next |-> None]]
        /\ Goto(p, "repair")
        /\ UNCHANGED <<places, records, worker, deaths, users>>

\* Mutant: a committed environment is rolled back, too.
RecoverByRollback(p) ==
    /\ At(p, "repair")
    /\ ~(journal[hand[p].id].worker /\ worker[hand[p].id] \in {"waiting", "building"})
    /\ Goto(p, "check")
    /\ UNCHANGED <<places, records, worker, guard, hand, deaths, users>>

\* Mutant: recovery does not ask whether the worker is alive.
RecoverAtOnce(p) ==
    LET id == hand[p].id
        committed == journal[id].phase = "committed"
        there == current # None /\ current.owner = journal[id].next
                    /\ current.token \in {None, id}
    IN
    /\ At(p, "repair")
    /\ IF committed /\ ~there
       THEN Return(p)
       ELSE /\ Goto(p, IF committed THEN "drop-token" ELSE "check")
            /\ UNCHANGED <<guard, hand>>
    /\ UNCHANGED <<places, records, worker, deaths, users>>

\* Recovery waits for a recorded worker that is alive; a committed environment
\* must be there, any other one is rolled back.
Recover(p) ==
    LET id == hand[p].id
        busy == journal[id].worker /\ worker[id] \in {"waiting", "building"}
        committed == journal[id].phase = "committed"
        there == current # None /\ current.owner = journal[id].next
                    /\ current.token \in {None, id}
    IN
    /\ At(p, "repair")
    /\ IF busy \/ (committed /\ ~there)
       THEN Return(p)
       ELSE /\ Goto(p, IF committed THEN "drop-token" ELSE "check")
            /\ UNCHANGED <<guard, hand>>
    /\ UNCHANGED <<places, records, worker, deaths, users>>

\* An error of one step.  While the environment is built it is rolled back,
\* with the worker killed; otherwise the journal stays for self repair.
Fails(p) ==
    /\ ~At(p, "idle")
    /\ IF pc[p] \in Building
       THEN /\ Goto(p, "check")
            /\ worker' = [worker EXCEPT ![hand[p].id] =
                    IF @ \in {"waiting", "building"} THEN "failed" ELSE @]
            /\ UNCHANGED <<guard, hand>>
       ELSE Return(p) /\ UNCHANGED worker
    /\ UNCHANGED <<places, records, deaths, users>>

\* A killed command.  A worker that waits for its release sees the end of the
\* pipe; one that was let go goes on, unless a job object ends it.
Die(p) ==
    /\ ~At(p, "idle")
    /\ deaths < MaxDeaths
    /\ deaths' = deaths + 1
    /\ Return(p)
    /\ \/ worker' = [id \in Ids |-> IF id = hand[p].id /\ worker[id] \in {"waiting", "building"}
                                    THEN "failed" ELSE worker[id]]
       \/ /\ hand[p].id # None => worker[hand[p].id] # "waiting"
          /\ UNCHANGED worker
    /\ UNCHANGED <<places, records, users>>

\* The user puts an environment of their own in place, or none, while nothing
\* of Pinset works on it.
UserReplaces ==
    /\ users < MaxUsers
    /\ users' = users + 1
    /\ guard = None
    /\ \A id \in Ids : worker[id] # "building"
    /\ current' \in {None, Users}
    /\ UNCHANGED <<backup, staging, records, worker, guard, pc, hand, deaths>>

Creating(p) ==
    \/ Create(p) \/ WriteJournal(p) \/ WritePending(p) \/ MoveAway(p) \/ Publish(p)
    \/ WriteCreating(p) \/ Spawn(p) \/ RecordWorker(p) \/ Release(p) \/ Wait(p)
    \/ WriteOwner(p) \/ Validate(p) \/ Commit(p) \/ DropToken(p)
    \/ ClearMarker(p) \/ ClearJournal(p)

Recovering(p) ==
    \/ Repair(p) \/ Recover(p) \/ Check(p) \/ Remove(p) \/ Restore(p) \/ DropStaging(p)
    \/ WriteRolledBack(p)

Next ==
    \/ \E p \in Procs : Creating(p) \/ Recovering(p) \/ Fails(p) \/ Die(p)
    \/ \E id \in Ids : WorkerWrites(id) \/ WorkerEnds(id)
    \/ UserReplaces

Spec == Init /\ [][Next]_vars

-----------------------------------------------------------------------------
\* A route refuses an environment while the marker is there (validate_venv);
\* without one what it finds in .venv was never left half-made.
UsableIsWhole == marker = None /\ current # None => current.packages = "whole"

\* Transactions that a recovery rolls back.
Undecided == {id \in Pending : journal[id].phase # "committed"}

\* Whoever made it, a finished environment is moved but never removed.
Kept(made) ==
    /\ made \notin Undecided
    /\ \/ current # None /\ current.made = made /\ current.packages = "whole"
       \/ \E id \in Ids : backup[id] # None /\ backup[id].made = made

NothingLost ==
    [][users' = users => \A made \in Ids \cup {"before", "user"} : Kept(made) => Kept(made)']_vars

\* A worker writes to the directory that was made for it, and to no other.
WorkersKeepToTheirOwn ==
    \A id \in Ids : worker[id] = "building" => current # None /\ current.made = id

\* What is in .venv once every unfinished transaction has been rolled back.
Settled ==
    IF \E id \in Undecided : backup[id] # None
    THEN LET id == CHOOSE id \in Undecided : backup[id] # None
         IN Whole(backup[id].made, backup[id].owner)
    ELSE IF current = None \/ current.made \in Undecided THEN None
    ELSE Whole(current.made, current.owner)

Abstract == INSTANCE Environment WITH
    Owned <- {Whole(made, i) : made \in Ids \cup {"before"}, i \in Interpreters},
    External <- Users,
    env <- Settled

\* However it is interrupted, replacing an environment is one step or none.
ReplacesAtOnce == Abstract!Spec

-----------------------------------------------------------------------------
\* The inductive invariant.

GuardIsHeld == \A p \in Procs : guard = p <=> ~At(p, "idle")

\* One transaction at a time; the marker comes after its journal and goes
\* before it.
OneTransaction ==
    /\ \A a, b \in Pending : a = b
    /\ marker # None => marker \in Pending

Finished(directory) == directory.packages = "whole" /\ directory.token = None

\* A transaction that has begun to build has started a worker for it.
Begun(made) == made \in Ids => worker[made] # "none"

PlacesAreKnown ==
    \A id \in Ids :
        /\ staging[id] # None => staging[id].made = id /\ staging[id].token \in {None, id}
        /\ backup[id] # None =>
            /\ Finished(backup[id]) /\ backup[id].owner # None
            /\ backup[id].made \notin Undecided /\ Begun(backup[id].made)
        /\ id \in Pending /\ backup[id] # None => journal[id].before # None

\* In .venv is an environment that no transaction works on, or the new one of
\* the transaction under way; then the old one is in its backup.
Untouched == Finished(current) /\ current.made \notin Undecided /\ Begun(current.made)

UnderWay(id) ==
    /\ marker = id /\ current.made = id /\ current.token \in {None, id}
    /\ IF journal[id].phase = "committed"
       THEN current.packages = "whole" /\ Begun(id)
       ELSE journal[id].before # None => backup[id] # None

CurrentIsKnown == current # None => Untouched \/ \E id \in Pending : UnderWay(id)

\* A worker that builds is recorded, and nothing else touches .venv; one that
\* waits has a parent.
WorkersAreKnown ==
    \A id \in Ids :
        /\ worker[id] = "building" =>
            /\ id \in Pending /\ journal[id].worker /\ journal[id].phase = "creating"
            /\ current # None /\ UnderWay(id)
            /\ \A p \in Procs : pc[p] \in {"idle", "wait", "repair"}
        /\ worker[id] = "waiting" =>
            \E p \in Procs : pc[p] \in {"record", "release"} /\ hand[p].id = id

Busy(id) == worker[id] \in {"waiting", "building"}

\* What a command knows at each of its steps.
Knows(p) ==
    LET id == hand[p].id
        j == journal[id]
        ready == staging[id] # None /\ staging[id].token = id /\ worker[id] = "none"
        fresh == ready /\ backup[id] = None
                    /\ (current # None => Untouched /\ current.owner # None)
        made == marker = id /\ current # None /\ UnderWay(id) /\ current.token = id
        settled == current # None => Untouched
    IN
    /\ ~At(p, "idle") => id \in Ids
    /\ pc[p] \in {"journal", "pending", "commit"} \cup Building => hand[p].next \in Interpreters
    /\ pc[p] \notin {"idle", "journal"} => id \in Pending
    /\ At(p, "journal") => Pending = {} /\ marker = None /\ fresh
    /\ pc[p] \in {"pending", "move-away"} =>
        fresh /\ j.phase = "prepared" /\ (j.before = None <=> current = None)
    /\ At(p, "pending") => marker = None
    /\ At(p, "move-away") => marker = id
    /\ At(p, "publish") =>
        /\ marker = id /\ current = None /\ ready
        /\ j.phase = "prepared" /\ (j.before # None => backup[id] # None)
    /\ pc[p] \in {"creating", "spawn"} => made /\ worker[id] = "none"
    /\ pc[p] \in {"creating"} => j.phase = "prepared"
    /\ pc[p] \in {"spawn", "record", "release", "wait", "write-owner", "validate", "commit"} =>
        made /\ j.phase = "creating"
    /\ pc[p] \in {"record", "release"} => worker[id] = "waiting"
    /\ At(p, "release") => j.worker
    /\ At(p, "wait") =>
        /\ worker[id] \in {"building", "done", "failed"} /\ j.worker
        /\ worker[id] = "done" => current.packages = "whole"
    /\ pc[p] \in {"write-owner", "validate", "commit"} =>
        worker[id] = "done" /\ current.packages = "whole"
    /\ pc[p] \in {"validate", "commit"} => current.owner = hand[p].next
    /\ At(p, "drop-token") => j.phase = "committed" /\ current # None
    /\ pc[p] \in {"clear-marker", "clear-journal"} =>
        settled /\ (j.phase # "committed" => backup[id] = None)
    /\ At(p, "clear-journal") => marker = None
    /\ pc[p] \in RollingBack => j.phase # "committed" /\ ~Busy(id)
    /\ At(p, "remove") => current # None /\ UnderWay(id)
    /\ At(p, "restore") => settled /\ (backup[id] # None => current = None)
    /\ pc[p] \in {"drop-staging", "rolled-back"} => settled /\ backup[id] = None

IInv ==
    /\ TypeOK
    /\ GuardIsHeld
    /\ OneTransaction
    /\ PlacesAreKnown
    /\ CurrentIsKnown
    /\ WorkersAreKnown
    /\ \A p \in Procs : Knows(p)

-----------------------------------------------------------------------------
\* architecture.md: an interrupted replacement restores the previous owned
\* environment.  That is: unless the user put another one there, self repair
\* never refuses what is not still being written.
InterruptedIsRestorable ==
    \A id \in Undecided :
        users = 0 /\ guard = None /\ worker[id] # "building" => Restorable(id)
=============================================================================
