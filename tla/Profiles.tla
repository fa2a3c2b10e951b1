------------------------------ MODULE Profiles ------------------------------
(***************************************************************************)
(* The commands on the encrypted profiles of one project, on one machine:  *)
(* edits under the lock of the project and in a transaction (detailed in   *)
(* Transactions), the trust record, which no lock protects, and exec,      *)
(* which takes no lock either.                                             *)
(*                                                                         *)
(* A pull replaces the files while no command changes them and no exec has *)
(* begun to read them: between an exec's look and its decryption, or an    *)
(* edit's check and its renewal of the trust, the code would not notice.   *)
(***************************************************************************)
EXTENDS ProfileContents, Naturals

CONSTANTS
    Procs,
    InitialContents, Pulled,
    MaxEdits,         \* bounds how many edits are begun
    MaxDeaths,        \* bounds how many commands are killed
    MaxPulls

ASSUME ProfilesAssumption ==
    /\ None \notin Procs
    /\ MaxEdits \in Nat /\ MaxDeaths \in Nat /\ MaxPulls \in Nat

\* What others commit was made by the same commands.
ASSUME PulledAssumption ==
    \A s \in InitialContents \cup Pulled : s \in Contents /\ Consistent(s)

VARIABLES
    config, files,
    local,     \* .pinset/local/profile.json
    trust,     \* state/trust/<directory>.toml: a fingerprint, or None
    marker,    \* the transaction under way: its marker and journal
    guard,     \* who holds the lock of the project
    pc, hand,
    reviewed,  \* history: the files derive from what the user has trusted
    edits, deaths, pulls

contents == <<config, files>>
vars == <<contents, local, trust, marker, guard, pc, hand, reviewed, edits, deaths, pulls>>

Marker == [phase : {"prepared", "committed", "recovered"},
           before : Contents,
           local : Profiles \cup {None}]   \* history: as it was

ASSUME NoneIsNoMarker == None \notin Marker

Commands == {"init", "use", "remove", "values", "configure", "repair", "exec", "trust"}

Writing == {"check-again", "begin", "write-config", "write-file", "drop-local",
            "commit", "clear", "refresh"}
Repairing == {"restore-config", "restore-file", "recovered"}
Reading == {"read-config", "read-files", "confirm", "decrypt"}

TypeOK ==
    /\ [config |-> config, files |-> files] \in Contents
    /\ local \in Profiles \cup {None}
    /\ trust \in Contents \cup {None}
    /\ marker \in Marker \cup {None}
    /\ guard \in Procs \cup {None}
    /\ pc \in [Procs -> {"idle", "want-remove"} \cup Writing \cup Repairing \cup Reading]
    /\ hand \in [Procs -> [command : Commands \cup {None},
                           profile : Profiles \cup {None},
                           next : Contents \cup {None}]]
    /\ reviewed \in BOOLEAN
    /\ edits \in 0 .. MaxEdits
    /\ deaths \in 0 .. MaxDeaths
    /\ pulls \in 0 .. MaxPulls

Now == [config |-> config, files |-> files]

\* The contents a reader that waits for recovery would find.
Settled ==
    IF marker # None /\ marker.phase = "prepared" THEN marker.before ELSE Now

\* environment_fingerprint: the configuration and the files of its profiles.
Fingerprint(c, f) ==
    [config |-> c, files |-> [n \in Profiles |-> IF n \in Declared(c) THEN f[n] ELSE None]]

EmptyHand == [command |-> None, profile |-> None, next |-> None]

NoFiles == [n \in Profiles |-> None]

\* A project as it was cloned, nothing trusted yet, or as edits have left it.
Init ==
    /\ \E s \in InitialContents : config = s.config /\ files = s.files
    /\ local = None
    /\ trust \in {None, Fingerprint(config, files)}
    /\ marker = None
    /\ guard = None
    /\ pc = [p \in Procs |-> "idle"]
    /\ hand = [p \in Procs |-> EmptyHand]
    /\ reviewed = (Declared(config) = {} \/ trust # None)
    /\ edits = 0
    /\ deaths = 0
    /\ pulls = 0

-----------------------------------------------------------------------------
At(p, step) == pc[p] = step

Goto(p, step) == pc' = [pc EXCEPT ![p] = step]

Stop(p) == Goto(p, "idle") /\ hand' = [hand EXCEPT ![p] = EmptyHand]

Return(p) == guard' = None /\ Stop(p)

HasFiles(c, f) == \A n \in Declared(c) : f[n] # None

\* verify_project_trust
Trusted ==
    /\ HasFiles(config, files)
    /\ trust = Fingerprint(config, files)

\* Mutant: an edit renews a trust that no longer holds.
RequireNothing == HasFiles(config, files)

\* require_current_trust: a project without profiles needs none.
RequireCurrentTrust == Declared(config) # {} => Trusted

-----------------------------------------------------------------------------
\* Edits.  Under the lock of the project, with no transaction pending, the
\* ciphertext of the edit is prepared beside the profile.

Take(p) ==
    /\ At(p, "idle") /\ guard = None /\ marker = None
    /\ edits < MaxEdits
    /\ edits' = edits + 1
    /\ guard' = p

Prepare(p, command, n, next, step) ==
    /\ hand' = [hand EXCEPT ![p] = [command |-> command, profile |-> n, next |-> next]]
    /\ Goto(p, step)
    /\ UNCHANGED <<contents, local, trust, marker, reviewed, deaths, pulls>>

ProfileInit(p) ==
    \E n \in Profiles :
        /\ Take(p) /\ RequireCurrentTrust /\ CanInit(Now, n)
        /\ Prepare(p, "init", n, Initialized(Now, n), "begin")

ProfileUse(p) ==
    \E n \in Profiles \cup {None} :
        /\ Take(p) /\ RequireCurrentTrust /\ CanUse(Now, n)
        /\ Prepare(p, "use", None, Defaulting(Now, n), "begin")

\* env use, for this machine: one file, outside any transaction.
ProfileUseLocal(p) ==
    \E n \in Profiles \cup {None} :
        /\ At(p, "idle") /\ guard = None /\ marker = None
        /\ RequireCurrentTrust /\ CanUse(Now, n)
        /\ local' = n
        /\ UNCHANGED <<contents, trust, marker, guard, pc, hand, reviewed, edits, deaths, pulls>>

\* env remove looks for the profile before it has the lock, at the trust once
\* more when it has it.
ProfileRemove(p) ==
    \E n \in Profiles :
        /\ At(p, "idle") /\ marker = None
        /\ edits < MaxEdits
        /\ CanRemove(Now, n)
        /\ edits' = edits + 1
        /\ Prepare(p, "remove", n, None, "want-remove")
        /\ UNCHANGED guard

TakeRemove(p) ==
    LET n == hand[p].profile IN
    /\ At(p, "want-remove") /\ guard = None
    /\ \/ /\ marker = None /\ RequireCurrentTrust
          /\ guard' = p
          /\ hand' = [hand EXCEPT ![p].next = Removed(Now, n)]
          /\ Goto(p, "begin")
       \/ /\ marker # None \/ ~RequireCurrentTrust
          /\ Return(p)
    /\ UNCHANGED <<contents, local, trust, marker, reviewed, edits, deaths, pulls>>

ProfileSet(p) ==
    \E n \in Profiles, v \in Variables, x \in Values :
        /\ Take(p) /\ RequireCurrentTrust /\ CanEdit(Now, n)
        /\ Prepare(p, "values", n, WithValue(Now, n, v, x), "check-again")

ProfileUnset(p) ==
    \E n \in Profiles, v \in Variables :
        /\ Take(p) /\ RequireCurrentTrust /\ CanEdit(Now, n)
        /\ Prepare(p, "values", n, WithoutValue(Now, n, v), "check-again")

AccessGrant(p) ==
    \E n \in Profiles, r \in Requests, k \in Keys :
        /\ Take(p) /\ RequireCurrentTrust /\ CanGrant(Now, n, r)
        /\ Prepare(p, "values", n, Granted(Now, n, r, k), "check-again")

AccessRevoke(p) ==
    \E n \in Profiles, r \in Requests :
        /\ Take(p) /\ RequireCurrentTrust /\ CanRevoke(Now, n, r)
        /\ Prepare(p, "values", n, Revoked(Now, n, r), "check-again")

\* use, remove, import, ...: they need no trust, and do not renew it.
Configure(p) ==
    \E rest \in Rests :
        /\ Take(p)
        /\ Prepare(p, "configure", None, Reconfigured(Now, rest), "begin")

\* commit_prepared_profile asks for the trust once more.
CheckAgain(p) ==
    /\ At(p, "check-again")
    /\ \/ RequireCurrentTrust /\ Goto(p, "begin") /\ UNCHANGED <<guard, hand>>
       \/ ~RequireCurrentTrust /\ Return(p)
    /\ UNCHANGED <<contents, local, trust, marker, reviewed, edits, deaths, pulls>>

\* begin_commit: the profiles go into the journal with the configuration.
Begin(p) ==
    /\ At(p, "begin")
    /\ marker' = [phase |-> "prepared", before |-> Now, local |-> local]
    /\ Goto(p, "write-config")
    /\ UNCHANGED <<contents, local, trust, guard, hand, reviewed, edits, deaths, pulls>>

WriteConfig(p) ==
    /\ At(p, "write-config")
    /\ config' = hand[p].next.config
    /\ Goto(p, IF hand[p].profile # None THEN "write-file" ELSE "commit")
    /\ UNCHANGED <<files, local, trust, marker, guard, hand, reviewed, edits, deaths, pulls>>

\* restore_encrypted_profile, write_encrypted_profile, or remove_file.
WriteFile(p) ==
    /\ At(p, "write-file")
    /\ hand[p].command = "remove" => files[hand[p].profile] # None
    /\ files' = [files EXCEPT ![hand[p].profile] = hand[p].next.files[hand[p].profile]]
    /\ Goto(p, IF hand[p].command = "remove" THEN "drop-local" ELSE "commit")
    /\ UNCHANGED <<config, local, trust, marker, guard, hand, reviewed, edits, deaths, pulls>>

\* remove_file finds nothing, because another remove came before: the command
\* ends, and its transaction is left to self repair.
FileIsGone(p) ==
    /\ At(p, "write-file")
    /\ hand[p].command = "remove" /\ files[hand[p].profile] = None
    /\ Return(p)
    /\ UNCHANGED <<contents, local, trust, marker, reviewed, edits, deaths, pulls>>

\* The choice of this machine goes with the profile; no journal has it.
DropLocal(p) ==
    /\ At(p, "drop-local")
    /\ local' = IF local = hand[p].profile THEN None ELSE local
    /\ Goto(p, "commit")
    /\ UNCHANGED <<contents, trust, marker, guard, hand, reviewed, edits, deaths, pulls>>

\* finish_commit.  An edit may lead back to what the user has trusted.
Commit(p) ==
    /\ At(p, "commit")
    /\ marker' = [marker EXCEPT !.phase = "committed"]
    /\ reviewed' = (reviewed \/ trust = Fingerprint(config, files))
    /\ Goto(p, "clear")
    /\ UNCHANGED <<contents, local, trust, guard, hand, edits, deaths, pulls>>

ClearMarker(p) ==
    /\ At(p, "clear")
    /\ marker' = None
    /\ \/ /\ hand[p].command \in {"configure", "repair"}
          /\ Return(p)
       \/ /\ hand[p].command \notin {"configure", "repair"}
          /\ Goto(p, "refresh")
          /\ UNCHANGED <<guard, hand>>
    /\ UNCHANGED <<contents, local, trust, reviewed, edits, deaths, pulls>>

\* refresh_trust: what is there now is trusted, after the commit.
RefreshTrust(p) ==
    /\ At(p, "refresh")
    /\ trust' = IF HasFiles(config, files) THEN Fingerprint(config, files) ELSE trust
    /\ Return(p)
    /\ UNCHANGED <<contents, local, marker, reviewed, edits, deaths, pulls>>

-----------------------------------------------------------------------------
\* self repair, under the lock of the project.

Repair(p) ==
    /\ At(p, "idle") /\ guard = None /\ marker # None
    /\ guard' = p
    /\ hand' = [hand EXCEPT ![p].command = "repair"]
    /\ Goto(p, IF marker.phase = "prepared" THEN "restore-config" ELSE "clear")
    /\ UNCHANGED <<contents, local, trust, marker, reviewed, edits, deaths, pulls>>

RestoreConfig(p) ==
    /\ At(p, "restore-config")
    /\ config' = marker.before.config
    /\ Goto(p, "restore-file")
    /\ UNCHANGED <<files, local, trust, marker, guard, hand, reviewed, edits, deaths, pulls>>

\* Mutant: the profiles are not part of the rollback.
RestoreNoFile(p) ==
    /\ At(p, "restore-file")
    /\ Goto(p, "recovered")
    /\ UNCHANGED <<contents, local, trust, marker, guard, hand, reviewed, edits, deaths, pulls>>

\* One transaction changes at most one profile.
RestoreFile(p) ==
    /\ At(p, "restore-file")
    /\ files' = marker.before.files
    /\ Goto(p, "recovered")
    /\ UNCHANGED <<config, local, trust, marker, guard, hand, reviewed, edits, deaths, pulls>>

MarkRecovered(p) ==
    /\ At(p, "recovered")
    /\ marker' = [marker EXCEPT !.phase = "recovered"]
    /\ Goto(p, "clear")
    /\ UNCHANGED <<contents, local, trust, guard, hand, reviewed, edits, deaths, pulls>>

-----------------------------------------------------------------------------
\* exec and trust add take no lock: they read the configuration, which they
\* refuse while a transaction is pending, and the files one after the other.

\* resolve_profile: the explicit argument (or PINSET_PROFILE), the choice of
\* this machine, the shared default.
Chosen(explicit) ==
    IF explicit # None THEN explicit
    ELSE IF local # None THEN local ELSE config.default

Exec(p) ==
    \E explicit \in Profiles \cup {None} :
        /\ At(p, "idle") /\ marker = None
        /\ Chosen(explicit) \in Declared(config)
        /\ hand' = [hand EXCEPT ![p] =
                [command |-> "exec", profile |-> Chosen(explicit), next |-> None]]
        /\ Goto(p, "read-config")
        /\ UNCHANGED <<contents, local, trust, marker, guard, reviewed, edits, deaths, pulls>>

TrustAdd(p) ==
    /\ At(p, "idle")
    /\ hand' = [hand EXCEPT ![p].command = "trust"]
    /\ Goto(p, "read-config")
    /\ UNCHANGED <<contents, local, trust, marker, guard, reviewed, edits, deaths, pulls>>

ReadConfig(p) ==
    /\ At(p, "read-config")
    /\ \/ /\ marker = None
          /\ hand' = [hand EXCEPT ![p].next = [config |-> config, files |-> NoFiles]]
          /\ Goto(p, "read-files")
       \/ marker # None /\ Stop(p)
    /\ UNCHANGED <<contents, local, trust, marker, guard, reviewed, edits, deaths, pulls>>

\* One of the profiles the configuration declares; the command ends when its
\* file is not there.
ReadFile(p) ==
    LET read == hand[p].next IN
    /\ At(p, "read-files")
    /\ \E n \in Declared(read.config) :
        /\ read.files[n] = None
        /\ \/ /\ files[n] # None
              /\ hand' = [hand EXCEPT ![p].next = [read EXCEPT !.files[n] = files[n]]]
              /\ UNCHANGED pc
           \/ files[n] = None /\ Stop(p)
    /\ UNCHANGED <<contents, local, trust, marker, guard, reviewed, edits, deaths, pulls>>

HasRead(p, command) ==
    /\ At(p, "read-files") /\ hand[p].command = command
    /\ HasFiles(hand[p].next.config, hand[p].next.files)

\* trust_project, on behalf of the user: what was read is trusted.  The rest of
\* the configuration may have been edited since.
RecordTrust(p) ==
    /\ HasRead(p, "trust")
    /\ trust' = hand[p].next
    /\ reviewed' = (reviewed \/ \E rest \in Rests :
            LET shown == Reconfigured(Settled, rest)
            IN  hand[p].next = Fingerprint(shown.config, shown.files))
    /\ Stop(p)
    /\ UNCHANGED <<contents, local, marker, guard, edits, deaths, pulls>>

Compare(p) ==
    /\ HasRead(p, "exec")
    /\ \/ trust = hand[p].next /\ Goto(p, "confirm") /\ UNCHANGED hand
       \/ trust # hand[p].next /\ Stop(p)
    /\ UNCHANGED <<contents, local, trust, marker, guard, reviewed, edits, deaths, pulls>>

\* The fingerprint is made once more, for a command started by this one.
Confirm(p) ==
    /\ At(p, "confirm")
    /\ \/ marker = None /\ Goto(p, "decrypt") /\ UNCHANGED hand
       \/ marker # None /\ Stop(p)
    /\ UNCHANGED <<contents, local, trust, marker, guard, reviewed, edits, deaths, pulls>>

\* read_encrypted_profile: the values, or an error, and the command ends.
Decrypt(p) ==
    /\ At(p, "decrypt")
    /\ Stop(p)
    /\ UNCHANGED <<contents, local, trust, marker, guard, reviewed, edits, deaths, pulls>>

TrustRevoke(p) ==
    /\ At(p, "idle")
    /\ marker = None
    /\ trust' = None
    /\ UNCHANGED <<contents, local, marker, guard, pc, hand, reviewed, edits, deaths, pulls>>

-----------------------------------------------------------------------------
Die(p) ==
    /\ pc[p] # "idle"
    /\ deaths < MaxDeaths
    /\ deaths' = deaths + 1
    /\ guard' = IF guard = p THEN None ELSE guard
    /\ Stop(p)
    /\ UNCHANGED <<contents, local, trust, marker, reviewed, edits, pulls>>

Verified == {"confirm", "decrypt"}

\* A pull, or an edit by hand.  Trust that happens to name what it brings was
\* given to exactly that.
Pull ==
    \E s \in Pulled :
        /\ pulls < MaxPulls
        /\ guard = None /\ marker = None
        /\ \A p \in Procs : hand[p].command = "exec" => At(p, "read-config")
        /\ pulls' = pulls + 1
        /\ config' = s.config
        /\ files' = s.files
        /\ reviewed' = (Declared(s.config) = {} \/ trust = Fingerprint(s.config, s.files))
        /\ UNCHANGED <<local, trust, marker, guard, pc, hand, edits, deaths>>

Edit(p) ==
    ProfileInit(p) \/ ProfileUse(p) \/ ProfileUseLocal(p)
    \/ ProfileRemove(p) \/ TakeRemove(p)
    \/ ProfileSet(p) \/ ProfileUnset(p) \/ AccessGrant(p) \/ AccessRevoke(p) \/ Configure(p)

Write(p) ==
    CheckAgain(p) \/ Begin(p) \/ WriteConfig(p) \/ WriteFile(p) \/ FileIsGone(p)
    \/ DropLocal(p) \/ Commit(p) \/ ClearMarker(p) \/ RefreshTrust(p)

Recover(p) == Repair(p) \/ RestoreConfig(p) \/ RestoreFile(p) \/ MarkRecovered(p)

Use(p) ==
    Exec(p) \/ TrustAdd(p) \/ TrustRevoke(p) \/ ReadConfig(p) \/ ReadFile(p)
    \/ RecordTrust(p) \/ Compare(p) \/ Confirm(p) \/ Decrypt(p)

Next ==
    \/ \E p \in Procs : Edit(p) \/ Write(p) \/ Recover(p) \/ Use(p) \/ Die(p)
    \/ Pull

Spec == Init /\ [][Next]_vars

-----------------------------------------------------------------------------
Store == INSTANCE ProfileStore WITH store <- Settled

\* Configuration and ciphertext change together, by whole edits, each made
\* from what the one before it left, whatever dies in between.
ImplementsStore == Store!Spec

\* Every value can be read by the recipients its profile names and by no one
\* else, and the default is a profile that exists: after any interleaving of
\* grants, revocations and changes of values, killed anywhere and recovered.
EncryptedForRecipients == Consistent(Settled)

\* Contents that came from outside are never taken for trusted, and exec never
\* gets to decrypt them, before the user has trusted exactly these: no edit
\* renews a trust they have made invalid.
OnlyReviewedIsTrusted ==
    (Declared(config) # {} /\ marker = None /\ Trusted) \/ (\E p \in Procs : pc[p] \in Verified)
        => reviewed

-----------------------------------------------------------------------------
\* The inductive invariant.

Renewing == {"init", "use", "remove", "values"}

GuardIsHeld == \A p \in Procs : guard = p <=> pc[p] \in Writing \cup Repairing

\* What a command has in memory at each of its steps.
HandIsFull(p) ==
    LET h == hand[p] IN
    /\ pc[p] = "idle" => h = EmptyHand
    /\ pc[p] = "want-remove" => h.command = "remove" /\ h.profile # None
    /\ pc[p] \in Writing \ {"clear"} => h.command \in Renewing \cup {"configure"}
    /\ pc[p] = "clear" => h.command \in Renewing \cup {"configure", "repair"}
    /\ pc[p] = "refresh" => h.command \in Renewing
    /\ pc[p] \in Writing /\ h.command \in Renewing => reviewed
    /\ pc[p] \in Repairing => h.command = "repair"
    /\ pc[p] \in {"read-config", "read-files"} => h.command \in {"exec", "trust"}
    /\ pc[p] \in Verified => h.command = "exec"
    /\ pc[p] \in Reading \ {"read-config"} =>
        /\ h.next \in Contents
        /\ \A n \in Profiles \ Declared(h.next.config) : h.next.files[n] = None

\* One edit of s that changes at most the file of its profile.
Proposes(h, s) ==
    /\ h.next \in Edits(s)
    /\ h.command = "configure" =>
        h.profile = None /\ \E rest \in Rests : h.next = Reconfigured(s, rest)
    /\ IF h.profile = None
       THEN h.next.files = s.files
       ELSE h.next.files = [s.files EXCEPT ![h.profile] = h.next.files[h.profile]]

Prepared == marker # None /\ marker.phase = "prepared"

\* What is written at each step of an edit or a recovery.
Written(p) ==
    /\ pc[p] \in {"check-again", "begin"} => marker = None /\ Proposes(hand[p], Now)
    /\ pc[p] \in {"write-config", "write-file", "drop-local", "commit"} =>
        Prepared /\ Proposes(hand[p], marker.before)
    /\ pc[p] = "write-config" => Now = marker.before
    /\ pc[p] = "write-file" =>
        /\ hand[p].profile # None
        /\ config = hand[p].next.config /\ files = marker.before.files
    /\ pc[p] \in {"drop-local", "commit"} => Now = hand[p].next
    /\ pc[p] = "clear" => marker # None /\ ~Prepared
    /\ pc[p] = "refresh" => marker = None
    /\ pc[p] \in Repairing => Prepared
    /\ pc[p] \in {"restore-file", "recovered"} => config = marker.before.config
    /\ pc[p] = "recovered" => files = marker.before.files

\* The same but for the rest of the configuration.
Alike(c, d) == c.profiles = d.profiles /\ c.default = d.default

\* Nothing of what is there was reviewed: no trust is for it.
Unreviewed ==
    ~reviewed =>
        /\ Declared(Settled.config) # {}
        /\ trust # Fingerprint(Settled.config, Settled.files)
        /\ files = Settled.files /\ Alike(config, Settled.config)

\* No exec has then read anything that a trust is for.
Unseen(p) ==
    ~reviewed /\ hand[p].command = "exec" =>
        /\ pc[p] \notin Verified
        /\ pc[p] = "read-files" =>
            /\ Alike(hand[p].next.config, Settled.config)
            /\ trust # Fingerprint(hand[p].next.config, Settled.files)
            /\ \A n \in Profiles : hand[p].next.files[n] \in {None, Settled.files[n]}

IInv ==
    /\ TypeOK
    /\ GuardIsHeld
    /\ \A p \in Procs : HandIsFull(p) /\ Written(p) /\ Unseen(p)
    /\ EncryptedForRecipients
    /\ Unreviewed

-----------------------------------------------------------------------------
\* "Transactionally updates profile, configuration, lock and local choice": a
\* removal that is rolled back gives the local choice back.
LocalChoiceIsRolledBack ==
    [][\A p \in Procs :
        At(p, "clear") /\ pc'[p] = "idle" /\ marker # None /\ marker.phase = "recovered"
            => local' = marker.local]_vars

\* An edit of a project with profiles does not bring back a trust the user has
\* revoked since it was checked.
RevokedTrustStaysRevoked ==
    [][\A p \in Procs :
        At(p, "refresh") /\ hand[p].command # "init" /\ Declared(config) # {} /\ trust = None
            => trust' = None]_vars

=============================================================================
