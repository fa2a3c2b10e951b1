----------------------------- MODULE Installer -----------------------------
(***************************************************************************)
(* Installing SDKs from verified archives: downloads that are resumed,     *)
(* retried and shared, the content-addressed cache, staging, the rename    *)
(* that publishes an installation, and repair with its quarantine.         *)
(*                                                                         *)
(* Two locks matter here: one per installation, held for the whole         *)
(* install, and one per archive digest, held while the archive is sought   *)
(* in the cache or downloaded.  Every command also holds the maintenance   *)
(* lock shared (Cleanup), so that clean cache meets no command.            *)
(***************************************************************************)
EXTENDS Extraction, TLC

CONSTANTS
    Identities,     \* installation directories: tool, identity and target
    Digests,        \* archives, named by their checksum
    Archives,       \* what each of them contains
    Requests,       \* the layers of each installation and the paths it needs
    Inventoried,    \* the ones whose receipt is completed after the install
    Procs,
    Sources,        \* how many sources each artifact has
    MaxAttempts,    \* DOWNLOAD_ATTEMPTS_PER_SOURCE
    MaxStalled,     \* DOWNLOAD_STALLED_ATTEMPTS
    Size,           \* length of every archive
    MaxDownload,    \* InstallLimits::max_download_bytes
    InitialInstalls, InitialCache, InitialPartial,  \* on disk at the start
    MaxDeaths,      \* bounds how many commands die halfway
    None

ASSUME InstallerAssumption ==
    /\ {Sources, MaxAttempts, MaxStalled, Size} \subseteq Nat \ {0}
    /\ MaxDownload \in Nat /\ Size <= MaxDownload
    /\ MaxDeaths \in Nat
    /\ Inventoried \subseteq Identities
    /\ None \notin Procs /\ None \notin Identities /\ None \notin Digests
    /\ \A i \in Identities :
        LET layers == Requests[i].layers IN
        Len(layers) \in Nat \ {0} /\ \A n \in 1 .. Len(layers) : layers[n].digest \in Digests

VARIABLES
    installs,    \* installs/<tool>/<identity>/<target>
    quarantine,  \* state/quarantine: what each process has moved there
    cache,       \* cache/downloads/<digest>.archive
    partial,     \* cache/downloads/partial/<digest>.part
    installer,   \* who holds the lock of each installation
    downloader,  \* who holds the lock of each digest
    pc, hand, deaths

disk == <<installs, quarantine, cache, partial>>
vars == <<disk, installer, downloader, pc, hand, deaths>>

Layer(i, n) == Requests[i].layers[n]

\* One more layer on top of what is staged.
Add(i, n, staged) ==
    LET l == Layer(i, n) IN
    IF staged = Refused THEN Refused
    ELSE Extract(Archives[l.digest], l.strip, l.prefixes, staged)

\* What staging holds after the first n layers.
Stages(i) ==
    LET staged[n \in 0 .. Len(Requests[i].layers)] ==
            IF n = 0 THEN {} ELSE Add(i, n, staged[n - 1])
    IN staged

Staged(i, n) == Stages(i)[n]

\* validate_required_paths and validate_install_aliases: a path is a file, or
\* a link to one.
HasFiles(files, paths) ==
    \A path \in paths : \E f \in files : f.path = path /\ f.kind # "dir"

\* create_install_aliases: hard links next to what they name.
Aliased(i, staged) ==
    staged \cup [path : Requests[i].aliases, kind : {"file"}]

Payload(i) == Aliased(i, Staged(i, Len(Requests[i].layers)))

\* The receipt keeps a fingerprint of the files as they were staged.
Receipt(files) == [digest |-> files, commands |-> FALSE]

Whole(i) == [files |-> Payload(i), intact |-> TRUE, receipt |-> Receipt(Payload(i))]

Undamaged(i, install) ==
    /\ install.receipt # None
    /\ install.intact
    /\ install.files = install.receipt.digest

\* existing_install_outcome: the receipt and the critical paths, not the rest.
Reusable(i, install) ==
    /\ install.receipt # None
    /\ HasFiles(install.files, Requests[i].required \cup Requests[i].aliases)

Contents == SUBSET [path : Seq(STRING), kind : STRING]
Receipts == [digest : Contents, commands : BOOLEAN]
Installations == [files : Contents, intact : BOOLEAN, receipt : Receipts \cup {None}]

\* The part of an archive that has arrived; good when it is a prefix of it.
Partial == [length : 0 .. MaxDownload + 1, good : BOOLEAN]

\* On disk at the start; what is staged are names of files.
ASSUME DiskAssumption ==
    /\ InitialInstalls \subseteq [Identities -> Installations \cup {None}]
    /\ InitialCache \subseteq [Digests -> {None, "good", "bad"}]
    /\ InitialPartial \subseteq [Digests -> Partial \cup {None}]
    /\ \A i \in Identities :
        /\ \A n \in 0 .. Len(Requests[i].layers) : Staged(i, n) \in Contents
        /\ Payload(i) \in Contents
    /\ None \notin Receipts \cup Installations \cup Partial \cup {"good", "bad"}

Ops == {"none", "install", "repair", "import"}

EmptyHand == [op |-> "none", id |-> None, digest |-> None,
              layer |-> 0, staged |-> {}, source |-> 0, attempt |-> 0,
              stalled |-> 0, before |-> 0, start |-> 0,
              receipt |-> None]

Steps == {"idle", "want-install", "check", "look", "want-download", "cached",
          "connect", "reconnect", "receive", "persist", "drop-partial",
          "extract", "finish", "commit", "discard", "restore", "copy",
          "inventory-read", "inventory-write"}

Hand == [op : Ops, id : Identities \cup {None}, digest : Digests \cup {None},
         layer : Nat, staged : Contents, source : 0 .. Sources,
         attempt : 0 .. MaxAttempts, stalled : 0 .. MaxStalled,
         before : 0 .. MaxDownload + 1, start : 0 .. MaxDownload,
         receipt : Receipts \cup {None}]

TypeOK ==
    /\ installs \in [Identities -> Installations \cup {None}]
    /\ quarantine \in [Procs -> Installations \cup {None}]
    /\ cache \in [Digests -> {None, "good", "bad"}]
    /\ partial \in [Digests -> Partial \cup {None}]
    /\ installer \in [Identities -> Procs \cup {None}]
    /\ downloader \in [Digests -> Procs \cup {None}]
    /\ pc \in [Procs -> Steps]
    /\ hand \in [Procs -> Hand]
    /\ deaths \in 0 .. MaxDeaths

Init ==
    /\ installs \in InitialInstalls
    /\ quarantine = [p \in Procs |-> None]
    /\ cache \in InitialCache
    /\ partial \in InitialPartial
    /\ installer = [i \in Identities |-> None]
    /\ downloader = [d \in Digests |-> None]
    /\ pc = [p \in Procs |-> "idle"]
    /\ hand = [p \in Procs |-> EmptyHand]
    /\ deaths = 0

-----------------------------------------------------------------------------
At(p, step) == pc[p] = step

Goto(p, step) == pc' = [pc EXCEPT ![p] = step]

Length(d) == IF partial[d] = None THEN 0 ELSE partial[d].length

Unlock(p) ==
    /\ installer' = [i \in Identities |-> IF installer[i] = p THEN None ELSE installer[i]]
    /\ downloader' = [d \in Digests |-> IF downloader[d] = p THEN None ELSE downloader[d]]

Return(p) ==
    /\ Unlock(p)
    /\ Goto(p, "idle")
    /\ hand' = [hand EXCEPT ![p] = EmptyHand]

\* What only the download loop needs is forgotten when it ends.
Fetched(p) == [hand[p] EXCEPT !.source = 0, !.attempt = 0, !.stalled = 0,
                              !.before = 0, !.start = 0]

\* An error of install: with something in quarantine it is put back.
Fail(p) ==
    IF hand[p].op \in {"install", "repair"}
    THEN /\ Goto(p, "restore")
         /\ hand' = [hand EXCEPT ![p] = [EmptyHand EXCEPT !.op = hand[p].op, !.id = hand[p].id]]
         /\ downloader' = [d \in Digests |-> IF downloader[d] = p THEN None ELSE downloader[d]]
         /\ UNCHANGED installer
    ELSE Return(p)
-----------------------------------------------------------------------------
\* install, with or without repair.
StartInstall(p) ==
    /\ At(p, "idle")
    /\ \E i \in Identities, op \in {"install", "repair"} :
        hand' = [hand EXCEPT ![p] = [EmptyHand EXCEPT !.op = op, !.id = i]]
    /\ Goto(p, "want-install")
    /\ UNCHANGED <<disk, installer, downloader, deaths>>

TakeInstall(p) ==
    /\ At(p, "want-install")
    /\ installer[hand[p].id] = None
    /\ installer' = [installer EXCEPT ![hand[p].id] = p]
    /\ Goto(p, "check")
    /\ UNCHANGED <<disk, downloader, hand, deaths>>

\* Mutant: a payload that Pinset did not install is damaged, too.
CheckTakesAll(p) ==
    LET i == hand[p].id
        found == installs[i]
    IN
    /\ At(p, "check")
    /\ IF hand[p].op # "repair" \/ found = None
       THEN UNCHANGED <<installs, quarantine>>
       ELSE IF Reusable(i, found) /\ Undamaged(i, found)
       THEN UNCHANGED <<installs, quarantine>>
       ELSE /\ quarantine' = [quarantine EXCEPT ![p] = found]
            /\ installs' = [installs EXCEPT ![i] = None]
    /\ Goto(p, "look")
    /\ UNCHANGED <<cache, partial, installer, downloader, hand, deaths>>

\* Repair moves a damaged installation of its own to quarantine.
Check(p) ==
    LET i == hand[p].id
        found == installs[i]
    IN
    /\ At(p, "check")
    /\ IF hand[p].op # "repair" \/ found = None
       THEN Goto(p, "look") /\ UNCHANGED <<disk, installer, downloader, hand>>
       ELSE IF found.receipt = None
       THEN Return(p) /\ UNCHANGED disk
       ELSE IF Reusable(i, found) /\ Undamaged(i, found)
       THEN Goto(p, "look") /\ UNCHANGED <<disk, installer, downloader, hand>>
       ELSE /\ quarantine' = [quarantine EXCEPT ![p] = found]
            /\ installs' = [installs EXCEPT ![i] = None]
            /\ Goto(p, "look")
            /\ UNCHANGED <<cache, partial, installer, downloader, hand>>
    /\ UNCHANGED deaths

\* install_locked begins: what is there is reused, or is in the way.
Look(p) ==
    LET i == hand[p].id IN
    /\ At(p, "look")
    /\ IF installs[i] = None
       THEN /\ hand' = [hand EXCEPT ![p].layer = 1, ![p].digest = Layer(i, 1).digest]
            /\ Goto(p, "want-download")
            /\ UNCHANGED <<installer, downloader>>
       ELSE IF Reusable(i, installs[i])
       THEN Goto(p, "discard") /\ UNCHANGED <<installer, downloader, hand>>
       ELSE Fail(p)
    /\ UNCHANGED <<disk, deaths>>

-----------------------------------------------------------------------------
\* Mutant: the partial file is locked per installation.
TakeDownloadByIdentity(p) ==
    /\ At(p, "want-download")
    /\ Goto(p, IF hand[p].op = "import" THEN "copy" ELSE "cached")
    /\ UNCHANGED <<disk, installer, downloader, hand, deaths>>

TakeDownload(p) ==
    /\ At(p, "want-download")
    /\ downloader[hand[p].digest] = None
    /\ downloader' = [downloader EXCEPT ![hand[p].digest] = p]
    /\ Goto(p, IF hand[p].op = "import" THEN "copy" ELSE "cached")
    /\ UNCHANGED <<disk, installer, hand, deaths>>

\* cached_artifact_is_valid: an entry with another content is removed.  Without
\* one an offline install fails, as any install may at its first connection.
Cached(p) ==
    LET d == hand[p].digest IN
    /\ At(p, "cached")
    /\ cache' = [cache EXCEPT ![d] = IF @ = "bad" THEN None ELSE @]
    /\ IF cache[d] = "good"
       THEN /\ downloader' = [downloader EXCEPT ![d] = None]
            /\ Goto(p, "extract")
            /\ UNCHANGED <<installer, hand>>
       ELSE /\ Goto(p, "connect")
            /\ hand' = [hand EXCEPT ![p].source = 1, ![p].attempt = 1, ![p].stalled = 0,
                                    ![p].before = Length(d)]
            /\ UNCHANGED <<installer, downloader>>
    /\ UNCHANGED <<installs, quarantine, partial, deaths>>

\* Mutant: attempts are not counted while the download gets further.
RetryWhileMoving(p, length) ==
    LET stalled == IF length > hand[p].before THEN 0 ELSE hand[p].stalled + 1 IN
    IF stalled < MaxStalled
    THEN /\ hand' = [hand EXCEPT ![p].attempt = @ + 1, ![p].stalled = stalled,
                                 ![p].before = length]
         /\ Goto(p, "connect")
         /\ UNCHANGED <<installer, downloader>>
    ELSE Fail(p)

\* Mutant: they are not counted at all.
RetryForever(p, length) ==
    LET stalled == IF length > hand[p].before THEN 0 ELSE hand[p].stalled + 1 IN
    IF stalled < MaxStalled
    THEN /\ hand' = [hand EXCEPT ![p].stalled = stalled, ![p].before = length]
         /\ Goto(p, "connect")
         /\ UNCHANGED <<installer, downloader>>
    ELSE Fail(p)

\* download_verified after a retryable error of one attempt: again, unless the
\* attempts are used up or did not get any further; then the next source.
\* `length` is what the partial file has now.
Retry(p, length) ==
    LET stalled == IF length > hand[p].before THEN 0 ELSE hand[p].stalled + 1 IN
    IF hand[p].attempt < MaxAttempts /\ stalled < MaxStalled
    THEN /\ hand' = [hand EXCEPT ![p].attempt = @ + 1, ![p].stalled = stalled,
                                 ![p].before = length]
         /\ Goto(p, "connect")
         /\ UNCHANGED <<installer, downloader>>
    ELSE IF hand[p].source < Sources
    THEN /\ hand' = [hand EXCEPT ![p].source = @ + 1, ![p].attempt = 1, ![p].stalled = 0,
                                 ![p].before = length]
         /\ Goto(p, "connect")
         /\ UNCHANGED <<installer, downloader>>
    ELSE Fail(p)

\* A source that does not answer, or says no: an error worth another attempt
\* (is_retryable_source_error) or one that ends the install.
ConnectFails(p) ==
    /\ pc[p] \in {"connect", "reconnect"}
    /\ LET d == hand[p].digest IN
        /\ partial' = [partial EXCEPT ![d] = IF Length(d) > MaxDownload THEN None ELSE @]
        /\ \/ Retry(p, IF Length(d) > MaxDownload THEN 0 ELSE Length(d))
           \/ Fail(p)
    /\ UNCHANGED <<installs, quarantine, cache, deaths>>

\* A partial file that is too long is removed; a complete one needs no source.
Connect(p) ==
    LET d == hand[p].digest
        have == IF Length(d) > MaxDownload THEN 0 ELSE Length(d)
    IN
    /\ At(p, "connect")
    /\ IF partial[d] = [length |-> Size, good |-> TRUE]
       THEN Goto(p, "persist") /\ hand' = [hand EXCEPT ![p] = Fetched(p)] /\ UNCHANGED partial
       ELSE \/ \* 200, or 206 with the range that was asked for
               \E start \in {0, have} :
                /\ hand' = [hand EXCEPT ![p].start = start]
                /\ partial' = [partial EXCEPT ![d] =
                        IF start = 0 THEN [length |-> 0, good |-> TRUE] ELSE @]
                /\ Goto(p, "receive")
            \/ \* 416, or 206 with another range: once more from the start
               /\ have > 0
               /\ partial' = [partial EXCEPT ![d] = None]
               /\ Goto(p, "reconnect")
               /\ UNCHANGED hand
    /\ UNCHANGED <<installs, quarantine, cache, installer, downloader, deaths>>

Reconnect(p) ==
    /\ At(p, "reconnect")
    /\ hand' = [hand EXCEPT ![p].start = 0]
    /\ partial' = [partial EXCEPT ![hand[p].digest] = [length |-> 0, good |-> TRUE]]
    /\ Goto(p, "receive")
    /\ UNCHANGED <<installs, quarantine, cache, installer, downloader, deaths>>

\* The body arrives, appended to what is there; right is whether it belongs to
\* the archive.  It may stop early (an error, or fewer bytes than announced),
\* run over the limit, or end where the source says it does.
Arrived(p, n, right) ==
    [length |-> hand[p].start + n,
     good |-> partial[hand[p].digest].good /\ (right \/ n = 0)]

ReceiveStops(p) ==
    LET d == hand[p].digest IN
    /\ At(p, "receive")
    /\ \E n \in 0 .. MaxDownload - hand[p].start, right \in BOOLEAN :
        /\ right => hand[p].start + n <= Size
        /\ partial' = [partial EXCEPT ![d] = Arrived(p, n, right)]
        /\ Retry(p, hand[p].start + n)
    /\ UNCHANGED <<installs, quarantine, cache, deaths>>

\* DownloadTooLarge: what came before the limit stays.
ReceiveTooMuch(p) ==
    LET d == hand[p].digest IN
    /\ At(p, "receive")
    /\ partial' = [partial EXCEPT ![d] = Arrived(p, MaxDownload - hand[p].start, FALSE)]
    /\ Fail(p)
    /\ UNCHANGED <<installs, quarantine, cache, deaths>>

ReceiveEnds(p) ==
    LET d == hand[p].digest IN
    /\ At(p, "receive")
    /\ \E n \in 0 .. MaxDownload - hand[p].start, right \in BOOLEAN :
        LET body == Arrived(p, n, right) IN
        /\ right => body.length <= Size
        /\ IF body = [length |-> Size, good |-> TRUE]
           THEN /\ partial' = [partial EXCEPT ![d] = body]
                /\ Goto(p, "persist")
                /\ hand' = [hand EXCEPT ![p] = Fetched(p)]
                /\ UNCHANGED <<installer, downloader>>
           ELSE /\ partial' = [partial EXCEPT ![d] = None]
                /\ Fail(p)
    /\ UNCHANGED <<installs, quarantine, cache, deaths>>

\* persist_cache_artifact: a copy, renamed when nothing is there.
Persist(p) ==
    LET d == hand[p].digest IN
    /\ At(p, "persist")
    /\ \/ /\ cache[d] # "bad"
          /\ cache' = [cache EXCEPT ![d] =
                IF @ = None
                THEN IF partial[d] = [length |-> Size, good |-> TRUE] THEN "good" ELSE "bad"
                ELSE @]
          /\ Goto(p, "drop-partial")
          /\ UNCHANGED <<installer, downloader, hand>>
       \/ /\ cache[d] = "bad"
          /\ cache' = [cache EXCEPT ![d] = None]
          /\ UNCHANGED <<pc, installer, downloader, hand>>
    /\ UNCHANGED <<installs, quarantine, partial, deaths>>

DropPartial(p) ==
    LET d == hand[p].digest IN
    /\ At(p, "drop-partial")
    /\ partial' = [partial EXCEPT ![d] = None]
    /\ downloader' = [downloader EXCEPT ![d] = None]
    /\ Goto(p, "extract")
    /\ hand' = [hand EXCEPT ![p] = Fetched(p)]
    /\ UNCHANGED <<installs, quarantine, cache, installer, deaths>>

-----------------------------------------------------------------------------
\* A layer goes on top of the earlier ones; the paths a base must have are
\* looked at before the next layer is sought.
ExtractLayer(p) ==
    LET i == hand[p].id
        n == hand[p].layer
        l == Layer(i, n)
        staged == IF cache[l.digest] = "good" THEN Add(i, n, hand[p].staged) ELSE Refused
    IN
    /\ At(p, "extract")
    /\ IF staged = Refused \/ ~HasFiles(staged, l.required)
       THEN Fail(p)
       ELSE IF n < Len(Requests[i].layers)
       THEN /\ hand' = [hand EXCEPT ![p].staged = staged, ![p].layer = n + 1,
                                    ![p].digest = Layer(i, n + 1).digest]
            /\ Goto(p, "want-download")
            /\ UNCHANGED <<installer, downloader>>
       ELSE /\ hand' = [hand EXCEPT ![p].staged = staged]
            /\ Goto(p, "finish")
            /\ UNCHANGED <<installer, downloader>>
    /\ UNCHANGED <<disk, deaths>>

\* The critical paths, the native header of a generic binary, the aliases.
Finish(p) ==
    LET i == hand[p].id IN
    /\ At(p, "finish")
    /\ IF HasFiles(hand[p].staged, Requests[i].required) /\ Requests[i].native
       THEN /\ hand' = [hand EXCEPT ![p].staged = Aliased(i, @)]
            /\ Goto(p, "commit")
            /\ UNCHANGED <<installer, downloader>>
       ELSE Fail(p)
    /\ UNCHANGED <<disk, deaths>>

\* The rename that makes the installation visible, with its receipt in it.
Commit(p) ==
    LET i == hand[p].id IN
    /\ At(p, "commit")
    /\ IF installs[i] # None
       THEN Fail(p) /\ UNCHANGED installs
       ELSE /\ installs' = [installs EXCEPT ![i] =
                    [files |-> hand[p].staged, intact |-> TRUE,
                     receipt |-> Receipt(hand[p].staged)]]
            /\ Goto(p, "discard")
            /\ hand' = [hand EXCEPT ![p] = [EmptyHand EXCEPT !.op = hand[p].op, !.id = i]]
            /\ UNCHANGED <<installer, downloader>>
    /\ UNCHANGED <<quarantine, cache, partial, deaths>>

\* install returns: the quarantined payload is removed, the lock released.
Discard(p) ==
    LET i == hand[p].id IN
    /\ At(p, "discard")
    /\ quarantine' = [quarantine EXCEPT ![p] = None]
    /\ IF i \in Inventoried
       THEN /\ installer' = [installer EXCEPT ![i] = None]
            /\ Goto(p, "inventory-read")
            /\ UNCHANGED <<downloader, hand>>
       ELSE Return(p)
    /\ UNCHANGED <<installs, cache, partial, deaths>>

\* Mutant: a failed repair leaves the damaged payload in quarantine.
RestoreNothing(p) ==
    /\ At(p, "restore")
    /\ Return(p)
    /\ UNCHANGED <<disk, deaths>>

\* install fails: the quarantined payload comes back if its place is free.
Restore(p) ==
    LET i == hand[p].id IN
    /\ At(p, "restore")
    /\ IF quarantine[p] # None /\ installs[i] = None
       THEN /\ installs' = [installs EXCEPT ![i] = quarantine[p]]
            /\ quarantine' = [quarantine EXCEPT ![p] = None]
       ELSE UNCHANGED <<installs, quarantine>>
    /\ Return(p)
    /\ UNCHANGED <<cache, partial, deaths>>

\* inventory_java and install_locked_generic complete the receipt with the
\* commands, without the lock of the installation.
InventoryRead(p) ==
    LET i == hand[p].id IN
    /\ At(p, "inventory-read")
    /\ \/ Return(p)   \* the SDK is not what its receipt should list
       \/ /\ installs[i] # None /\ installs[i].receipt # None
          /\ hand' = [hand EXCEPT ![p].receipt = [installs[i].receipt EXCEPT !.commands = TRUE]]
          /\ Goto(p, "inventory-write")
          /\ UNCHANGED <<installer, downloader>>
    /\ UNCHANGED <<disk, deaths>>

\* write_atomic makes the directory it writes to if there is none.
InventoryWrite(p) ==
    LET i == hand[p].id IN
    /\ At(p, "inventory-write")
    /\ installs' = [installs EXCEPT ![i] =
            IF @ = None THEN [files |-> {}, intact |-> TRUE, receipt |-> hand[p].receipt]
                        ELSE [@ EXCEPT !.receipt = hand[p].receipt]]
    /\ Return(p)
    /\ UNCHANGED <<quarantine, cache, partial, deaths>>

-----------------------------------------------------------------------------
\* import_download_cache_with_integrity: what the metadata of a release was
\* computed from goes into the cache, unless something is there.
StartImport(p) ==
    /\ At(p, "idle")
    /\ \E d \in Digests :
        hand' = [hand EXCEPT ![p] = [EmptyHand EXCEPT !.op = "import", !.digest = d]]
    /\ Goto(p, "want-download")
    /\ UNCHANGED <<disk, installer, downloader, deaths>>

Copy(p) ==
    LET d == hand[p].digest IN
    /\ At(p, "copy")
    /\ \/ cache' = [cache EXCEPT ![d] = IF @ = None THEN "good" ELSE @]
       \/ UNCHANGED cache
    /\ Return(p)
    /\ UNCHANGED <<installs, quarantine, partial, deaths>>

\* clean cache holds the maintenance lock exclusively: no command is running.
CleanCache ==
    /\ \A p \in Procs : At(p, "idle")
    /\ \E unreferenced \in SUBSET Digests :
        cache' = [d \in Digests |-> IF d \in unreferenced THEN None ELSE cache[d]]
    /\ UNCHANGED <<installs, quarantine, partial, installer, downloader, pc, hand, deaths>>

\* A killed process leaves its staging directory and its quarantine behind.
Die(p) ==
    /\ ~At(p, "idle")
    /\ deaths < MaxDeaths
    /\ deaths' = deaths + 1
    /\ Return(p)
    /\ quarantine' = [quarantine EXCEPT ![p] = None]
    /\ UNCHANGED <<installs, cache, partial>>

Locking(p) == TakeInstall(p) \/ TakeDownload(p)

Running(p) ==
    \/ Check(p) \/ Look(p) \/ Cached(p) \/ ConnectFails(p) \/ Connect(p)
    \/ Reconnect(p) \/ ReceiveStops(p) \/ ReceiveTooMuch(p) \/ ReceiveEnds(p)
    \/ Persist(p) \/ DropPartial(p) \/ ExtractLayer(p) \/ Finish(p) \/ Commit(p)
    \/ Discard(p) \/ Restore(p) \/ InventoryRead(p) \/ InventoryWrite(p) \/ Copy(p)

Next ==
    \/ \E p \in Procs : StartInstall(p) \/ StartImport(p) \/ Locking(p) \/ Running(p) \/ Die(p)
    \/ CleanCache

Spec == Init /\ [][Next]_vars

-----------------------------------------------------------------------------
Downloading == {"cached", "connect", "reconnect", "receive", "persist", "drop-partial"}

\* Whoever works on the partial file of a digest holds the lock of the digest,
\* what is persisted was verified, what is extracted is in the cache, and
\* nothing is fetched that is there.
DownloadsAgree ==
    \A p \in Procs :
        LET d == hand[p].digest IN
        /\ pc[p] \in Downloading => downloader[d] = p
        /\ At(p, "persist") => partial[d] = [length |-> Size, good |-> TRUE]
        /\ At(p, "extract") => cache[d] = "good"
        /\ pc[p] \in {"connect", "reconnect", "receive"} => cache[d] = None

\* An installation directory changes only as a whole: it is published with all
\* of its layers and a receipt that fits, moved to quarantine when it is Pinset's
\* and damaged, or comes back from there; its receipt may get the commands.
InstallsChangeWhole ==
    [][\A i \in Identities : installs'[i] # installs[i] =>
        \/ installs[i] = None /\ installs'[i] = Whole(i)
        \/ /\ installs'[i] = None
           /\ installs[i].receipt # None
           /\ ~(Reusable(i, installs[i]) /\ Undamaged(i, installs[i]))
        \/ installs[i] = None /\ \E p \in Procs : quarantine[p] = installs'[i]
        \/ /\ installs[i] # None /\ installs[i].receipt # None
           /\ installs'[i] = [installs[i] EXCEPT !.receipt.commands = TRUE]]_vars

\* A repair that does not die ends with a whole installation or with the one
\* it found, and leaves nothing in quarantine.
RepairReplacesOrGivesBack ==
    [][\A p \in Procs :
        quarantine[p] # None /\ pc'[p] = "idle" /\ deaths' = deaths =>
            /\ quarantine'[p] = None
            /\ installs'[hand[p].id] \in {quarantine[p], Whole(hand[p].id)}]_vars

\* A download ends, however its sources behave: whenever it starts over it has
\* used up an attempt, or a source with all of its attempts.
RetriesAreUsedUp ==
    [][\A p \in Procs :
        /\ pc[p] \in {"connect", "reconnect", "receive"} /\ pc'[p] = "connect"
        /\ <<pc[p], hand[p]>>' # <<pc[p], hand[p]>>
        =>  \/ hand'[p].source > hand[p].source
            \/ /\ hand'[p].source = hand[p].source
               /\ hand'[p].attempt > hand[p].attempt]_vars

-----------------------------------------------------------------------------
(* The inductive invariant behind the safety properties.                   *)

InstallSteps == {"check", "look", "extract", "finish", "commit", "discard", "restore"}
                    \cup Downloading
Inventory == {"inventory-read", "inventory-write"}

Imports(p) == hand[p].op = "import"

HoldsInstall(p) ==
    pc[p] \in InstallSteps \/ (pc[p] = "want-download" /\ ~Imports(p))

LocksAreHeld ==
    \A p \in Procs :
        /\ HoldsInstall(p) => installer[hand[p].id] = p
        /\ pc[p] \in Downloading \cup {"copy"} => downloader[hand[p].digest] = p

StepOfOp(p) ==
    /\ pc[p] = "copy" => Imports(p)
    /\ pc[p] = "inventory-write" => hand[p].receipt # None
    /\ pc[p] # "idle" =>
        IF Imports(p)
        THEN pc[p] \in {"want-download", "copy"} /\ hand[p].digest \in Digests
        ELSE hand[p].op \in {"install", "repair"} /\ hand[p].id \in Identities

\* Nothing is staged yet that is published, and every earlier layer is staged.
Fetching(p) == pc[p] \in Downloading \cup {"want-download", "extract"} /\ ~Imports(p)

LayersAreStaged(p) ==
    LET i == hand[p].id
        n == hand[p].layer
        staged == hand[p].staged
    IN
    /\ pc[p] \in {"want-install", "check", "look"} => staged = {}
    /\ Fetching(p) =>
        /\ n \in 1 .. Len(Requests[i].layers) /\ hand[p].digest = Layer(i, n).digest
        /\ staged = Staged(i, n - 1) /\ staged # Refused
    /\ At(p, "finish") => staged = Staged(i, Len(Requests[i].layers))
    /\ At(p, "commit") =>
        /\ staged = Payload(i)
        /\ HasFiles(staged, Requests[i].required \cup Requests[i].aliases)

FetchedIsCached(p) == At(p, "drop-partial") => cache[hand[p].digest] = "good"

\* Nobody but the holder of its lock puts anything where an installation goes,
\* or takes it away, and what is repaired is in one place.
PlaceIsKnown(p) ==
    LET found == installs[hand[p].id] IN
    /\ Fetching(p) \/ pc[p] \in {"finish", "commit"} => found = None
    /\ quarantine[p] # None =>
        /\ HoldsInstall(p) /\ pc[p] # "check" /\ hand[p].op = "repair"
        /\ hand[p].id \notin Inventoried
        /\ found = IF At(p, "discard") THEN Whole(hand[p].id) ELSE None
    /\ pc[p] \in Inventory => hand[p].id \in Inventoried
    /\ At(p, "inventory-write") =>
        /\ found # None /\ found.receipt # None
        /\ hand[p].receipt = [found.receipt EXCEPT !.commands = TRUE]

\* Where no receipt is completed that a repair is about to replace.
InventoriedAreWhole(disk_installs) ==
    \A i \in Inventoried :
        LET found == disk_installs[i] IN
        found # None /\ found.receipt # None => Reusable(i, found) /\ Undamaged(i, found)

DownloadsAreKnown ==
    /\ TypeOK
    /\ LocksAreHeld
    /\ DownloadsAgree
    /\ \A p \in Procs : StepOfOp(p) /\ LayersAreStaged(p) /\ FetchedIsCached(p)

InstallsAreKnown ==
    /\ InventoriedAreWhole(installs)
    /\ \A p \in Procs : PlaceIsKnown(p)

IInv == DownloadsAreKnown /\ InstallsAreKnown
=============================================================================
