------------------------- MODULE InstallerProofs -------------------------
(***************************************************************************)
(* Proofs about Installer, for every number of commands, sources,          *)
(* attempts, layers and archives.                                          *)
(*                                                                         *)
(* The download half of the invariant, DownloadsAreKnown, is inductive by  *)
(* itself and holds whatever is on disk.  The other half, InstallsAreKnown,*)
(* needs a disk on which no receipt that is completed without the lock of  *)
(* its installation is in a directory that a repair replaces: the theorems *)
(* that rest on it state this as their hypothesis.                         *)
(***************************************************************************)
EXTENDS Installer, TLAPS, WellFoundedInduction

\* A set of numbers that is not empty has a least one.
LEMMA LeastNumber ==
    ASSUME NEW S \in SUBSET Nat, S # {}
    PROVE  \E m \in S : \A k \in S : m <= k
<1>1. PICK m \in S : \A k \in S : ~(<<k, m>> \in OpToRel(<, Nat))
  BY NatLessThanWellFounded, WFMin
<1>2. ASSUME NEW k \in S PROVE m <= k
  <2>1. ~(k < m)
    BY <1>1 DEF OpToRel
  <2> QED BY <2>1
<1> QED BY <1>2

\* What is staged after a layer is that layer on top of the earlier ones.
LEMMA StagesAreDefined ==
    ASSUME NEW i \in Identities
    PROVE  \A n \in 0 .. Len(Requests[i].layers) :
              Staged(i, n) = IF n = 0 THEN {} ELSE Add(i, n, Staged(i, n - 1))
<1> DEFINE N == Len(Requests[i].layers)
           Made(f, k) == f = [n \in 0 .. k |-> IF n = 0 THEN {} ELSE Add(i, n, f[n - 1])]
<1>1. N \in Nat
  BY InstallerAssumption
<1> HIDE DEF N
<1>2. \A k \in 0 .. N : \E f : Made(f, k)
  <2> DEFINE Bad == {k \in 0 .. N : ~ \E f : Made(f, k)}
  <2> SUFFICES ASSUME Bad # {} PROVE FALSE
    OBVIOUS
  <2>1. PICK k \in Bad : \A j \in Bad : k <= j
    <3>1. Bad \in SUBSET Nat
      BY <1>1
    <3> QED BY <3>1, LeastNumber
  <2>2. k \in 0 .. N /\ ~ \E f : Made(f, k)
    BY <2>1
  <2>3. k # 0
    <3>1. Made([n \in 0 .. 0 |-> {}], 0)
      OBVIOUS
    <3> QED BY <2>2, <3>1
  <2>4. k - 1 \in 0 .. N /\ k - 1 \notin Bad
    <3>1. k - 1 \in 0 .. N /\ ~(k <= k - 1)
      BY <1>1, <2>2, <2>3
    <3> HIDE DEF Bad
    <3> QED BY <2>1, <3>1
  <2>5. PICK f : Made(f, k - 1)
    BY <2>4
  <2>6. Made([n \in 0 .. k |-> IF n = k THEN Add(i, k, f[k - 1]) ELSE f[n]], k)
    <3> DEFINE g == [n \in 0 .. k |-> IF n = k THEN Add(i, k, f[k - 1]) ELSE f[n]]
    <3>1. \A n \in 0 .. k - 1 : g[n] = IF n = 0 THEN {} ELSE Add(i, n, g[n - 1])
      <4>1. \A n \in 0 .. k - 1 : f[n] = IF n = 0 THEN {} ELSE Add(i, n, f[n - 1])
        BY <2>5
      <4>2. \A n \in 0 .. k - 1 : g[n] = f[n] /\ (n # 0 => g[n - 1] = f[n - 1])
        BY <1>1, <2>2
      <4> HIDE DEF g
      <4> QED BY <4>1, <4>2
    <3>2. g[k] = Add(i, k, g[k - 1])
      BY <1>1, <2>2, <2>3
    <3>3. g = [n \in 0 .. k |-> g[n]]
      OBVIOUS
    <3> HIDE DEF g
    <3>4. \A n \in 0 .. k : g[n] = IF n = 0 THEN {} ELSE Add(i, n, g[n - 1])
      <4> TAKE n \in 0 .. k
      <4>1. n = k \/ n \in 0 .. k - 1
        BY <1>1, <2>2
      <4> QED BY <2>3, <3>1, <3>2, <4>1
    <3>5. Made(g, k)
      BY <3>3, <3>4
    <3> QED BY <3>5 DEF g
  <2> QED BY <2>2, <2>6
<1>3. PICK f : Made(f, N)
  <2>1. N \in 0 .. N
    BY <1>1
  <2> HIDE DEF Made
  <2> QED BY <1>2, <2>1
<1>4. Made(Stages(i), N)
  BY <1>3 DEF Stages, N
<1> QED BY <1>1, <1>4 DEF Staged, N

-----------------------------------------------------------------------------
(* Types.                                                                  *)

Step(p) == StartInstall(p) \/ StartImport(p) \/ Locking(p) \/ Running(p) \/ Die(p)

\* The limits, and what a command has in its hand.
LEMMA Bounds ==
    /\ Sources \in Nat \ {0} /\ MaxAttempts \in Nat \ {0} /\ MaxStalled \in Nat \ {0}
    /\ Size \in Nat \ {0} /\ MaxDownload \in Nat /\ Size <= MaxDownload /\ MaxDeaths \in Nat
  BY InstallerAssumption

LEMMA PartsType ==
    ASSUME TypeOK, NEW p \in Procs
    PROVE  /\ hand[p] \in Hand
           /\ hand[p].id # None => hand[p].id \in Identities
           /\ hand[p].digest # None => hand[p].digest \in Digests
           /\ \A d \in Digests : Length(d) \in 0 .. MaxDownload + 1
<1>1. \A d \in Digests : Length(d) \in 0 .. MaxDownload + 1
  BY Bounds DEF TypeOK, Length, Partial
<1>2. hand[p] \in Hand
  BY DEF TypeOK
<1> QED BY <1>1, <1>2 DEF Hand

LEMMA HandsType ==
    ASSUME TypeOK, NEW p \in Procs
    PROVE  /\ EmptyHand \in Hand
           /\ \A op \in Ops, id \in Identities \cup {None}, d \in Digests \cup {None} :
                [EmptyHand EXCEPT !.op = op, !.id = id] \in Hand
                /\ [EmptyHand EXCEPT !.op = op, !.digest = d] \in Hand
           /\ Fetched(p) \in Hand
<1>1. EmptyHand \in Hand
  <2>1. {} \in Contents
    BY DEF Contents
  <2> QED BY <2>1, Bounds DEF EmptyHand, Hand, Ops
<1>2. ASSUME NEW op \in Ops, NEW id \in Identities \cup {None}, NEW d \in Digests \cup {None}
      PROVE  /\ [EmptyHand EXCEPT !.op = op, !.id = id] \in Hand
             /\ [EmptyHand EXCEPT !.op = op, !.digest = d] \in Hand
  BY <1>1 DEF Hand
<1>3. Fetched(p) \in Hand
  <2>1. hand[p] \in Hand
    BY PartsType
  <2>2. 0 \in 0 .. Sources /\ 0 \in 0 .. MaxAttempts /\ 0 \in 0 .. MaxStalled
        /\ 0 \in 0 .. MaxDownload + 1 /\ 0 \in 0 .. MaxDownload
    BY Bounds
  <2> QED BY <2>1, <2>2 DEF Hand, Fetched
<1> QED BY <1>1, <1>2, <1>3

\* However a command ends, gives up or starts over.
LEMMA ReturnType ==
    ASSUME TypeOK, NEW p \in Procs, Return(p)
    PROVE  /\ installer' \in [Identities -> Procs \cup {None}]
           /\ downloader' \in [Digests -> Procs \cup {None}]
           /\ pc' \in [Procs -> Steps] /\ hand' \in [Procs -> Hand]
  BY HandsType DEF TypeOK, Return, Unlock, Goto, Steps

LEMMA FailType ==
    ASSUME TypeOK, NEW p \in Procs, Fail(p)
    PROVE  /\ installer' \in [Identities -> Procs \cup {None}]
           /\ downloader' \in [Digests -> Procs \cup {None}]
           /\ pc' \in [Procs -> Steps] /\ hand' \in [Procs -> Hand]
<1>1. CASE hand[p].op \in {"install", "repair"}
  <2>1. [EmptyHand EXCEPT !.op = hand[p].op, !.id = hand[p].id] \in Hand
    BY PartsType, HandsType DEF Hand
  <2> QED BY <1>1, <2>1 DEF TypeOK, Fail, Goto, Steps
<1>2. CASE hand[p].op \notin {"install", "repair"}
  BY <1>2, ReturnType DEF Fail
<1> QED BY <1>1, <1>2

LEMMA RetryType ==
    ASSUME TypeOK, NEW p \in Procs, NEW length \in 0 .. MaxDownload + 1, Retry(p, length)
    PROVE  /\ installer' \in [Identities -> Procs \cup {None}]
           /\ downloader' \in [Digests -> Procs \cup {None}]
           /\ pc' \in [Procs -> Steps] /\ hand' \in [Procs -> Hand]
<1> DEFINE stalled == IF length > hand[p].before THEN 0 ELSE hand[p].stalled + 1
<1>1. hand[p] \in Hand
  BY PartsType
<1>2. CASE hand[p].attempt < MaxAttempts /\ stalled < MaxStalled
  <2>1. [hand[p] EXCEPT !.attempt = @ + 1, !.stalled = stalled, !.before = length] \in Hand
    <3>1. stalled \in 0 .. MaxStalled /\ hand[p].attempt + 1 \in 0 .. MaxAttempts
      BY <1>1, <1>2, Bounds DEF Hand
    <3> HIDE DEF stalled
    <3> QED BY <1>1, <3>1 DEF Hand
  <2>2. hand' = [hand EXCEPT ![p] = [hand[p] EXCEPT !.attempt = @ + 1, !.stalled = stalled,
                                                    !.before = length]]
    BY <1>2 DEF Retry
  <2> QED BY <1>2, <2>1, <2>2 DEF Retry, TypeOK, Goto, Steps
<1>3. CASE ~(hand[p].attempt < MaxAttempts /\ stalled < MaxStalled) /\ hand[p].source < Sources
  <2>1. [hand[p] EXCEPT !.source = @ + 1, !.attempt = 1, !.stalled = 0, !.before = length] \in Hand
    <3>1. hand[p].source + 1 \in 0 .. Sources /\ 1 \in 0 .. MaxAttempts /\ 0 \in 0 .. MaxStalled
      BY <1>1, <1>3, Bounds DEF Hand
    <3> QED BY <1>1, <3>1 DEF Hand
  <2>2. hand' = [hand EXCEPT ![p] = [hand[p] EXCEPT !.source = @ + 1, !.attempt = 1, !.stalled = 0,
                                                    !.before = length]]
    BY <1>3 DEF Retry
  <2> QED BY <1>3, <2>1, <2>2 DEF Retry, TypeOK, Goto, Steps
<1>4. CASE ~(hand[p].attempt < MaxAttempts /\ stalled < MaxStalled) /\ ~(hand[p].source < Sources)
  BY <1>4, FailType DEF Retry
<1> QED BY <1>2, <1>3, <1>4

\* The archive that a command is at.
LEMMA DigestType ==
    ASSUME NEW p \in Procs, StepOfOp(p), LayersAreStaged(p),
           pc[p] \in Downloading \cup {"want-download", "extract", "copy"}
    PROVE  hand[p].digest \in Digests
<1>1. CASE Imports(p)
  BY <1>1 DEF StepOfOp, Downloading
<1>2. CASE ~Imports(p)
  <2>1. hand[p].id \in Identities /\ Fetching(p)
    BY <1>2 DEF StepOfOp, Fetching, Downloading
  <2> QED BY <2>1, InstallerAssumption DEF LayersAreStaged, Layer
<1> QED BY <1>1, <1>2

\* What is staged by a layer, and by the aliases.
LEMMA LayerAdded ==
    ASSUME TypeOK, NEW p \in Procs, StepOfOp(p), LayersAreStaged(p), At(p, "extract")
    PROVE  LET i == hand[p].id
               n == hand[p].layer
           IN /\ i \in Identities /\ n \in 1 .. Len(Requests[i].layers)
              /\ Len(Requests[i].layers) \in Nat
              /\ hand[p].digest = Layer(i, n).digest
              /\ Add(i, n, hand[p].staged) = Staged(i, n)
              /\ Staged(i, n) \in Contents
<1> DEFINE i == hand[p].id
           n == hand[p].layer
<1>1. ~Imports(p) /\ Fetching(p) /\ i \in Identities
  BY DEF StepOfOp, Fetching, At
<1>2. /\ n \in 1 .. Len(Requests[i].layers) /\ hand[p].digest = Layer(i, n).digest
      /\ hand[p].staged = Staged(i, n - 1)
  BY <1>1 DEF LayersAreStaged
<1>3. Len(Requests[i].layers) \in Nat
  BY <1>1, InstallerAssumption
<1>4. n \in 0 .. Len(Requests[i].layers) /\ n # 0
  BY <1>2, <1>3
<1>5. Add(i, n, hand[p].staged) = Staged(i, n)
  BY <1>1, <1>2, <1>4, StagesAreDefined
<1>6. Staged(i, n) \in Contents
  BY <1>1, <1>4, DiskAssumption
<1> QED BY <1>1, <1>2, <1>3, <1>5, <1>6

\* The aliases make what is staged the payload.
LEMMA PayloadAdded ==
    ASSUME TypeOK, NEW p \in Procs, StepOfOp(p), LayersAreStaged(p), At(p, "finish")
    PROVE  /\ hand[p].id \in Identities
           /\ Aliased(hand[p].id, hand[p].staged) = Payload(hand[p].id)
           /\ Payload(hand[p].id) \in Contents
<1>1. hand[p].id \in Identities
  BY DEF StepOfOp, At, Imports
<1>2. hand[p].staged = Staged(hand[p].id, Len(Requests[hand[p].id].layers))
  BY DEF LayersAreStaged
<1>3. Payload(hand[p].id) \in Contents
  BY <1>1, DiskAssumption
<1> QED BY <1>1, <1>2, <1>3 DEF Payload

\* What is published is an installation.
LEMMA WholeType ==
    ASSUME NEW i \in Identities
    PROVE  Whole(i) \in Installations /\ Receipt(Payload(i)) \in Receipts
  BY DiskAssumption DEF Whole, Receipt, Installations, Receipts

\* What an installation directory becomes when its receipt is completed.
LEMMA CompletedType ==
    ASSUME NEW r \in Receipts, NEW found \in Installations
    PROVE  /\ [found EXCEPT !.receipt = r] \in Installations
           /\ [r EXCEPT !.commands = TRUE] \in Receipts
  BY DEF Installations, Receipts

\* A command starts, or takes a lock.
LEMMA StartType ==
    ASSUME TypeOK, NEW p \in Procs, StartInstall(p) \/ StartImport(p) \/ Locking(p)
    PROVE  TypeOK'
<1>1. CASE StartInstall(p)
  <2>1. PICK i \in Identities, op \in {"install", "repair"} :
          hand' = [hand EXCEPT ![p] = [EmptyHand EXCEPT !.op = op, !.id = i]]
    BY <1>1 DEF StartInstall
  <2>2. [EmptyHand EXCEPT !.op = op, !.id = i] \in Hand
    BY HandsType DEF Ops
  <2>3. hand' \in [Procs -> Hand]
    BY <2>1, <2>2 DEF TypeOK
  <2> QED BY <1>1, <2>3 DEF StartInstall, TypeOK, disk, Goto, Steps
<1>2. CASE StartImport(p)
  <2>1. PICK d \in Digests :
          hand' = [hand EXCEPT ![p] = [EmptyHand EXCEPT !.op = "import", !.digest = d]]
    BY <1>2 DEF StartImport
  <2>2. [EmptyHand EXCEPT !.op = "import", !.digest = d] \in Hand
    BY HandsType DEF Ops
  <2>3. hand' \in [Procs -> Hand]
    BY <2>1, <2>2 DEF TypeOK
  <2> QED BY <1>2, <2>3 DEF StartImport, TypeOK, disk, Goto, Steps
<1>3. CASE TakeInstall(p) \/ TakeDownload(p)
  BY <1>3 DEF TakeInstall, TakeDownload, TypeOK, disk, Goto, Steps
<1> QED BY <1>1, <1>2, <1>3 DEF Locking

\* The download loop.
LEMMA DownloadType ==
    ASSUME TypeOK, NEW p \in Procs, StepOfOp(p), LayersAreStaged(p),
           \/ Cached(p) \/ ConnectFails(p) \/ Connect(p) \/ Reconnect(p) \/ ReceiveStops(p)
           \/ ReceiveTooMuch(p) \/ ReceiveEnds(p) \/ Persist(p) \/ DropPartial(p)
    PROVE  TypeOK'
<1> USE DEF At
<1> DEFINE d == hand[p].digest
<1>1. hand[p] \in Hand /\ Fetched(p) \in Hand
  BY PartsType, HandsType
<1>2. d \in Digests /\ Length(d) \in 0 .. MaxDownload + 1
  <2>1. d \in Digests
    BY DigestType DEF Downloading, Cached, ConnectFails, Connect, Reconnect, ReceiveStops,
       ReceiveTooMuch, ReceiveEnds, Persist, DropPartial
  <2> QED BY <2>1, PartsType
<1>3. hand[p].start \in 0 .. MaxDownload
  BY <1>1 DEF Hand
<1>4. [length |-> 0, good |-> TRUE] \in Partial
  BY Bounds DEF Partial
<1>6. \A n \in 0 .. MaxDownload - hand[p].start : hand[p].start + n \in 0 .. MaxDownload + 1
  BY <1>3, Bounds
<1>7. CASE Cached(p)
  <2>1. [hand[p] EXCEPT !.source = 1, !.attempt = 1, !.stalled = 0, !.before = Length(d)] \in Hand
    <3>1. 1 \in 0 .. Sources /\ 1 \in 0 .. MaxAttempts /\ 0 \in 0 .. MaxStalled
      BY Bounds
    <3> QED BY <1>1, <1>2, <3>1 DEF Hand
  <2>2. hand' \in [Procs -> Hand]
    BY <1>7, <2>1 DEF Cached, TypeOK
  <2> QED BY <1>7, <2>2 DEF Cached, TypeOK, Goto, Steps
<1>8. CASE ConnectFails(p)
  <2>1. Length(d) > MaxDownload => 0 \in 0 .. MaxDownload + 1
    BY Bounds
  <2>2. \/ Fail(p)
        \/ \E length \in 0 .. MaxDownload + 1 : Retry(p, length)
    BY <1>2, <1>8, <2>1 DEF ConnectFails
  <2> QED BY <1>8, <2>2, FailType, RetryType DEF ConnectFails, TypeOK
<1>9. CASE Connect(p)
  <2>1. \A start \in 0 .. MaxDownload : [hand[p] EXCEPT !.start = start] \in Hand
    BY <1>1 DEF Hand
  <2>2. 0 \in 0 .. MaxDownload /\ (~(Length(d) > MaxDownload) => Length(d) \in 0 .. MaxDownload)
    BY <1>2, Bounds
  <2>3. hand' \in [Procs -> Hand]
    BY <1>1, <1>9, <2>1, <2>2 DEF Connect, TypeOK
  <2> QED BY <1>4, <1>9, <2>3 DEF Connect, TypeOK, Goto, Steps
<1>10. CASE Reconnect(p)
  <2>1. [hand[p] EXCEPT !.start = 0] \in Hand
    BY <1>1, Bounds DEF Hand
  <2> QED BY <1>4, <1>10, <2>1 DEF Reconnect, TypeOK, Goto, Steps
<1>11. CASE ReceiveStops(p)
  <2>1. PICK n \in 0 .. MaxDownload - hand[p].start, right \in BOOLEAN :
            /\ partial' = [partial EXCEPT ![d] = Arrived(p, n, right)]
            /\ Retry(p, hand[p].start + n)
    BY <1>11 DEF ReceiveStops
  <2>2. Arrived(p, n, right) \in Partial
    BY <1>6 DEF Arrived, Partial
  <2> QED BY <1>6, <1>11, <2>1, <2>2, RetryType DEF ReceiveStops, TypeOK
<1>12. CASE ReceiveTooMuch(p)
  <2>1. MaxDownload - hand[p].start \in 0 .. MaxDownload - hand[p].start
    BY <1>3, Bounds
  <2>2. Arrived(p, MaxDownload - hand[p].start, FALSE) \in Partial
    BY <1>6, <2>1 DEF Arrived, Partial
  <2> QED BY <1>12, <2>2, FailType DEF ReceiveTooMuch, TypeOK
<1>13. CASE ReceiveEnds(p)
  <2>1. \A n \in 0 .. MaxDownload - hand[p].start, right \in BOOLEAN : Arrived(p, n, right) \in Partial
    BY <1>6 DEF Arrived, Partial
  <2>2. CASE Fail(p) /\ partial' = [partial EXCEPT ![d] = None]
    BY <1>13, <2>2, FailType DEF ReceiveEnds, TypeOK
  <2>3. CASE ~(Fail(p) /\ partial' = [partial EXCEPT ![d] = None])
    <3>1. PICK n \in 0 .. MaxDownload - hand[p].start, right \in BOOLEAN :
              /\ partial' = [partial EXCEPT ![d] = Arrived(p, n, right)]
              /\ Goto(p, "persist")
              /\ hand' = [hand EXCEPT ![p] = Fetched(p)]
              /\ UNCHANGED <<installer, downloader>>
      BY <1>13, <2>3 DEF ReceiveEnds
    <3>2. hand' \in [Procs -> Hand] /\ partial' \in [Digests -> Partial \cup {None}]
      BY <1>1, <2>1, <3>1 DEF TypeOK
    <3> QED BY <1>13, <3>1, <3>2 DEF ReceiveEnds, TypeOK, Goto, Steps
  <2> QED BY <2>2, <2>3
<1>14. CASE Persist(p)
  BY <1>14 DEF Persist, TypeOK, Goto, Steps
<1>15. CASE DropPartial(p)
  BY <1>1, <1>15 DEF DropPartial, TypeOK, Goto, Steps
<1> QED BY <1>7, <1>8, <1>9, <1>10, <1>11, <1>12, <1>13, <1>14, <1>15

\* From the first look to the rename, and what is done with the quarantine.
LEMMA PublishType ==
    ASSUME TypeOK, NEW p \in Procs, StepOfOp(p), LayersAreStaged(p),
           \/ Check(p) \/ Look(p) \/ ExtractLayer(p) \/ Finish(p) \/ Commit(p) \/ Discard(p)
           \/ Restore(p)
    PROVE  TypeOK'
<1> USE DEF At
<1> DEFINE i == hand[p].id
<1>1. hand[p] \in Hand
  BY PartsType
<1>2. i \in Identities
  BY DEF StepOfOp, Check, Look, ExtractLayer, Finish, Commit, Discard, Restore, Imports
<1>3. \A n \in 1 .. Len(Requests[i].layers) : Layer(i, n).digest \in Digests /\ n \in Nat
  BY <1>2, InstallerAssumption DEF Layer
<1>4. CASE Check(p)
  BY <1>2, <1>4, ReturnType DEF Check, TypeOK, disk, Goto, Steps
<1>5. CASE Look(p)
  <2>1. CASE installs[i] = None
    <3>1. 1 \in 1 .. Len(Requests[i].layers)
      BY <1>2, InstallerAssumption
    <3>2. [hand[p] EXCEPT !.layer = 1, !.digest = Layer(i, 1).digest] \in Hand
      BY <1>1, <1>3, <3>1 DEF Hand
    <3> QED BY <1>5, <2>1, <3>2 DEF Look, TypeOK, disk, Goto, Steps
  <2>2. CASE installs[i] # None
    BY <1>5, <2>2, FailType DEF Look, TypeOK, disk, Goto, Steps
  <2> QED BY <2>1, <2>2
<1>6. CASE ExtractLayer(p)
  <2>1. CASE Fail(p)
    BY <1>6, <2>1, FailType DEF ExtractLayer, TypeOK, disk
  <2>2. CASE ~Fail(p)
    <3> DEFINE n == hand[p].layer
    <3>1. /\ n \in 1 .. Len(Requests[i].layers) /\ Len(Requests[i].layers) \in Nat
          /\ Add(i, n, hand[p].staged) = Staged(i, n) /\ Staged(i, n) \in Contents
      BY <1>6, LayerAdded DEF ExtractLayer
    <3>2. cache[Layer(i, n).digest] = "good"
      BY <1>6, <2>2 DEF ExtractLayer
    <3>3. CASE n < Len(Requests[i].layers)
      <4>1. n + 1 \in 1 .. Len(Requests[i].layers)
        BY <3>1, <3>3
      <4>2. [hand[p] EXCEPT !.staged = Staged(i, n), !.layer = n + 1,
                            !.digest = Layer(i, n + 1).digest] \in Hand
        BY <1>1, <1>3, <3>1, <4>1 DEF Hand
      <4>3. hand' = [hand EXCEPT ![p] = [hand[p] EXCEPT !.staged = Staged(i, n), !.layer = n + 1,
                                                    !.digest = Layer(i, n + 1).digest]]
        BY <1>6, <2>2, <3>1, <3>2, <3>3 DEF ExtractLayer
      <4> QED BY <1>6, <2>2, <3>3, <4>2, <4>3 DEF ExtractLayer, TypeOK, disk, Goto, Steps
    <3>4. CASE ~(n < Len(Requests[i].layers))
      <4>1. [hand[p] EXCEPT !.staged = Staged(i, n)] \in Hand
        BY <1>1, <3>1 DEF Hand
      <4>2. hand' = [hand EXCEPT ![p] = [hand[p] EXCEPT !.staged = Staged(i, n)]]
        BY <1>6, <2>2, <3>1, <3>2, <3>4 DEF ExtractLayer
      <4> QED BY <1>6, <2>2, <3>4, <4>1, <4>2 DEF ExtractLayer, TypeOK, disk, Goto, Steps
    <3> QED BY <3>3, <3>4
  <2> QED BY <2>1, <2>2
<1>7. CASE Finish(p)
  <2>1. CASE Fail(p)
    BY <1>7, <2>1, FailType DEF Finish, TypeOK, disk
  <2>2. CASE ~Fail(p)
    <3>1. Aliased(i, hand[p].staged) \in Contents
      BY <1>7, PayloadAdded DEF Finish
    <3>2. [hand[p] EXCEPT !.staged = Aliased(i, @)] \in Hand
      BY <1>1, <3>1 DEF Hand
    <3> QED BY <1>7, <2>2, <3>2 DEF Finish, TypeOK, disk, Goto, Steps
  <2> QED BY <2>1, <2>2
<1>8. CASE Commit(p)
  <2>1. CASE installs[i] # None
    BY <1>8, <2>1, FailType DEF Commit, TypeOK
  <2>2. CASE installs[i] = None
    <3>1. hand[p].staged = Payload(i)
      BY <1>8 DEF Commit, LayersAreStaged
    <3>2. installs' = [installs EXCEPT ![i] = Whole(i)]
      BY <1>8, <2>2, <3>1 DEF Commit, Whole
    <3>3. [EmptyHand EXCEPT !.op = hand[p].op, !.id = i] \in Hand
      BY <1>1, <1>2, HandsType DEF Hand
    <3> QED BY <1>2, <1>8, <2>2, <3>2, <3>3, WholeType DEF Commit, TypeOK, Goto, Steps
  <2> QED BY <2>1, <2>2
<1>9. CASE Discard(p)
  <2>1. CASE Return(p)
    BY <1>9, <2>1, ReturnType DEF Discard, TypeOK
  <2>2. CASE ~Return(p)
    BY <1>9, <2>2 DEF Discard, TypeOK, Goto, Steps
  <2> QED BY <2>1, <2>2
<1>10. CASE Restore(p)
  BY <1>2, <1>10, ReturnType DEF Restore, TypeOK
<1> QED BY <1>4, <1>5, <1>6, <1>7, <1>8, <1>9, <1>10

\* Completing a receipt, filling the cache and dying.
LEMMA OtherType ==
    ASSUME TypeOK, NEW p \in Procs, StepOfOp(p), LayersAreStaged(p),
           InventoryRead(p) \/ InventoryWrite(p) \/ Copy(p) \/ Die(p)
    PROVE  TypeOK'
<1> USE DEF At
<1> DEFINE i == hand[p].id
<1>1. hand[p] \in Hand
  BY PartsType
<1>2. CASE InventoryRead(p)
  <2>1. CASE Return(p)
    BY <1>2, <2>1, ReturnType DEF InventoryRead, TypeOK, disk
  <2>2. CASE ~Return(p)
    <3>1. i \in Identities /\ installs[i] # None /\ installs[i].receipt # None
      BY <1>2, <2>2 DEF InventoryRead, StepOfOp, Imports
    <3>2. installs[i].receipt \in Receipts
      BY <3>1 DEF TypeOK, Installations
    <3>3. [installs[i].receipt EXCEPT !.commands = TRUE] \in Receipts
      BY <3>2 DEF Receipts
    <3>4. [hand[p] EXCEPT !.receipt = [installs[i].receipt EXCEPT !.commands = TRUE]] \in Hand
      BY <1>1, <3>3 DEF Hand
    <3> QED BY <1>2, <2>2, <3>4 DEF InventoryRead, TypeOK, disk, Goto, Steps
  <2> QED BY <2>1, <2>2
<1>3. CASE InventoryWrite(p)
  <2>1. i \in Identities /\ hand[p].receipt \in Receipts
    BY <1>1, <1>3 DEF InventoryWrite, StepOfOp, Imports, Hand
  <2>2. installs' \in [Identities -> Installations \cup {None}]
    <3>1. CASE installs[i] = None
      <4>1. [files |-> {}, intact |-> TRUE, receipt |-> hand[p].receipt] \in Installations
        <5>1. {} \in Contents
          BY DEF Contents
        <5> QED BY <2>1, <5>1 DEF Installations
      <4>2. installs' = [installs EXCEPT ![i] =
                            [files |-> {}, intact |-> TRUE, receipt |-> hand[p].receipt]]
        BY <1>3, <3>1 DEF InventoryWrite
      <4> QED BY <4>1, <4>2 DEF TypeOK
    <3>2. CASE installs[i] # None
      <4>1. installs[i] \in Installations
        BY <2>1, <3>2 DEF TypeOK
      <4>2. [installs[i] EXCEPT !.receipt = hand[p].receipt] \in Installations
        BY <2>1, <4>1, CompletedType
      <4>3. installs' = [installs EXCEPT ![i] = [installs[i] EXCEPT !.receipt = hand[p].receipt]]
        BY <1>3, <3>2 DEF InventoryWrite
      <4> QED BY <4>2, <4>3 DEF TypeOK
    <3> QED BY <3>1, <3>2
  <2> QED BY <1>3, <2>2, ReturnType DEF InventoryWrite, TypeOK
<1>4. CASE Copy(p)
  <2>1. cache' \in [Digests -> {None, "good", "bad"}]
    BY <1>4 DEF Copy, TypeOK
  <2> QED BY <1>4, <2>1, ReturnType DEF Copy, TypeOK
<1>5. CASE Die(p)
  <2>1. deaths' \in 0 .. MaxDeaths
    BY <1>5, Bounds DEF Die, TypeOK
  <2> QED BY <1>5, <2>1, ReturnType DEF Die, TypeOK
<1> QED BY <1>2, <1>3, <1>4, <1>5

\* A step of one command keeps the types.
LEMMA StepType ==
    ASSUME TypeOK, NEW p \in Procs, StepOfOp(p), LayersAreStaged(p), Step(p)
    PROVE  TypeOK'
  BY StartType, DownloadType, PublishType, OtherType DEF Step, Running

-----------------------------------------------------------------------------
(* Locks, and which command is at which step.                              *)

\* Who is back at the start, and who gives back what is in quarantine.
LEMMA Idle ==
    ASSUME TypeOK, NEW p \in Procs, Return(p)
    PROVE  /\ pc'[p] = "idle" /\ hand'[p] = EmptyHand
           /\ \A q \in Procs \ {p} : pc'[q] = pc[q] /\ hand'[q] = hand[q]
           /\ \A i \in Identities, q \in Procs \ {p} : installer'[i] = q <=> installer[i] = q
           /\ \A d \in Digests, q \in Procs \ {p} : downloader'[d] = q <=> downloader[d] = q
  BY InstallerAssumption DEF Return, Unlock, Goto, TypeOK

\* After an error an install is left only what it needs to give back what it moved.
LEMMA Failed ==
    ASSUME TypeOK, NEW p \in Procs, Fail(p)
    PROVE  /\ \A q \in Procs \ {p} : pc'[q] = pc[q] /\ hand'[q] = hand[q]
           /\ \A i \in Identities, q \in Procs \ {p} : installer'[i] = q <=> installer[i] = q
           /\ \A d \in Digests, q \in Procs \ {p} : downloader'[d] = q <=> downloader[d] = q
           /\ \/ /\ Return(p) /\ hand[p].op \notin {"install", "repair"}
              \/ /\ hand[p].op \in {"install", "repair"} /\ pc'[p] = "restore"
                 /\ hand'[p].op = hand[p].op /\ hand'[p].id = hand[p].id
                 /\ UNCHANGED installer
<1>1. CASE hand[p].op \in {"install", "repair"}
  <2>1. hand'[p] = [EmptyHand EXCEPT !.op = hand[p].op, !.id = hand[p].id]
    BY <1>1 DEF Fail, TypeOK
  <2>2. hand'[p].op = hand[p].op /\ hand'[p].id = hand[p].id
    BY <2>1 DEF EmptyHand
  <2>3. /\ pc'[p] = "restore" /\ UNCHANGED installer
        /\ \A q \in Procs \ {p} : pc'[q] = pc[q] /\ hand'[q] = hand[q]
    BY <1>1 DEF Fail, Goto, TypeOK
  <2>4. \A d \in Digests, q \in Procs \ {p} : downloader'[d] = q <=> downloader[d] = q
    BY <1>1, InstallerAssumption DEF Fail
  <2> QED BY <1>1, <2>2, <2>3, <2>4
<1>2. CASE hand[p].op \notin {"install", "repair"}
  BY <1>2, Idle DEF Fail
<1> QED BY <1>1, <1>2

\* A download that starts over keeps its place and uses up an attempt or a source.
LEMMA Retried ==
    ASSUME TypeOK, NEW p \in Procs, NEW length \in 0 .. MaxDownload + 1, Retry(p, length)
    PROVE  \/ Fail(p)
           \/ /\ pc'[p] = "connect" /\ UNCHANGED <<installer, downloader>>
              /\ \A q \in Procs \ {p} : pc'[q] = pc[q] /\ hand'[q] = hand[q]
              /\ hand'[p].op = hand[p].op /\ hand'[p].id = hand[p].id
              /\ hand'[p].digest = hand[p].digest /\ hand'[p].layer = hand[p].layer
              /\ hand'[p].staged = hand[p].staged /\ hand'[p].receipt = hand[p].receipt
              /\ \/ hand'[p].source = hand[p].source /\ hand'[p].attempt = hand[p].attempt + 1
                 \/ hand'[p].source = hand[p].source + 1
<1> DEFINE stalled == IF length > hand[p].before THEN 0 ELSE hand[p].stalled + 1
<1>1. hand[p] \in Hand
  BY PartsType
<1>2. CASE hand[p].attempt < MaxAttempts /\ stalled < MaxStalled
  <2>1. hand'[p] = [hand[p] EXCEPT !.attempt = @ + 1, !.stalled = stalled, !.before = length]
    BY <1>2 DEF Retry, TypeOK
  <2> HIDE DEF stalled
  <2>2. /\ hand'[p].op = hand[p].op /\ hand'[p].id = hand[p].id
        /\ hand'[p].digest = hand[p].digest /\ hand'[p].layer = hand[p].layer
        /\ hand'[p].staged = hand[p].staged /\ hand'[p].receipt = hand[p].receipt
        /\ hand'[p].source = hand[p].source /\ hand'[p].attempt = hand[p].attempt + 1
    BY <1>1, <2>1 DEF Hand
  <2> USE DEF stalled
  <2>3. /\ pc'[p] = "connect" /\ UNCHANGED <<installer, downloader>>
        /\ \A q \in Procs \ {p} : pc'[q] = pc[q] /\ hand'[q] = hand[q]
    BY <1>2 DEF Retry, Goto, TypeOK
  <2> QED BY <2>2, <2>3
<1>3. CASE ~(hand[p].attempt < MaxAttempts /\ stalled < MaxStalled) /\ hand[p].source < Sources
  <2>1. hand'[p] = [hand[p] EXCEPT !.source = @ + 1, !.attempt = 1, !.stalled = 0, !.before = length]
    BY <1>3 DEF Retry, TypeOK
  <2>2. /\ hand'[p].op = hand[p].op /\ hand'[p].id = hand[p].id
        /\ hand'[p].digest = hand[p].digest /\ hand'[p].layer = hand[p].layer
        /\ hand'[p].staged = hand[p].staged /\ hand'[p].receipt = hand[p].receipt
        /\ hand'[p].source = hand[p].source + 1
    BY <1>1, <2>1 DEF Hand
  <2>3. /\ pc'[p] = "connect" /\ UNCHANGED <<installer, downloader>>
        /\ \A q \in Procs \ {p} : pc'[q] = pc[q] /\ hand'[q] = hand[q]
    BY <1>3 DEF Retry, Goto, TypeOK
  <2> QED BY <2>2, <2>3
<1> QED BY <1>2, <1>3 DEF Retry

\* One attempt ends without the archive.
LEMMA AttemptEnds ==
    ASSUME TypeOK, NEW p \in Procs, StepOfOp(p), LayersAreStaged(p), ConnectFails(p) \/ ReceiveStops(p)
    PROVE  Fail(p) \/ \E length \in 0 .. MaxDownload + 1 : Retry(p, length)
<1>1. CASE ConnectFails(p)
  <2>1. Length(hand[p].digest) \in 0 .. MaxDownload + 1
    BY <1>1, DigestType, PartsType DEF ConnectFails, Downloading
  <2>2. Length(hand[p].digest) > MaxDownload => 0 \in 0 .. MaxDownload + 1
    BY Bounds
  <2> QED BY <1>1, <2>1, <2>2 DEF ConnectFails
<1>2. CASE ReceiveStops(p)
  <2>1. hand[p].start \in 0 .. MaxDownload
    BY PartsType DEF Hand
  <2>2. \A n \in 0 .. MaxDownload - hand[p].start : hand[p].start + n \in 0 .. MaxDownload + 1
    BY <2>1, Bounds
  <2> QED BY <1>2, <2>2 DEF ReceiveStops
<1> QED BY <1>1, <1>2

\* A step of one command leaves the others where they are, with the locks that they hold.
LEMMA OthersStay ==
    ASSUME TypeOK, LocksAreHeld, NEW p \in Procs, StepOfOp(p), LayersAreStaged(p), Step(p)
    PROVE  /\ \A q \in Procs \ {p} :
                pc'[q] = pc[q] /\ hand'[q] = hand[q] /\ quarantine'[q] = quarantine[q]
           /\ \A i \in Identities, q \in Procs \ {p} : installer[i] = q => installer'[i] = q
           /\ \A d \in Digests, q \in Procs \ {p} : downloader[d] = q => downloader'[d] = q
<1> USE DEF At
<1>1. \A q \in Procs \ {p} : quarantine'[q] = quarantine[q]
  <2>1. CASE StartInstall(p) \/ StartImport(p) \/ Locking(p) \/ Die(p)
    BY <2>1 DEF StartInstall, StartImport, Locking, TakeInstall, TakeDownload, Die, disk, TypeOK
  <2>2. CASE Running(p)
    BY <2>2 DEF Running, Check, Look, Cached, ConnectFails, Connect, Reconnect, ReceiveStops,
       ReceiveTooMuch, ReceiveEnds, Persist, DropPartial, ExtractLayer, Finish, Commit, Discard,
       Restore, InventoryRead, InventoryWrite, Copy, disk, TypeOK
  <2> QED BY <2>1, <2>2 DEF Step
<1>2. CASE Return(p) \/ Fail(p)
  BY <1>1, <1>2, Idle, Failed
<1>3. CASE \E length \in 0 .. MaxDownload + 1 : Retry(p, length)
  BY <1>1, <1>2, <1>3, Retried
<1>4. CASE ~Return(p) /\ ~Fail(p) /\ ~(\E length \in 0 .. MaxDownload + 1 : Retry(p, length))
  <2>1. ~ConnectFails(p) /\ ~ReceiveStops(p)
    BY <1>4, AttemptEnds
  <2>2. CASE StartInstall(p) \/ StartImport(p) \/ Locking(p) \/ Die(p)
    <3>1. None \notin Procs
      BY InstallerAssumption
    <3>2. CASE StartInstall(p) \/ StartImport(p)
      <4>1. UNCHANGED <<installer, downloader>> /\ \A q \in Procs \ {p} : pc'[q] = pc[q]
        BY <3>2 DEF StartInstall, StartImport, Goto, TypeOK
      <4>2. \E h : hand' = [hand EXCEPT ![p] = h]
        BY <3>2 DEF StartInstall, StartImport
      <4> QED BY <1>1, <4>1, <4>2 DEF TypeOK
    <3>3. CASE TakeInstall(p)
      BY <1>1, <3>1, <3>3 DEF TakeInstall, Goto, TypeOK
    <3>4. CASE TakeDownload(p)
      BY <1>1, <3>1, <3>4 DEF TakeDownload, Goto, TypeOK
    <3>5. ~Die(p)
      BY <1>4 DEF Die
    <3> QED BY <2>2, <3>2, <3>3, <3>4, <3>5 DEF Locking
  <2>3. CASE Check(p) \/ Look(p) \/ ExtractLayer(p) \/ Finish(p) \/ Commit(p) \/ Restore(p)
    BY <1>1, <1>4, <2>3 DEF Check, Look, ExtractLayer, Finish, Commit, Restore, Goto, TypeOK
  <2>4. CASE Connect(p) \/ Reconnect(p) \/ ReceiveTooMuch(p) \/ ReceiveEnds(p) \/ Persist(p)
    BY <1>1, <1>4, <2>4 DEF Connect, Reconnect, ReceiveTooMuch, ReceiveEnds, Persist, Goto, TypeOK
  <2>5. CASE InventoryRead(p) \/ InventoryWrite(p) \/ Copy(p)
    BY <1>1, <1>4, <2>5 DEF InventoryRead, InventoryWrite, Copy, Goto, TypeOK
  <2>6. CASE Cached(p) \/ DropPartial(p)
    <3>1. downloader[hand[p].digest] = p
      BY <2>6 DEF Cached, DropPartial, LocksAreHeld, Downloading
    <3> QED BY <1>1, <1>4, <2>6, <3>1 DEF Cached, DropPartial, Goto, TypeOK
  <2>7. CASE Discard(p)
    <3>1. installer[hand[p].id] = p
      BY <2>7 DEF Discard, LocksAreHeld, HoldsInstall, InstallSteps
    <3> QED BY <1>1, <1>4, <2>7, <3>1 DEF Discard, Goto, TypeOK
  <2> QED BY <2>1, <2>2, <2>3, <2>4, <2>5, <2>6, <2>7 DEF Step, Running
<1> QED BY <1>2, <1>3, <1>4

-----------------------------------------------------------------------------
(* What a step does to the hand of its command.                            *)

\* Only a command that holds the lock of its installation fails to restore.
LEMMA FailsAt ==
    ASSUME TypeOK, NEW p \in Procs, StepOfOp(p), Step(p), Fail(p), ~Return(p)
    PROVE  pc[p] \in InstallSteps
<1>1. pc'[p] = "restore"
  BY Failed
<1>2. CASE StartInstall(p) \/ StartImport(p) \/ Locking(p) \/ InventoryRead(p) \/ InventoryWrite(p)
           \/ Copy(p) \/ Die(p)
  <2>1. pc'[p] # "restore"
    BY <1>2, Idle DEF StartInstall, StartImport, Locking, TakeInstall, TakeDownload, InventoryRead,
       InventoryWrite, Copy, Die, Goto, TypeOK
  <2> QED BY <1>1, <2>1
<1>3. CASE Running(p) /\ ~InventoryRead(p) /\ ~InventoryWrite(p) /\ ~Copy(p)
  BY <1>3 DEF Running, Check, Look, Cached, ConnectFails, Connect, Reconnect, ReceiveStops,
     ReceiveTooMuch, ReceiveEnds, Persist, DropPartial, ExtractLayer, Finish, Commit, Discard, Restore,
     At, InstallSteps, Downloading
<1> QED BY <1>2, <1>3 DEF Step

-----------------------------------------------------------------------------
(* What a command knows of its locks, its layers and its download.         *)

Agrees(p) ==
    LET d == hand[p].digest IN
    /\ At(p, "persist") => partial[d] = [length |-> Size, good |-> TRUE]
    /\ At(p, "extract") => cache[d] = "good"
    /\ pc[p] \in {"connect", "reconnect", "receive"} => cache[d] = None

Known(p) ==
    /\ HoldsInstall(p) => installer[hand[p].id] = p
    /\ pc[p] \in Downloading \cup {"copy"} => downloader[hand[p].digest] = p
    /\ Agrees(p) /\ StepOfOp(p) /\ LayersAreStaged(p) /\ FetchedIsCached(p)

\* The download half of the invariant is what every command knows.
LEMMA KnownToAll == DownloadsAreKnown <=> TypeOK /\ \A p \in Procs : Known(p)
  BY DEF DownloadsAreKnown, DownloadsAgree, LocksAreHeld, Known, Agrees

\* After an error.
LEMMA ReturnKnows ==
    ASSUME TypeOK, NEW p \in Procs, Return(p)
    PROVE  Known(p)'
<1>1. pc'[p] = "idle"
  BY Idle
<1> QED BY <1>1 DEF Known, Agrees, HoldsInstall, StepOfOp, LayersAreStaged, FetchedIsCached, Fetching, Imports, InstallSteps,
     Downloading, Inventory, At

\* An error, and another attempt.
LEMMA FailKnows ==
    ASSUME TypeOK, NEW p \in Procs, Known(p), Step(p), Fail(p)
    PROVE  Known(p)'
<1>1. CASE Return(p)
  BY <1>1, ReturnKnows
<1>2. CASE ~Return(p)
  <2>1. /\ hand[p].op \in {"install", "repair"} /\ pc'[p] = "restore"
        /\ hand'[p].op = hand[p].op /\ hand'[p].id = hand[p].id
        /\ UNCHANGED installer
    BY <1>2, Failed
  <2>2. pc[p] \in InstallSteps
    BY <1>2, FailsAt DEF Known
  <2> QED BY <2>1, <2>2 DEF Known, Agrees, HoldsInstall, StepOfOp, LayersAreStaged, FetchedIsCached, Fetching, Imports, InstallSteps,
     Downloading, Inventory, At
<1> QED BY <1>1, <1>2

LEMMA RetryKnows ==
    ASSUME TypeOK, NEW p \in Procs, Known(p), Step(p), NEW length \in 0 .. MaxDownload + 1,
           Retry(p, length), UNCHANGED cache, pc[p] \in {"connect", "reconnect", "receive"}
    PROVE  Known(p)'
<1>1. CASE Fail(p)
  BY <1>1, FailKnows
<1>2. CASE ~Fail(p)
  <2>1. /\ pc'[p] = "connect" /\ UNCHANGED <<installer, downloader>>
        /\ hand'[p].op = hand[p].op /\ hand'[p].id = hand[p].id
        /\ hand'[p].digest = hand[p].digest /\ hand'[p].layer = hand[p].layer
        /\ hand'[p].staged = hand[p].staged
    BY <1>2, Retried
  <2> QED BY <2>1 DEF Known, Agrees, HoldsInstall, StepOfOp, LayersAreStaged, FetchedIsCached, Fetching, Imports, InstallSteps,
     Downloading, Inventory, At
<1> QED BY <1>1, <1>2

\* A command starts, or takes a lock.
LEMMA StartKnows ==
    ASSUME TypeOK, NEW p \in Procs, Known(p), StartInstall(p) \/ StartImport(p) \/ Locking(p)
    PROVE  Known(p)'
<1> USE DEF At
<1>1. CASE StartInstall(p)
  <2>1. PICK i \in Identities, op \in {"install", "repair"} :
          hand' = [hand EXCEPT ![p] = [EmptyHand EXCEPT !.op = op, !.id = i]]
    BY <1>1 DEF StartInstall
  <2>2. hand'[p].op = op /\ hand'[p].id = i /\ pc'[p] = "want-install" /\ hand'[p].staged = {}
    BY <1>1, <2>1 DEF StartInstall, EmptyHand, Goto, TypeOK
  <2> QED BY <2>2 DEF Known, Agrees, HoldsInstall, StepOfOp, LayersAreStaged, FetchedIsCached, Fetching, Imports, InstallSteps,
     Downloading, Inventory
<1>2. CASE StartImport(p)
  <2>1. PICK d \in Digests :
          hand' = [hand EXCEPT ![p] = [EmptyHand EXCEPT !.op = "import", !.digest = d]]
    BY <1>2 DEF StartImport
  <2>2. hand'[p].op = "import" /\ hand'[p].digest = d /\ pc'[p] = "want-download"
    BY <1>2, <2>1 DEF StartImport, EmptyHand, Goto, TypeOK
  <2> QED BY <2>2 DEF Known, Agrees, HoldsInstall, StepOfOp, LayersAreStaged, FetchedIsCached, Fetching, Imports, InstallSteps,
     Downloading, Inventory
<1>3. CASE TakeInstall(p)
  <2>1. hand[p].id \in Identities
    BY <1>3 DEF TakeInstall, Known, StepOfOp, Imports
  <2>2. pc'[p] = "check" /\ hand' = hand /\ installer'[hand[p].id] = p
    BY <1>3, <2>1 DEF TakeInstall, Goto, TypeOK
  <2> QED BY <1>3, <2>2 DEF TakeInstall, Known, Agrees, HoldsInstall, StepOfOp, LayersAreStaged, FetchedIsCached, Fetching, Imports, InstallSteps,
     Downloading, Inventory
<1>4. CASE TakeDownload(p)
  <2>1. hand[p].digest \in Digests
    BY <1>4, DigestType DEF TakeDownload, Known
  <2>2. /\ pc'[p] = IF Imports(p) THEN "copy" ELSE "cached"
        /\ hand' = hand /\ downloader'[hand[p].digest] = p /\ UNCHANGED installer
    BY <1>4, <2>1 DEF TakeDownload, Imports, Goto, TypeOK
  <2> QED BY <1>4, <2>2 DEF TakeDownload, Known, Agrees, HoldsInstall, StepOfOp, LayersAreStaged, FetchedIsCached, Fetching, Imports, InstallSteps,
     Downloading, Inventory
<1> QED BY <1>1, <1>2, <1>3, <1>4 DEF Locking

\* A step of the download keeps everything that the download does not need.
LEMMA DownloadGoesOn ==
    ASSUME TypeOK, NEW p \in Procs, Known(p), ~Fail(p),
           \/ Cached(p) \/ ConnectFails(p) \/ Connect(p) \/ Reconnect(p) \/ ReceiveStops(p)
           \/ ReceiveTooMuch(p) \/ ReceiveEnds(p) \/ Persist(p) \/ DropPartial(p)
    PROVE  /\ pc'[p] \in Downloading \cup {"extract"} /\ UNCHANGED installer
           /\ hand'[p].op = hand[p].op /\ hand'[p].id = hand[p].id
           /\ hand'[p].digest = hand[p].digest /\ hand'[p].layer = hand[p].layer
           /\ hand'[p].staged = hand[p].staged
<1> USE DEF At
<1> DEFINE d == hand[p].digest
           Same == /\ hand'[p].op = hand[p].op /\ hand'[p].id = hand[p].id
                   /\ hand'[p].digest = hand[p].digest /\ hand'[p].layer = hand[p].layer
                   /\ hand'[p].staged = hand[p].staged
<1>1. hand[p] \in Hand
  BY PartsType
<1>2. CASE ConnectFails(p) \/ ReceiveStops(p)
  <2>1. PICK length \in 0 .. MaxDownload + 1 : Retry(p, length)
    BY <1>2, AttemptEnds DEF Known
  <2> QED BY <2>1, Retried DEF Downloading
<1>3. CASE Cached(p)
  <2>1. hand' = hand \/ hand'[p] = [hand[p] EXCEPT !.source = 1, !.attempt = 1, !.stalled = 0,
                                                   !.before = Length(d)]
    BY <1>3 DEF Cached, TypeOK
  <2>2. Same
    BY <1>1, <2>1 DEF Hand
  <2> QED BY <1>3, <2>2 DEF Cached, Goto, TypeOK, Downloading
<1>4. CASE Reconnect(p)
  <2>1. hand'[p] = [hand[p] EXCEPT !.start = 0]
    BY <1>4 DEF Reconnect, TypeOK
  <2>2. Same
    BY <1>1, <2>1 DEF Hand
  <2> QED BY <1>4, <2>2 DEF Reconnect, Goto, TypeOK, Downloading
<1>5. /\ Fetched(p).op = hand[p].op /\ Fetched(p).id = hand[p].id /\ Fetched(p).digest = d
      /\ Fetched(p).layer = hand[p].layer /\ Fetched(p).staged = hand[p].staged
  BY <1>1 DEF Fetched, Hand
<1>6. CASE ReceiveEnds(p) \/ DropPartial(p)
  BY <1>5, <1>6 DEF ReceiveEnds, DropPartial, Goto, TypeOK, Downloading
<1>7. CASE Persist(p)
  BY <1>7 DEF Persist, Goto, TypeOK, Downloading
<1>8. CASE Connect(p)
  <2>1. CASE partial[d] = [length |-> Size, good |-> TRUE]
    BY <1>5, <1>8, <2>1 DEF Connect, Goto, TypeOK, Downloading
  <2>2. CASE partial[d] # [length |-> Size, good |-> TRUE] /\ hand' = hand
    BY <1>8, <2>2 DEF Connect, Goto, TypeOK, Downloading
  <2>3. CASE partial[d] # [length |-> Size, good |-> TRUE] /\ hand' # hand
    <3>1. PICK start : hand' = [hand EXCEPT ![p].start = start]
      BY <1>8, <2>3 DEF Connect
    <3>2. hand'[p] = [hand[p] EXCEPT !.start = start]
      BY <3>1 DEF TypeOK
    <3>3. Same
      BY <1>1, <3>2 DEF Hand
    <3> QED BY <1>8, <2>3, <3>3 DEF Connect, Goto, TypeOK, Downloading
  <2> QED BY <2>1, <2>2, <2>3
<1>9. ~ReceiveTooMuch(p)
  BY DEF ReceiveTooMuch
<1> QED BY <1>2, <1>3, <1>4, <1>6, <1>7, <1>8, <1>9

\* The download loop keeps what its command knows.
LEMMA DownloadKnows ==
    ASSUME TypeOK, NEW p \in Procs, Known(p),
           \/ Cached(p) \/ ConnectFails(p) \/ Connect(p) \/ Reconnect(p) \/ ReceiveStops(p)
           \/ ReceiveTooMuch(p) \/ ReceiveEnds(p) \/ Persist(p) \/ DropPartial(p)
    PROVE  Known(p)'
<1> USE DEF At
<1> DEFINE d == hand[p].digest
<1>1. Step(p)
  BY DEF Step, Running
<1>2. /\ ~Imports(p) /\ Fetching(p) /\ pc[p] \in InstallSteps /\ pc[p] \in Downloading
      /\ d \in Digests /\ hand[p] \in Hand
  BY DigestType, PartsType DEF Known, StepOfOp, Cached, ConnectFails, Connect, Reconnect, ReceiveStops,
     ReceiveTooMuch, ReceiveEnds, Persist, DropPartial, Downloading, Fetching, InstallSteps
<1>3. CASE Fail(p)
  BY <1>1, <1>3, FailKnows
<1>4. CASE (ConnectFails(p) \/ ReceiveStops(p)) /\ ~Fail(p)
  <2>1. PICK length \in 0 .. MaxDownload + 1 : Retry(p, length)
    BY <1>4, AttemptEnds DEF Known
  <2> QED BY <1>1, <1>4, <2>1, RetryKnows DEF ConnectFails, ReceiveStops
<1>5. ASSUME ~Fail(p), pc'[p] \in Downloading => UNCHANGED downloader, Agrees(p)', FetchedIsCached(p)'
      PROVE  Known(p)'
  BY <1>2, <1>5, DownloadGoesOn DEF Known, Agrees, HoldsInstall, StepOfOp, LayersAreStaged, FetchedIsCached, Fetching, Imports, InstallSteps,
     Downloading, Inventory
<1>6. ~Fail(p) => hand'[p].digest = d
  BY DownloadGoesOn
<1>7. CASE Cached(p) /\ ~Fail(p)
  <2>1. CASE cache[d] = "good"
    <3>1. pc'[p] = "extract" /\ cache'[d] = "good"
      BY <1>2, <1>7, <2>1 DEF Cached, Goto, TypeOK
    <3> QED BY <1>5, <1>6, <1>7, <3>1 DEF Agrees, FetchedIsCached, Downloading
  <2>2. CASE cache[d] # "good"
    <3>1. pc'[p] = "connect" /\ cache'[d] = None /\ UNCHANGED downloader
      BY <1>2, <1>7, <2>2 DEF Cached, Goto, TypeOK
    <3> QED BY <1>5, <1>6, <1>7, <3>1 DEF Agrees, FetchedIsCached, Downloading
  <2> QED BY <2>1, <2>2
<1>8. CASE Connect(p) /\ ~Fail(p)
  <2>1. cache[d] = None /\ UNCHANGED <<cache, downloader>>
    BY <1>8 DEF Connect, Known, Agrees
  <2>2. CASE partial[d] = [length |-> Size, good |-> TRUE]
    <3>1. pc'[p] = "persist" /\ UNCHANGED partial
      BY <1>8, <2>2 DEF Connect, Goto, TypeOK
    <3> QED BY <1>5, <1>6, <1>8, <2>1, <2>2, <3>1 DEF Agrees, FetchedIsCached
  <2>3. CASE partial[d] # [length |-> Size, good |-> TRUE]
    <3>1. pc'[p] \in {"receive", "reconnect"}
      BY <1>8, <2>3 DEF Connect, Goto, TypeOK
    <3> QED BY <1>5, <1>6, <1>8, <2>1, <3>1 DEF Agrees, FetchedIsCached
  <2> QED BY <2>2, <2>3
<1>9. CASE Reconnect(p) /\ ~Fail(p)
  <2>1. pc'[p] = "receive" /\ cache[d] = None /\ UNCHANGED <<cache, downloader>>
    BY <1>9 DEF Reconnect, Known, Agrees, Goto, TypeOK
  <2> QED BY <1>5, <1>6, <1>9, <2>1 DEF Agrees, FetchedIsCached
<1>10. CASE ReceiveEnds(p) /\ ~Fail(p)
  <2>1. pc'[p] = "persist" /\ partial'[d] = [length |-> Size, good |-> TRUE] /\ UNCHANGED downloader
    BY <1>2, <1>10 DEF ReceiveEnds, Goto, TypeOK
  <2> QED BY <1>5, <1>6, <1>10, <2>1 DEF Agrees, FetchedIsCached
<1>11. CASE Persist(p) /\ ~Fail(p)
  <2>1. partial[d] = [length |-> Size, good |-> TRUE] /\ UNCHANGED <<partial, downloader>>
    BY <1>11 DEF Persist, Known, Agrees
  <2>2. (pc'[p] = "drop-partial" /\ cache'[d] = "good") \/ pc'[p] = "persist"
    BY <1>2, <1>11, <2>1 DEF Persist, Goto, TypeOK
  <2> QED BY <1>5, <1>6, <1>11, <2>1, <2>2 DEF Agrees, FetchedIsCached
<1>12. CASE DropPartial(p) /\ ~Fail(p)
  <2>1. pc'[p] = "extract" /\ cache[d] = "good" /\ UNCHANGED cache
    BY <1>12 DEF DropPartial, Known, FetchedIsCached, Goto, TypeOK
  <2> QED BY <1>5, <1>6, <1>12, <2>1 DEF Agrees, FetchedIsCached, Downloading
<1>13. ReceiveTooMuch(p) => Fail(p)
  BY DEF ReceiveTooMuch
<1> QED BY <1>3, <1>4, <1>7, <1>8, <1>9, <1>10, <1>11, <1>12, <1>13

\* From the first look to the rename, and what is done with the quarantine.
LEMMA PublishKnows ==
    ASSUME TypeOK, NEW p \in Procs, Known(p),
           \/ Check(p) \/ Look(p) \/ ExtractLayer(p) \/ Finish(p) \/ Commit(p) \/ Discard(p)
           \/ Restore(p)
    PROVE  Known(p)'
<1> USE DEF At
<1> DEFINE i == hand[p].id
           n == hand[p].layer
<1>1. Step(p)
  BY DEF Step, Running
<1>2. hand[p] \in Hand /\ i \in Identities /\ ~Imports(p) /\ installer[i] = p
      /\ hand[p].op \in {"install", "repair"}
  BY PartsType DEF Known, StepOfOp, HoldsInstall, InstallSteps, Imports, Check, Look, ExtractLayer,
     Finish, Commit, Discard, Restore
<1>3. CASE Fail(p)
  BY <1>1, <1>3, FailKnows
<1>4. CASE Return(p)
  BY <1>4, ReturnKnows
<1>5. CASE Check(p) /\ ~Return(p)
  <2>1. pc'[p] = "look" /\ pc[p] = "check" /\ hand' = hand /\ UNCHANGED installer
    BY <1>5 DEF Check, Goto, TypeOK
  <2> QED BY <1>2, <2>1 DEF Known, Agrees, HoldsInstall, StepOfOp, LayersAreStaged, FetchedIsCached, Fetching, Imports, InstallSteps,
     Downloading, Inventory
<1>6. CASE Look(p) /\ ~Fail(p)
  <2>1. CASE installs[i] = None
    <3>1. /\ pc'[p] = "want-download" /\ UNCHANGED installer
          /\ hand'[p] = [hand[p] EXCEPT !.layer = 1, !.digest = Layer(i, 1).digest]
      BY <1>6, <2>1 DEF Look, Goto, TypeOK
    <3>2. /\ hand'[p].op = hand[p].op /\ hand'[p].id = i /\ hand'[p].layer = 1
          /\ hand'[p].digest = Layer(i, 1).digest /\ hand'[p].staged = hand[p].staged
      BY <1>2, <3>1 DEF Hand
    <3>3. hand[p].staged = {}
      BY <1>6 DEF Look, Known, LayersAreStaged
    <3>4. 1 \in 1 .. Len(Requests[i].layers) /\ 0 \in 0 .. Len(Requests[i].layers)
      BY <1>2, InstallerAssumption
    <3>5. Staged(i, 1 - 1) = {} /\ {} # Refused
      BY <1>2, <3>4, StagesAreDefined DEF Refused
    <3> QED BY <1>2, <3>1, <3>2, <3>3, <3>4, <3>5 DEF Known, Agrees, HoldsInstall, StepOfOp, LayersAreStaged, FetchedIsCached, Fetching, Imports, InstallSteps,
     Downloading, Inventory
  <2>2. CASE installs[i] # None
    <3>1. pc'[p] = "discard" /\ hand' = hand /\ UNCHANGED installer
      BY <1>6, <2>2 DEF Look, Goto, TypeOK
    <3> QED BY <1>2, <3>1 DEF Known, Agrees, HoldsInstall, StepOfOp, LayersAreStaged, FetchedIsCached, Fetching, Imports, InstallSteps,
     Downloading, Inventory
  <2> QED BY <2>1, <2>2
<1>7. CASE ExtractLayer(p) /\ ~Fail(p)
  <2>1. /\ n \in 1 .. Len(Requests[i].layers) /\ Len(Requests[i].layers) \in Nat
        /\ hand[p].digest = Layer(i, n).digest
        /\ Add(i, n, hand[p].staged) = Staged(i, n)
    BY <1>7, LayerAdded DEF ExtractLayer, Known
  <2>2. cache[Layer(i, n).digest] = "good"
    BY <1>7, <2>1 DEF ExtractLayer, Known, Agrees
  <2>3. Staged(i, n) # Refused /\ UNCHANGED <<installer, downloader>>
    BY <1>7, <2>1, <2>2 DEF ExtractLayer
  <2>4. CASE n < Len(Requests[i].layers)
    <3>1. /\ pc'[p] = "want-download"
          /\ hand'[p] = [hand[p] EXCEPT !.staged = Staged(i, n), !.layer = n + 1,
                                        !.digest = Layer(i, n + 1).digest]
      <4>1. /\ hand' = [hand EXCEPT ![p] = [hand[p] EXCEPT !.staged = Staged(i, n), !.layer = n + 1,
                                                    !.digest = Layer(i, n + 1).digest]]
            /\ Goto(p, "want-download")
        BY <1>7, <2>1, <2>2, <2>4 DEF ExtractLayer
      <4> QED BY <4>1 DEF Goto, TypeOK
    <3>2. /\ hand'[p].op = hand[p].op /\ hand'[p].id = i /\ hand'[p].layer = n + 1
          /\ hand'[p].digest = Layer(i, n + 1).digest /\ hand'[p].staged = Staged(i, n)
      BY <1>2, <3>1 DEF Hand
    <3>3. n + 1 \in 1 .. Len(Requests[i].layers) /\ (n + 1) - 1 = n
      BY <2>1, <2>4
    <3> QED BY <1>2, <2>3, <3>1, <3>2, <3>3 DEF Known, Agrees, HoldsInstall, StepOfOp, LayersAreStaged, FetchedIsCached, Fetching, Imports, InstallSteps,
     Downloading, Inventory
  <2>5. CASE ~(n < Len(Requests[i].layers))
    <3>1. pc'[p] = "finish" /\ hand'[p] = [hand[p] EXCEPT !.staged = Staged(i, n)]
      BY <1>7, <2>1, <2>2, <2>5 DEF ExtractLayer, Goto, TypeOK
    <3>2. hand'[p].op = hand[p].op /\ hand'[p].id = i /\ hand'[p].staged = Staged(i, n)
      BY <1>2, <3>1 DEF Hand
    <3>3. n = Len(Requests[i].layers)
      BY <2>1, <2>5
    <3> QED BY <1>2, <2>3, <3>1, <3>2, <3>3 DEF Known, Agrees, HoldsInstall, StepOfOp, LayersAreStaged, FetchedIsCached, Fetching, Imports, InstallSteps,
     Downloading, Inventory
  <2> QED BY <2>4, <2>5
<1>8. CASE Finish(p) /\ ~Fail(p)
  <2>1. /\ pc'[p] = "commit" /\ hand'[p] = [hand[p] EXCEPT !.staged = Aliased(i, @)]
        /\ UNCHANGED installer /\ HasFiles(hand[p].staged, Requests[i].required)
    BY <1>8 DEF Finish, Goto, TypeOK
  <2>2. Aliased(i, hand[p].staged) = Payload(i)
    BY <1>8, PayloadAdded DEF Finish, Known
  <2>3. hand'[p].op = hand[p].op /\ hand'[p].id = i /\ hand'[p].staged = Payload(i)
    BY <1>2, <2>1, <2>2 DEF Hand
  <2>4. HasFiles(Payload(i), Requests[i].required \cup Requests[i].aliases)
    <3>1. \A f \in hand[p].staged : f \in Payload(i)
      BY <2>2 DEF Aliased
    <3>2. ASSUME NEW path \in Requests[i].required
          PROVE  \E f \in Payload(i) : f.path = path /\ f.kind # "dir"
      BY <2>1, <3>1 DEF HasFiles
    <3>3. ASSUME NEW path \in Requests[i].aliases
          PROVE  \E f \in Payload(i) : f.path = path /\ f.kind # "dir"
      <4>1. [path |-> path, kind |-> "file"] \in Payload(i)
        BY <2>2 DEF Aliased
      <4> QED BY <4>1
    <3> QED BY <3>2, <3>3 DEF HasFiles
  <2> QED BY <1>2, <2>1, <2>3, <2>4 DEF Known, Agrees, HoldsInstall, StepOfOp, LayersAreStaged, FetchedIsCached, Fetching, Imports, InstallSteps,
     Downloading, Inventory
<1>9. CASE Commit(p) /\ ~Fail(p)
  <2>1. /\ pc'[p] = "discard" /\ UNCHANGED installer
        /\ hand'[p] = [EmptyHand EXCEPT !.op = hand[p].op, !.id = i]
    BY <1>9 DEF Commit, Goto, TypeOK
  <2>2. hand'[p].op = hand[p].op /\ hand'[p].id = i
    BY <2>1 DEF EmptyHand
  <2> QED BY <1>2, <2>1, <2>2 DEF Known, Agrees, HoldsInstall, StepOfOp, LayersAreStaged, FetchedIsCached, Fetching, Imports, InstallSteps,
     Downloading, Inventory
<1>10. CASE Discard(p) /\ ~Return(p)
  <2>1. pc'[p] = "inventory-read" /\ hand' = hand
    BY <1>10 DEF Discard, Goto, TypeOK
  <2> QED BY <1>2, <2>1 DEF Known, Agrees, HoldsInstall, StepOfOp, LayersAreStaged, FetchedIsCached, Fetching, Imports, InstallSteps,
     Downloading, Inventory
<1>11. Restore(p) => Return(p)
  BY DEF Restore
<1> QED BY <1>3, <1>4, <1>5, <1>6, <1>7, <1>8, <1>9, <1>10, <1>11

\* Completing a receipt, filling the cache and dying.
LEMMA OtherKnows ==
    ASSUME TypeOK, NEW p \in Procs, Known(p),
           InventoryRead(p) \/ InventoryWrite(p) \/ Copy(p) \/ Die(p)
    PROVE  Known(p)'
<1> USE DEF At
<1>1. CASE Return(p)
  BY <1>1, ReturnKnows
<1>2. CASE ~Return(p)
  <2> DEFINE read == [installs[hand[p].id].receipt EXCEPT !.commands = TRUE]
  <2>1. /\ InventoryRead(p) /\ pc'[p] = "inventory-write" /\ hand'[p] = [hand[p] EXCEPT !.receipt = read]
        /\ installs[hand[p].id] # None /\ installs[hand[p].id].receipt # None
    BY <1>2 DEF InventoryRead, InventoryWrite, Copy, Die, Goto, TypeOK
  <2>2. hand[p].op \in {"install", "repair"} /\ hand[p].id \in Identities /\ hand[p] \in Hand
    BY <2>1, PartsType DEF InventoryRead, Known, StepOfOp, Imports
  <2>3. installs[hand[p].id].receipt \in Receipts
    BY <2>1, <2>2 DEF TypeOK, Installations
  <2>4. read # None
    <3>1. read \in Receipts
      BY <2>3 DEF Receipts
    <3> HIDE DEF read
    <3> QED BY <3>1, DiskAssumption
  <2> HIDE DEF read
  <2>5. hand'[p].op = hand[p].op /\ hand'[p].id = hand[p].id /\ hand'[p].receipt = read
    BY <2>1, <2>2 DEF Hand
  <2> QED BY <2>1, <2>2, <2>4, <2>5 DEF Known, Agrees, HoldsInstall, StepOfOp, LayersAreStaged, FetchedIsCached, Fetching, Imports, InstallSteps,
     Downloading, Inventory
<1> QED BY <1>1, <1>2

\* A step of a command keeps what it knows.
LEMMA OwnKnows ==
    ASSUME TypeOK, NEW p \in Procs, Known(p), Step(p)
    PROVE  Known(p)'
  BY StartKnows, DownloadKnows, PublishKnows, OtherKnows DEF Step, Running

\* The archives are left alone by who does not hold their locks, but for a command that
\* removes an entry with another content before it downloads.
LEMMA ArchivesStay ==
    ASSUME TypeOK, NEW p \in Procs, Known(p), Step(p), NEW d \in Digests, downloader[d] # p
    PROVE  partial'[d] = partial[d] /\ cache'[d] = cache[d]
<1> USE DEF At
<1>1. CASE \/ Cached(p) \/ ConnectFails(p) \/ Connect(p) \/ Reconnect(p) \/ ReceiveStops(p)
           \/ ReceiveTooMuch(p) \/ ReceiveEnds(p) \/ Persist(p) \/ DropPartial(p) \/ Copy(p)
  <2>1. hand[p].digest # d
    BY <1>1 DEF Known, Downloading, Cached, ConnectFails, Connect, Reconnect, ReceiveStops,
       ReceiveTooMuch, ReceiveEnds, Persist, DropPartial, Copy
  <2> QED BY <1>1, <2>1 DEF Cached, ConnectFails, Connect, Reconnect, ReceiveStops,
       ReceiveTooMuch, ReceiveEnds, Persist, DropPartial, Copy, TypeOK
<1>2. CASE \/ StartInstall(p) \/ StartImport(p) \/ Locking(p) \/ Die(p) \/ Check(p) \/ Look(p)
           \/ ExtractLayer(p) \/ Finish(p) \/ Commit(p) \/ Discard(p) \/ Restore(p)
           \/ InventoryRead(p) \/ InventoryWrite(p)
  BY <1>2 DEF StartInstall, StartImport, Locking, TakeInstall, TakeDownload, Die, Check, Look,
     ExtractLayer, Finish, Commit, Discard, Restore, InventoryRead, InventoryWrite, disk
<1> QED BY <1>1, <1>2 DEF Step, Running

\* What is verified in the cache stays there while a command runs.
LEMMA GoodStays ==
    ASSUME TypeOK, NEW p \in Procs, Known(p), Step(p), NEW d \in Digests, cache[d] = "good"
    PROVE  cache'[d] = "good"
<1> USE DEF At
<1>1. CASE Cached(p) \/ Persist(p) \/ Copy(p)
  <2>1. hand[p].digest \in Digests
    BY <1>1, DigestType DEF Cached, Persist, Copy, Known, Downloading
  <2>2. None # "good"
    BY DiskAssumption
  <2> QED BY <1>1, <2>1, <2>2 DEF Cached, Persist, Copy, TypeOK
<1>2. CASE ~(Cached(p) \/ Persist(p) \/ Copy(p))
  BY <1>2 DEF Step, StartInstall, StartImport, Locking, TakeInstall, TakeDownload, Die, Running, Check,
     Look, ConnectFails, Connect, Reconnect, ReceiveStops, ReceiveTooMuch, ReceiveEnds, DropPartial,
     ExtractLayer, Finish, Commit, Discard, Restore, InventoryRead, InventoryWrite, disk
<1> QED BY <1>1, <1>2

\* It keeps what the others know: they hold their own locks.
LEMMA OthersKnow ==
    ASSUME TypeOK, LocksAreHeld, NEW p \in Procs, Known(p), Step(p), NEW q \in Procs \ {p}, Known(q)
    PROVE  Known(q)'
<1> USE DEF At
<1>1. pc'[q] = pc[q] /\ hand'[q] = hand[q]
  BY OthersStay DEF Known
<1>2. HoldsInstall(q) => installer'[hand[q].id] = q
  <2>1. HoldsInstall(q) => hand[q].id \in Identities
    BY DEF HoldsInstall, Known, StepOfOp, InstallSteps, Downloading, Imports
  <2> QED BY <2>1, OthersStay DEF Known
<1>3. pc[q] \in Downloading \cup {"copy", "extract"} => hand[q].digest \in Digests
  BY DigestType DEF Known
<1>4. pc[q] \in Downloading \cup {"copy"} =>
        /\ downloader[hand[q].digest] = q /\ downloader'[hand[q].digest] = q
        /\ partial'[hand[q].digest] = partial[hand[q].digest]
        /\ cache'[hand[q].digest] = cache[hand[q].digest]
  <2>1. ASSUME pc[q] \in Downloading \cup {"copy"}
        PROVE  downloader[hand[q].digest] = q /\ hand[q].digest \in Digests
    BY <1>3, <2>1 DEF Known
  <2> QED BY <2>1, OthersStay, ArchivesStay DEF Known
<1>5. pc[q] = "extract" => cache'[hand[q].digest] = "good"
  BY <1>3, GoodStays DEF Known, Agrees
<1>6. Agrees(q)' /\ FetchedIsCached(q)'
  BY <1>1, <1>4, <1>5 DEF Known, Agrees, FetchedIsCached, Downloading
<1>7. StepOfOp(q)' /\ LayersAreStaged(q)'
  BY <1>1 DEF Known, StepOfOp, LayersAreStaged, Fetching, Imports
<1>8. HoldsInstall(q)' <=> HoldsInstall(q)
  BY <1>1 DEF HoldsInstall, Imports
<1> QED BY <1>1, <1>2, <1>4, <1>6, <1>7, <1>8 DEF Known

\* clean cache meets no command.
LEMMA CleanKnows ==
    ASSUME DownloadsAreKnown, CleanCache
    PROVE  DownloadsAreKnown'
<1>1. TypeOK'
  BY DEF DownloadsAreKnown, CleanCache, TypeOK
<1>2. ASSUME NEW p \in Procs PROVE Known(p)'
  <2>1. pc'[p] = "idle"
    BY DEF CleanCache, At
  <2> QED BY <2>1 DEF Known, Agrees, HoldsInstall, StepOfOp, LayersAreStaged, FetchedIsCached, Fetching, Imports, InstallSteps,
     Downloading, Inventory, At
<1> QED BY <1>1, <1>2 DEF DownloadsAreKnown, DownloadsAgree, LocksAreHeld, Known, Agrees

\* The download half of the invariant is inductive.
LEMMA DownloadsKept ==
    ASSUME DownloadsAreKnown, [Next]_vars
    PROVE  DownloadsAreKnown'
<1>1. ASSUME NEW p \in Procs, Step(p) PROVE DownloadsAreKnown'
  <2>1. TypeOK /\ LocksAreHeld /\ \A q \in Procs : Known(q) /\ StepOfOp(q) /\ LayersAreStaged(q)
    BY KnownToAll DEF DownloadsAreKnown
  <2>2. TypeOK'
    BY <1>1, <2>1, StepType
  <2>3. Known(p)'
    BY <1>1, <2>1, OwnKnows
  <2>4. \A q \in Procs \ {p} : Known(q)'
    BY <1>1, <2>1, OthersKnow
  <2>5. TypeOK' /\ \A q \in Procs : Known(q)'
    BY <2>2, <2>3, <2>4
  <2> QED BY <2>5 DEF DownloadsAreKnown, DownloadsAgree, LocksAreHeld, Known, Agrees
<1>2. CASE UNCHANGED vars
  <2>1. UNCHANGED <<installs, quarantine, cache, partial, installer, downloader, pc, hand, deaths>>
    BY <1>2 DEF vars, disk
  <2>2. TypeOK'
    BY <2>1 DEF DownloadsAreKnown, TypeOK
  <2>3. \A p \in Procs : Known(p)'
    BY <2>1, KnownToAll DEF Known, Agrees, HoldsInstall, StepOfOp, LayersAreStaged, FetchedIsCached,
       Fetching, Imports, At
  <2> QED BY <2>2, <2>3 DEF DownloadsAreKnown, DownloadsAgree, LocksAreHeld, Known, Agrees
<1> QED BY <1>1, <1>2, CleanKnows DEF Next, Step

\* At the start no command has a lock.
LEMMA InitDownloads == Init => DownloadsAreKnown
<1> SUFFICES ASSUME Init PROVE DownloadsAreKnown
  OBVIOUS
<1>1. TypeOK
  <2>1. EmptyHand \in Hand
    <3>1. {} \in Contents
      BY DEF Contents
    <3> QED BY <3>1, Bounds DEF EmptyHand, Hand, Ops
  <2> QED BY <2>1, DiskAssumption, Bounds DEF Init, TypeOK, Steps
<1>2. ASSUME NEW p \in Procs PROVE Known(p)
  <2>1. pc[p] = "idle"
    BY DEF Init
  <2> QED BY <2>1 DEF Known, Agrees, HoldsInstall, StepOfOp, LayersAreStaged, FetchedIsCached, Fetching, Imports, InstallSteps,
     Downloading, Inventory, At
<1> QED BY <1>1, <1>2, KnownToAll

-----------------------------------------------------------------------------
(* Installations.                                                          *)

\* What is published can be used, and is what its receipt says.
LEMMA WholeIsReusable ==
    ASSUME NEW i \in Identities, HasFiles(Payload(i), Requests[i].required \cup Requests[i].aliases)
    PROVE  /\ Whole(i) # None /\ Whole(i) \in Installations
           /\ Reusable(i, Whole(i)) /\ Undamaged(i, Whole(i))
<1>1. Whole(i) \in Installations /\ Receipt(Payload(i)) \in Receipts
  BY WholeType
<1>2. Whole(i) # None /\ Receipt(Payload(i)) # None
  BY <1>1, DiskAssumption
<1> QED BY <1>1, <1>2 DEF Whole, Reusable, Undamaged, Receipt

\* The commands in its receipt do not make an installation another one.
LEMMA CompletedIsWhole ==
    ASSUME NEW i \in Identities, NEW found \in Installations, found.receipt # None,
           NEW completed, completed = [found.receipt EXCEPT !.commands = TRUE]
    PROVE  /\ completed \in Receipts /\ completed # None
           /\ [completed EXCEPT !.commands = TRUE] = completed
           /\ [found EXCEPT !.receipt = completed] \in Installations
           /\ [found EXCEPT !.receipt = completed] # None
           /\ [found EXCEPT !.receipt = completed].receipt = completed
           /\ Reusable(i, found) => Reusable(i, [found EXCEPT !.receipt = completed])
           /\ Undamaged(i, found) => Undamaged(i, [found EXCEPT !.receipt = completed])
<1>1. found.receipt \in Receipts
  BY DEF Installations
<1>2. /\ completed \in Receipts /\ completed.digest = found.receipt.digest
      /\ [completed EXCEPT !.commands = TRUE] = completed
  BY <1>1 DEF Receipts
<1>3. completed # None
  BY <1>2, DiskAssumption
<1> DEFINE next == [found EXCEPT !.receipt = completed]
<1>4. /\ next \in Installations /\ next.receipt = completed
      /\ next.files = found.files /\ next.intact = found.intact
  BY <1>2 DEF Installations
<1>5. next # None
  BY <1>4, DiskAssumption
<1> HIDE DEF next
<1>6. /\ Reusable(i, found) => Reusable(i, next)
      /\ Undamaged(i, found) => Undamaged(i, next)
  BY <1>2, <1>3, <1>4 DEF Reusable, Undamaged
<1> QED BY <1>2, <1>3, <1>4, <1>5, <1>6 DEF next

\* The four ways in which an installation directory changes.
Moves(p, i) ==
    /\ pc[p] = "check" /\ pc'[p] = "look" /\ hand' = hand /\ hand[p].op = "repair"
    /\ installs[i] # None /\ installs[i].receipt # None
    /\ ~(Reusable(i, installs[i]) /\ Undamaged(i, installs[i]))
    /\ installs'[i] = None /\ quarantine'[p] = installs[i]

Publishes(p, i) ==
    /\ pc[p] = "commit" /\ pc'[p] = "discard" /\ hand'[p].op = hand[p].op /\ hand'[p].id = i
    /\ installs[i] = None /\ installs'[i] = Whole(i) /\ UNCHANGED quarantine
    /\ HasFiles(Payload(i), Requests[i].required \cup Requests[i].aliases)

GivesBack(p, i) ==
    /\ pc[p] = "restore" /\ pc'[p] = "idle"
    /\ installs[i] = None /\ quarantine[p] # None
    /\ installs'[i] = quarantine[p] /\ quarantine'[p] = None

Completes(p, i) ==
    /\ pc[p] = "inventory-write" /\ pc'[p] = "idle" /\ UNCHANGED quarantine
    /\ installs[i] # None => installs'[i] = [installs[i] EXCEPT !.receipt = hand[p].receipt]

\* A step changes the directory of its own installation at most, in one of these ways.
LEMMA InstallationChanges ==
    ASSUME TypeOK, NEW p \in Procs, Known(p), Step(p)
    PROVE  /\ \A j \in Identities : j # hand[p].id => installs'[j] = installs[j]
           /\ \/ UNCHANGED installs
              \/ /\ hand[p].id \in Identities
                 /\ \/ Moves(p, hand[p].id) \/ Publishes(p, hand[p].id)
                    \/ GivesBack(p, hand[p].id) \/ Completes(p, hand[p].id)
<1> USE DEF At
<1> DEFINE i == hand[p].id
<1>1. CASE Check(p)
  <2>1. i \in Identities
    BY <1>1 DEF Check, Known, StepOfOp, Imports
  <2> QED BY <1>1, <2>1 DEF Check, Moves, Goto, TypeOK, disk
<1>2. CASE Commit(p)
  <2>1. /\ i \in Identities /\ hand[p].staged = Payload(i)
        /\ HasFiles(Payload(i), Requests[i].required \cup Requests[i].aliases)
    BY <1>2 DEF Commit, Known, StepOfOp, LayersAreStaged, Imports
  <2>2. CASE installs[i] # None
    BY <1>2, <2>2 DEF Commit
  <2>3. CASE installs[i] = None
    <3>1. installs' = [installs EXCEPT ![i] = Whole(i)]
      BY <1>2, <2>1, <2>3 DEF Commit, Whole
    <3>2. /\ pc'[p] = "discard" /\ hand'[p] = [EmptyHand EXCEPT !.op = hand[p].op, !.id = i]
          /\ UNCHANGED quarantine
      BY <1>2, <2>3 DEF Commit, Goto, TypeOK
    <3>3. hand'[p].op = hand[p].op /\ hand'[p].id = i
      BY <3>2 DEF EmptyHand
    <3> QED BY <1>2, <2>1, <2>3, <3>1, <3>2, <3>3 DEF Commit, Publishes, TypeOK
  <2> QED BY <2>2, <2>3
<1>3. CASE Restore(p)
  <2>1. i \in Identities /\ pc'[p] = "idle"
    BY <1>3, Idle DEF Restore, Known, StepOfOp, Imports
  <2> QED BY <1>3, <2>1 DEF Restore, GivesBack, TypeOK
<1>4. CASE InventoryWrite(p)
  <2>1. i \in Identities /\ pc'[p] = "idle"
    BY <1>4, Idle DEF InventoryWrite, Known, StepOfOp, Imports
  <2> QED BY <1>4, <2>1 DEF InventoryWrite, Completes, TypeOK
<1>5. CASE ~Check(p) /\ ~Commit(p) /\ ~Restore(p) /\ ~InventoryWrite(p)
  BY <1>5 DEF Step, StartInstall, StartImport, Locking, TakeInstall, TakeDownload, Die, Running,
     Look, Cached, ConnectFails, Connect, Reconnect, ReceiveStops, ReceiveTooMuch, ReceiveEnds,
     Persist, DropPartial, ExtractLayer, Finish, Discard, InventoryRead, Copy, disk
<1> QED BY <1>1, <1>2, <1>3, <1>4, <1>5

\* An installation whose receipt is to be completed is not damaged, and so stays where it is.
LEMMA InventoriedKept ==
    ASSUME TypeOK, InventoriedAreWhole(installs), NEW p \in Procs, Known(p), PlaceIsKnown(p), Step(p)
    PROVE  InventoriedAreWhole(installs')
<1> DEFINE i == hand[p].id
<1>1. Inventoried \subseteq Identities
  BY InstallerAssumption
<1>2. SUFFICES ASSUME i \in Identities, i \in Inventoried, installs'[i] # installs[i],
                      installs'[i] # None, installs'[i].receipt # None
               PROVE  Reusable(i, installs'[i]) /\ Undamaged(i, installs'[i])
  BY <1>1, InstallationChanges DEF InventoriedAreWhole
<1>3. CASE Publishes(p, i)
  BY <1>2, <1>3, WholeIsReusable DEF Publishes
<1>4. CASE GivesBack(p, i)
  BY <1>2, <1>4 DEF GivesBack, PlaceIsKnown
<1>5. CASE Completes(p, i)
  <2>1. /\ installs[i] # None /\ installs[i].receipt # None
        /\ hand[p].receipt = [installs[i].receipt EXCEPT !.commands = TRUE]
    BY <1>5 DEF Completes, PlaceIsKnown, At
  <2>2. Reusable(i, installs[i]) /\ Undamaged(i, installs[i]) /\ installs[i] \in Installations
    BY <1>2, <2>1 DEF InventoriedAreWhole, TypeOK
  <2>3. installs'[i] = [installs[i] EXCEPT !.receipt = hand[p].receipt]
    BY <1>5, <2>1 DEF Completes
  <2> QED BY <1>2, <2>1, <2>2, <2>3, CompletedIsWhole
<1>6. ~Moves(p, i)
  BY <1>2 DEF Moves
<1> QED BY <1>2, <1>3, <1>4, <1>5, <1>6, InstallationChanges

\* Nobody else touches the place of an installation that is locked, and nobody takes one away
\* whose receipt is to be completed.
LEMMA OthersPlace ==
    ASSUME TypeOK, LocksAreHeld, InventoriedAreWhole(installs), NEW p \in Procs, Known(p),
           PlaceIsKnown(p), Step(p), NEW q \in Procs \ {p}, Known(q), PlaceIsKnown(q)
    PROVE  PlaceIsKnown(q)'
<1> USE DEF At
<1> DEFINE i == hand[q].id
<1>1. pc'[q] = pc[q] /\ hand'[q] = hand[q] /\ quarantine'[q] = quarantine[q]
  BY OthersStay DEF Known
<1>2. CASE installs'[i] = installs[i]
  BY <1>1, <1>2 DEF PlaceIsKnown, Fetching, HoldsInstall, Imports
<1>3. CASE pc[q] = "idle"
  BY <1>1, <1>3 DEF PlaceIsKnown, Fetching, HoldsInstall, Imports, InstallSteps, Downloading, Inventory
<1>4. CASE installs'[i] # installs[i] /\ pc[q] # "idle"
  <2>1. CASE i \notin Identities
    <3>1. Imports(q) /\ pc[q] \in {"want-download", "copy"}
      BY <1>4, <2>1 DEF Known, StepOfOp
    <3> QED BY <1>1, <3>1 DEF PlaceIsKnown, Fetching, HoldsInstall, Imports, InstallSteps, Downloading,
               Inventory
  <2>2. CASE i \in Identities
    <3>1. hand[p].id = i
      BY <1>4, <2>2, InstallationChanges
    <3>2. Moves(p, i) \/ Publishes(p, i) \/ GivesBack(p, i) \/ Completes(p, i)
      BY <1>4, <3>1, InstallationChanges
    <3>3. CASE Completes(p, i)
      <4>1. /\ i \in Inventoried /\ installs[i] # None /\ installs[i].receipt # None
            /\ hand[p].receipt = [installs[i].receipt EXCEPT !.commands = TRUE]
        BY <3>1, <3>3 DEF Completes, PlaceIsKnown, Inventory
      <4>2. installs[i] \in Installations /\ installs'[i] = [installs[i] EXCEPT !.receipt = hand[p].receipt]
        BY <2>2, <3>3, <4>1 DEF Completes, TypeOK
      <4>3. /\ installs'[i] # None /\ installs'[i].receipt = hand[p].receipt /\ hand[p].receipt # None
            /\ [hand[p].receipt EXCEPT !.commands = TRUE] = hand[p].receipt
        <5>1. /\ installs[i].receipt \in Receipts
              /\ hand[p].receipt = [installs[i].receipt EXCEPT !.commands = TRUE]
          BY <4>1, <4>2 DEF Installations
        <5>2. hand[p].receipt \in Receipts /\ [hand[p].receipt EXCEPT !.commands = TRUE] = hand[p].receipt
          BY <5>1 DEF Receipts
        <5>3. installs'[i] \in Installations /\ installs'[i].receipt = hand[p].receipt
          BY <4>2, <5>2 DEF Installations
        <5> QED BY <5>2, <5>3, DiskAssumption
      <4>4. quarantine[q] = None /\ ~Fetching(q) /\ pc[q] \notin {"finish", "commit"}
        BY <4>1 DEF PlaceIsKnown
      <4>5. ~Fetching(q)' /\ quarantine'[q] = None
        BY <1>1, <4>4 DEF Fetching, Imports
      <4> QED BY <1>1, <4>1, <4>3, <4>4, <4>5 DEF PlaceIsKnown, Inventory
    <3>4. CASE ~Completes(p, i)
      <4>1. HoldsInstall(p)
        BY <3>2, <3>4 DEF Moves, Publishes, GivesBack, HoldsInstall, InstallSteps
      <4>2. installer[i] = p
        BY <3>1, <4>1 DEF LocksAreHeld
      <4>3. ~HoldsInstall(q)
        BY <4>2 DEF LocksAreHeld
      <4>4. pc[q] # "inventory-write"
        <5> SUFFICES ASSUME pc[q] = "inventory-write" PROVE FALSE
          OBVIOUS
        <5>1. i \in Inventoried /\ installs[i] # None /\ installs[i].receipt # None
          BY DEF PlaceIsKnown, Inventory
        <5> QED BY <3>2, <3>4, <5>1 DEF Moves, Publishes, GivesBack, InventoriedAreWhole
      <4>5. quarantine[q] = None /\ ~Fetching(q) /\ pc[q] \notin {"finish", "commit"}
        BY <4>3 DEF PlaceIsKnown, Fetching, HoldsInstall, InstallSteps
      <4>6. ~Fetching(q)' /\ quarantine'[q] = None
        BY <1>1, <4>5 DEF Fetching, Imports
      <4> QED BY <1>1, <4>4, <4>5, <4>6 DEF PlaceIsKnown, Inventory
    <3> QED BY <3>3, <3>4
  <2> QED BY <2>1, <2>2
<1> QED BY <1>2, <1>3, <1>4

\* A repair with something in quarantine ends with what it found in the way, gives back what it
\* moved, or dies.
LEMMA RepairEnds ==
    ASSUME TypeOK, NEW p \in Procs, Known(p), PlaceIsKnown(p), Step(p), pc'[p] = "idle",
           quarantine[p] # None
    PROVE  /\ Discard(p) \/ Restore(p) \/ Die(p)
           /\ quarantine'[p] = None
           /\ hand[p].id \in Identities
           /\ Discard(p) => installs'[hand[p].id] = Whole(hand[p].id)
           /\ Restore(p) => installs'[hand[p].id] = quarantine[p]
<1> USE DEF At
<1> DEFINE i == hand[p].id
<1>1. HoldsInstall(p) /\ pc[p] # "check" /\ hand[p].op = "repair"
  BY DEF PlaceIsKnown
<1>2. Discard(p) \/ Restore(p) \/ Die(p)
  <2> SUFFICES ASSUME ~(Discard(p) \/ Restore(p) \/ Die(p)) PROVE FALSE
    OBVIOUS
  <2>1. ~Fail(p)
    BY <1>1 DEF Fail, Goto, TypeOK
  <2>2. \A length : ~Retry(p, length)
    BY <2>1 DEF Retry, Goto, TypeOK
  <2> QED BY <1>1, <2>1, <2>2
          DEF Step, StartInstall, StartImport, Locking, TakeInstall, TakeDownload, Running,
              Check, Look, Cached, ConnectFails, Connect, Reconnect, ReceiveStops, ReceiveTooMuch,
              ReceiveEnds, Persist, DropPartial, ExtractLayer, Finish, Commit, InventoryRead,
              InventoryWrite, Copy, Goto, TypeOK, HoldsInstall, InstallSteps, Downloading, Imports
<1>3. i \in Identities
  BY <1>1 DEF Known, StepOfOp, HoldsInstall, InstallSteps, Downloading, Imports
<1>4. Restore(p) => installs[i] = None /\ installs'[i] = quarantine[p] /\ quarantine'[p] = None
  <2>1. Restore(p) => installs[i] = None
    BY DEF Restore, PlaceIsKnown
  <2> QED BY <1>3, <2>1 DEF Restore, TypeOK
<1>5. Discard(p) => installs'[i] = Whole(i) /\ quarantine'[p] = None
  BY DEF Discard, PlaceIsKnown, TypeOK
<1>6. Die(p) => quarantine'[p] = None
  BY DEF Die, TypeOK
<1> QED BY <1>2, <1>3, <1>4, <1>5, <1>6

\* What a command that ends leaves.
LEMMA ReturnPlace ==
    ASSUME TypeOK, NEW p \in Procs, Known(p), PlaceIsKnown(p), Step(p), Return(p)
    PROVE  PlaceIsKnown(p)'
<1>1. pc'[p] = "idle"
  BY Idle
<1>2. quarantine'[p] = None
  <2>1. CASE quarantine[p] = None
    BY <1>1, <2>1 DEF Step, StartInstall, StartImport, Locking, TakeInstall, TakeDownload, Die, Running,
       Check, Look, Cached, ConnectFails, Connect, Reconnect, ReceiveStops, ReceiveTooMuch, ReceiveEnds,
       Persist, DropPartial, ExtractLayer, Finish, Commit, Discard, Restore, InventoryRead,
       InventoryWrite, Copy, disk, Goto, TypeOK
  <2>2. CASE quarantine[p] # None
    BY <1>1, <2>2, RepairEnds
  <2> QED BY <2>1, <2>2
<1> QED BY <1>1, <1>2 DEF PlaceIsKnown, Fetching, Inventory, Downloading, At

\* What is in quarantine is given back where it came from, unless that is done already.
LEMMA FailPlace ==
    ASSUME TypeOK, NEW p \in Procs, Known(p), PlaceIsKnown(p), Step(p), Fail(p), ~Return(p)
    PROVE  PlaceIsKnown(p)'
<1> USE DEF At
<1>1. /\ hand[p].op \in {"install", "repair"} /\ pc'[p] = "restore"
      /\ hand'[p].op = hand[p].op /\ hand'[p].id = hand[p].id
  BY Failed
<1>2. UNCHANGED <<installs, quarantine>> /\ pc[p] # "discard"
  BY <1>1, Idle DEF Step, StartInstall, StartImport, Locking, TakeInstall, TakeDownload, Die, Running,
     Check, Look, Cached, ConnectFails, Connect, Reconnect, ReceiveStops, ReceiveTooMuch, ReceiveEnds,
     Persist, DropPartial, ExtractLayer, Finish, Commit, Discard, Restore, InventoryRead,
     InventoryWrite, Copy, disk, Goto, TypeOK
<1>3. HoldsInstall(p)' /\ ~Fetching(p)' /\ pc'[p] \notin Inventory
  BY <1>1 DEF HoldsInstall, InstallSteps, Fetching, Downloading, Inventory
<1> QED BY <1>1, <1>2, <1>3 DEF PlaceIsKnown

\* A command that goes on.
LEMMA OwnPlace ==
    ASSUME TypeOK, InventoriedAreWhole(installs), NEW p \in Procs, Known(p), PlaceIsKnown(p), Step(p)
    PROVE  PlaceIsKnown(p)'
<1> USE DEF At
<1> DEFINE i == hand[p].id
<1>1. CASE Return(p)
  BY <1>1, ReturnPlace
<1>2. CASE Fail(p) /\ ~Return(p)
  BY <1>2, FailPlace
<1>3. CASE \/ Cached(p) \/ ConnectFails(p) \/ Connect(p) \/ Reconnect(p) \/ ReceiveStops(p)
           \/ ReceiveTooMuch(p) \/ ReceiveEnds(p) \/ Persist(p) \/ DropPartial(p)
  <2> SUFFICES ASSUME ~Return(p), ~Fail(p) PROVE PlaceIsKnown(p)'
    BY <1>1, <1>2
  <2>1. /\ Fetching(p) /\ installs[i] = None /\ UNCHANGED <<installs, quarantine>>
        /\ pc[p] # "discard"
    BY <1>3 DEF Known, StepOfOp, PlaceIsKnown, Fetching, Downloading, Cached, ConnectFails, Connect,
       Reconnect, ReceiveStops, ReceiveTooMuch, ReceiveEnds, Persist, DropPartial
  <2>2. pc'[p] \in Downloading \cup {"extract"} /\ hand'[p].op = hand[p].op /\ hand'[p].id = i
    BY <1>3, DownloadGoesOn
  <2> QED BY <2>1, <2>2 DEF PlaceIsKnown, Fetching, HoldsInstall, InstallSteps, Downloading, Inventory,
             Imports
<1>4. CASE StartInstall(p) \/ StartImport(p) \/ TakeInstall(p)
  <2>1. quarantine[p] = None /\ UNCHANGED quarantine /\ pc'[p] \in {"want-install", "want-download", "check"}
    BY <1>4 DEF StartInstall, StartImport, TakeInstall, PlaceIsKnown, HoldsInstall, InstallSteps,
       Downloading, Goto, TypeOK, disk
  <2>2. ~Fetching(p)'
    <3>1. CASE StartImport(p)
      <4>1. PICK d \in Digests : hand' = [hand EXCEPT ![p] = [EmptyHand EXCEPT !.op = "import", !.digest = d]]
        BY <3>1 DEF StartImport
      <4>2. hand'[p] = [EmptyHand EXCEPT !.op = "import", !.digest = d]
        BY <4>1 DEF TypeOK
      <4>3. hand'[p].op = "import"
        BY <4>2 DEF EmptyHand
      <4> QED BY <4>3 DEF Fetching, Imports
    <3>2. CASE StartInstall(p) \/ TakeInstall(p)
      <4>1. pc'[p] \in {"want-install", "check"}
        BY <3>2 DEF StartInstall, TakeInstall, Goto, TypeOK
      <4> QED BY <4>1 DEF Fetching, Downloading
    <3> QED BY <1>4, <3>1, <3>2
  <2> QED BY <2>1, <2>2 DEF PlaceIsKnown, Inventory
<1>5. CASE TakeDownload(p)
  <2>1. /\ pc[p] = "want-download" /\ UNCHANGED <<hand, installs, quarantine>>
        /\ pc'[p] = IF Imports(p) THEN "copy" ELSE "cached"
    BY <1>5 DEF TakeDownload, Goto, TypeOK, disk, Imports
  <2> QED BY <2>1 DEF PlaceIsKnown, Fetching, HoldsInstall, InstallSteps, Downloading, Inventory, Imports
<1>6. CASE Check(p) /\ ~Return(p)
  <2>1. pc[p] = "check" /\ pc'[p] = "look" /\ hand' = hand /\ quarantine[p] = None /\ i \in Identities
    BY <1>6 DEF Check, Goto, TypeOK, PlaceIsKnown, Known, StepOfOp, Imports
  <2>2. CASE UNCHANGED <<installs, quarantine>>
    BY <2>1, <2>2 DEF PlaceIsKnown, Fetching, Downloading, Inventory
  <2>3. CASE ~UNCHANGED <<installs, quarantine>>
    <3>1. /\ hand[p].op = "repair" /\ installs[i] # None /\ installs[i].receipt # None
          /\ ~(Reusable(i, installs[i]) /\ Undamaged(i, installs[i]))
          /\ installs' = [installs EXCEPT ![i] = None]
      BY <1>6, <2>3 DEF Check, disk
    <3>2. i \notin Inventoried /\ installs'[i] = None
      BY <2>1, <3>1 DEF InventoriedAreWhole, TypeOK
    <3> QED BY <2>1, <3>1, <3>2 DEF PlaceIsKnown, HoldsInstall, InstallSteps, Fetching, Downloading, Inventory
  <2> QED BY <2>2, <2>3
<1>7. CASE Look(p) /\ ~Fail(p)
  <2>1. /\ pc[p] = "look" /\ UNCHANGED <<installs, quarantine>> /\ hand[p].op # "import" /\ hand[p] \in Hand
    BY <1>7, PartsType DEF Look, disk, Known, StepOfOp, Imports
  <2>2. CASE installs[i] = None
    <3>1. /\ pc'[p] = "want-download"
          /\ hand' = [hand EXCEPT ![p] = [hand[p] EXCEPT !.layer = 1, !.digest = Layer(i, 1).digest]]
      BY <1>7, <2>2 DEF Look, Goto, TypeOK
    <3>2. hand'[p] = [hand[p] EXCEPT !.layer = 1, !.digest = Layer(i, 1).digest]
      BY <3>1 DEF TypeOK
    <3>3. hand'[p].op = hand[p].op /\ hand'[p].id = i
      BY <2>1, <3>2 DEF Hand
    <3> QED BY <2>1, <2>2, <3>1, <3>3 DEF PlaceIsKnown, HoldsInstall, Imports, Inventory
  <2>3. CASE installs[i] # None
    <3>1. pc'[p] = "discard" /\ hand' = hand /\ quarantine[p] = None
      BY <1>7, <2>1, <2>3 DEF Look, Goto, TypeOK, PlaceIsKnown
    <3> QED BY <2>1, <3>1 DEF PlaceIsKnown, Fetching, Downloading, Inventory
  <2> QED BY <2>2, <2>3
<1>8. CASE (ExtractLayer(p) \/ Finish(p)) /\ ~Fail(p)
  <2>1. /\ pc[p] \in {"extract", "finish"} /\ UNCHANGED <<installs, quarantine>> /\ ~Imports(p)
        /\ hand[p] \in Hand
    BY <1>8, PartsType DEF ExtractLayer, Finish, disk, Known, StepOfOp
  <2>2. installs[i] = None
    BY <2>1 DEF PlaceIsKnown, Fetching
  <2>3. pc'[p] \in {"want-download", "finish", "commit"}
    BY <1>8 DEF ExtractLayer, Finish, Goto, TypeOK
  <2>4. hand'[p].op = hand[p].op /\ hand'[p].id = i
    BY <1>8, <2>1 DEF ExtractLayer, Finish, TypeOK, Hand
  <2> QED BY <2>1, <2>2, <2>3, <2>4 DEF PlaceIsKnown, HoldsInstall, InstallSteps, Imports, Inventory
<1>9. CASE Commit(p) /\ ~Fail(p)
  <2>1. /\ pc[p] = "commit" /\ pc'[p] = "discard" /\ UNCHANGED quarantine /\ i \in Identities
        /\ installs[i] = None
    BY <1>9 DEF Commit, Goto, TypeOK, Known, StepOfOp, Imports
  <2>2. installs'[i] # installs[i]
    <3> DEFINE new == [files |-> hand[p].staged, intact |-> TRUE, receipt |-> Receipt(hand[p].staged)]
    <3>2. installs'[i] = new
      BY <1>9, <2>1 DEF Commit, TypeOK
    <3>3. new = Whole(i)
      BY <2>1 DEF Whole, Known, LayersAreStaged, At
    <3>4. Whole(i) # None
      BY <2>1, WholeType, DiskAssumption
    <3> QED BY <2>1, <3>2, <3>3, <3>4
  <2>3. Publishes(p, i)
    BY <2>1, <2>2, InstallationChanges DEF Moves, GivesBack, Completes
  <2> QED BY <2>1, <2>3 DEF PlaceIsKnown, Publishes, HoldsInstall, InstallSteps, Fetching, Downloading, Inventory
<1>10. CASE Discard(p) /\ ~Return(p)
  <2>1. pc'[p] = "inventory-read" /\ hand' = hand /\ quarantine'[p] = None /\ i \in Inventoried
    BY <1>10 DEF Discard, Goto, TypeOK
  <2> QED BY <2>1 DEF PlaceIsKnown, Fetching, Downloading, Inventory
<1>11. CASE InventoryRead(p) /\ ~Return(p)
  <2> DEFINE read == [installs[i].receipt EXCEPT !.commands = TRUE]
  <2>1. /\ pc[p] = "inventory-read" /\ pc'[p] = "inventory-write" /\ UNCHANGED <<installs, quarantine>>
        /\ hand'[p] = [hand[p] EXCEPT !.receipt = read] /\ hand[p] \in Hand
        /\ installs[i] # None /\ installs[i].receipt # None
    BY <1>11, PartsType DEF InventoryRead, Goto, TypeOK, disk
  <2>2. i \in Inventoried /\ quarantine[p] = None
    BY <2>1 DEF PlaceIsKnown, Inventory, HoldsInstall, InstallSteps, Downloading
  <2> HIDE DEF read
  <2>3. hand'[p].id = i /\ hand'[p].receipt = read
    BY <2>1 DEF Hand
  <2> USE DEF read
  <2> QED BY <2>1, <2>2, <2>3 DEF PlaceIsKnown, Fetching, Downloading
<1>12. (Restore(p) \/ InventoryWrite(p) \/ Copy(p) \/ Die(p)) => Return(p)
  BY DEF Restore, InventoryWrite, Copy, Die
<1> QED BY <1>1, <1>2, <1>3, <1>4, <1>5, <1>6, <1>7, <1>8, <1>9, <1>10, <1>11, <1>12
        DEF Step, Running, Locking

\* The other half of the invariant is inductive with it.
LEMMA InstallsKept ==
    ASSUME IInv, [Next]_vars
    PROVE  InstallsAreKnown'
<1>1. TypeOK /\ LocksAreHeld /\ InventoriedAreWhole(installs) /\ \A q \in Procs : Known(q) /\ PlaceIsKnown(q)
  BY KnownToAll DEF IInv, DownloadsAreKnown, InstallsAreKnown
<1>2. ASSUME NEW p \in Procs, Step(p) PROVE InstallsAreKnown'
  <2>1. InventoriedAreWhole(installs')
    BY <1>1, <1>2, InventoriedKept
  <2>2. PlaceIsKnown(p)'
    BY <1>1, <1>2, OwnPlace
  <2>3. \A q \in Procs \ {p} : PlaceIsKnown(q)'
    BY <1>1, <1>2, OthersPlace
  <2>4. \A q \in Procs : PlaceIsKnown(q)'
    BY <2>2, <2>3
  <2> QED BY <2>1, <2>4 DEF InstallsAreKnown, InventoriedAreWhole
<1>3. CASE CleanCache \/ UNCHANGED vars
  <2>1. UNCHANGED <<installs, quarantine, pc, hand>>
    BY <1>3 DEF CleanCache, vars, disk
  <2> QED BY <1>1, <2>1 DEF InstallsAreKnown, InventoriedAreWhole, PlaceIsKnown, Fetching, HoldsInstall,
             Imports, At
<1> QED BY <1>2, <1>3 DEF Next, Step

\* At the start nothing is under way.
LEMMA InitInstalls ==
    ASSUME Init, InventoriedAreWhole(installs)
    PROVE  InstallsAreKnown
  BY DEF Init, InstallsAreKnown, PlaceIsKnown, Fetching, Inventory, Downloading, At

-----------------------------------------------------------------------------
(* Theorems.                                                               *)

\* Whatever is on disk at the start, whoever works on the partial file of an archive holds the
\* lock of its digest, what is persisted was verified, what is extracted is in the cache, and
\* nothing is fetched that is there.
THEOREM DownloadsNeverClash == Spec => []DownloadsAgree
<1>1. Init => DownloadsAreKnown
  BY InitDownloads
<1>2. DownloadsAreKnown /\ [Next]_vars => DownloadsAreKnown'
  BY DownloadsKept
<1>3. DownloadsAreKnown => DownloadsAgree
  BY DEF DownloadsAreKnown
<1> QED BY <1>1, <1>2, <1>3, PTL DEF Spec

\* download_verified uses up an attempt or a source whenever it starts over, so that no source
\* keeps it busy forever.
THEOREM DownloadsGiveUp == Spec => RetriesAreUsedUp
<1> DEFINE Used == \A p \in Procs :
               /\ pc[p] \in {"connect", "reconnect", "receive"} /\ pc'[p] = "connect"
               /\ <<pc[p], hand[p]>>' # <<pc[p], hand[p]>>
               =>  \/ hand'[p].source > hand[p].source
                   \/ /\ hand'[p].source = hand[p].source
                      /\ hand'[p].attempt > hand[p].attempt
<1>1. DownloadsAreKnown /\ [Next]_vars => [Used]_vars
  <2> SUFFICES ASSUME DownloadsAreKnown, Next, NEW q \in Procs,
                      pc[q] \in {"connect", "reconnect", "receive"}, pc'[q] = "connect",
                      <<pc[q], hand[q]>>' # <<pc[q], hand[q]>>
               PROVE  \/ hand'[q].source > hand[q].source
                      \/ /\ hand'[q].source = hand[q].source
                         /\ hand'[q].attempt > hand[q].attempt
    OBVIOUS
  <2>1. TypeOK /\ LocksAreHeld /\ \A p \in Procs : StepOfOp(p) /\ LayersAreStaged(p)
    BY DEF DownloadsAreKnown
  <2>2. PICK p \in Procs : Step(p)
    BY DEF Next, CleanCache, Step
  <2>3. p = q
    BY <2>1, <2>2, OthersStay
  <2>4. ~Fail(p) /\ ~Return(p)
    BY <2>1, <2>3, Failed, Idle
  <2>5. ConnectFails(p) \/ ReceiveStops(p)
    BY <2>1, <2>2, <2>3, <2>4
       DEF Step, StartInstall, StartImport, Locking, TakeInstall, TakeDownload, Die, Running, Check, Look,
           Cached, Connect, Reconnect, ReceiveTooMuch, ReceiveEnds, Persist, DropPartial, ExtractLayer,
           Finish, Commit, Discard, Restore, InventoryRead, InventoryWrite, Copy, Goto, TypeOK, At
  <2>6. PICK length \in 0 .. MaxDownload + 1 : Retry(p, length)
    BY <2>1, <2>4, <2>5, AttemptEnds
  <2>7. \/ hand'[p].source = hand[p].source /\ hand'[p].attempt = hand[p].attempt + 1
        \/ hand'[p].source = hand[p].source + 1
    BY <2>1, <2>4, <2>6, Retried
  <2>8. hand[p].source \in Nat /\ hand[p].attempt \in Nat
    BY <2>1, PartsType, Bounds DEF Hand
  <2> QED BY <2>3, <2>7, <2>8
<1>2. Init => DownloadsAreKnown
  BY InitDownloads
<1>3. DownloadsAreKnown /\ [Next]_vars => DownloadsAreKnown'
  BY DownloadsKept
<1> QED BY <1>1, <1>2, <1>3, PTL DEF Spec, RetriesAreUsedUp

\* Where no receipt that is completed without a lock is in a directory that a repair replaces:
\* the locks, the steps and the disk agree as the invariant says.
THEOREM InstallerInvariantHolds ==
    ASSUME \A s \in InitialInstalls : InventoriedAreWhole(s)
    PROVE  Spec => []IInv
<1>1. Init => IInv
  BY InitDownloads, InitInstalls DEF Init, IInv
<1>2. IInv /\ [Next]_vars => IInv'
  BY DownloadsKept, InstallsKept DEF IInv
<1> QED BY <1>1, <1>2, PTL DEF Spec

\* The invariant in the form the lemmas ask for.
LEMMA WhoInstalls ==
    ASSUME IInv
    PROVE  TypeOK /\ LocksAreHeld /\ \A q \in Procs : Known(q) /\ PlaceIsKnown(q)
  BY KnownToAll DEF IInv, DownloadsAreKnown, InstallsAreKnown

\* installer.rs: an installation directory changes only as a whole.  It is published with every
\* layer and a receipt that fits, moved away when it is Pinset's and damaged, or given back.
THEOREM InstallationsChangeWhole ==
    ASSUME \A s \in InitialInstalls : InventoriedAreWhole(s)
    PROVE  Spec => InstallsChangeWhole
<1> DEFINE Changes == \A i \in Identities : installs'[i] # installs[i] =>
        \/ installs[i] = None /\ installs'[i] = Whole(i)
        \/ /\ installs'[i] = None
           /\ installs[i].receipt # None
           /\ ~(Reusable(i, installs[i]) /\ Undamaged(i, installs[i]))
        \/ installs[i] = None /\ \E p \in Procs : quarantine[p] = installs'[i]
        \/ /\ installs[i] # None /\ installs[i].receipt # None
           /\ installs'[i] = [installs[i] EXCEPT !.receipt.commands = TRUE]
<1>1. IInv /\ [Next]_vars => [Changes]_vars
  <2> SUFFICES ASSUME IInv, Next PROVE Changes
    OBVIOUS
  <2> SUFFICES ASSUME NEW i \in Identities, installs'[i] # installs[i]
               PROVE  \/ installs[i] = None /\ installs'[i] = Whole(i)
                      \/ /\ installs'[i] = None
                         /\ installs[i].receipt # None
                         /\ ~(Reusable(i, installs[i]) /\ Undamaged(i, installs[i]))
                      \/ installs[i] = None /\ \E p \in Procs : quarantine[p] = installs'[i]
                      \/ /\ installs[i] # None /\ installs[i].receipt # None
                         /\ installs'[i] = [installs[i] EXCEPT !.receipt.commands = TRUE]
    OBVIOUS
  <2>1. PICK p \in Procs : Step(p)
    BY DEF Next, CleanCache, Step
  <2>2. TypeOK /\ Known(p) /\ PlaceIsKnown(p)
    BY WhoInstalls
  <2>3. /\ i = hand[p].id
        /\ Moves(p, i) \/ Publishes(p, i) \/ GivesBack(p, i) \/ Completes(p, i)
    BY <2>1, <2>2, InstallationChanges
  <2>4. ASSUME Completes(p, i)
        PROVE  /\ installs[i] # None /\ installs[i].receipt # None
               /\ installs'[i] = [installs[i] EXCEPT !.receipt.commands = TRUE]
    BY <2>2, <2>3, <2>4 DEF Completes, PlaceIsKnown, At
  <2> QED BY <2>3, <2>4 DEF Moves, Publishes, GivesBack
<1> QED BY <1>1, InstallerInvariantHolds, PTL DEF Spec, InstallsChangeWhole

\* architecture.md: a repair that is not killed ends with the whole installation or with the one
\* it found, and nothing stays in quarantine.
THEOREM RepairsReplaceOrGiveBack ==
    ASSUME \A s \in InitialInstalls : InventoriedAreWhole(s)
    PROVE  Spec => RepairReplacesOrGivesBack
<1> DEFINE Ends == \A p \in Procs :
        quarantine[p] # None /\ pc'[p] = "idle" /\ deaths' = deaths =>
            /\ quarantine'[p] = None
            /\ installs'[hand[p].id] \in {quarantine[p], Whole(hand[p].id)}
<1>1. IInv /\ [Next]_vars => [Ends]_vars
  <2> SUFFICES ASSUME IInv, Next, NEW q \in Procs,
                      quarantine[q] # None, pc'[q] = "idle", deaths' = deaths
               PROVE  /\ quarantine'[q] = None
                      /\ installs'[hand[q].id] \in {quarantine[q], Whole(hand[q].id)}
    OBVIOUS
  <2>1. TypeOK /\ LocksAreHeld /\ \A r \in Procs : Known(r) /\ PlaceIsKnown(r)
    BY WhoInstalls
  <2>2. pc[q] # "idle"
    BY <2>1 DEF PlaceIsKnown, HoldsInstall, InstallSteps, Downloading
  <2>3. PICK p \in Procs : Step(p)
    BY <2>2 DEF Next, CleanCache, Step, At
  <2>4. p = q
    BY <2>1, <2>2, <2>3, OthersStay DEF Known
  <2>5. ~Die(q)
    BY <2>1, Bounds DEF Die, TypeOK
  <2> QED BY <2>1, <2>3, <2>4, <2>5, RepairEnds
<1> QED BY <1>1, InstallerInvariantHolds, PTL DEF Spec, RepairReplacesOrGivesBack
=============================================================================
