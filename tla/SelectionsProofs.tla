-------------------------- MODULE SelectionsProofs --------------------------
(***************************************************************************)
(* Proofs about Selections.  Of the command that edits, the invariant says *)
(* that whatever it has read is what it was asked for; of what it has      *)
(* resolved, that it is one release; of the edits and clean, that they     *)
(* exclude each other; of a command that runs, that it runs from what its  *)
(* selections named when it read them.  The order of releases is not       *)
(* needed for any of it: ResolutionProofs adds that the newest one is      *)
(* resolved.                                                               *)
(***************************************************************************)
EXTENDS Selections, TLAPS, SequenceTheorems, FiniteSetTheorems

-----------------------------------------------------------------------------
(* Selectors.                                                              *)

LEMMA VersionLength == \A v \in Versions : Len(v) = 4 /\ v \in Seq(Nat) /\ v[1] \in Nat
<1> TAKE v \in Versions
<1> DEFINE n == 4
<1>1. n \in Nat /\ 1 \in 1 .. n /\ v \in [1 .. n -> Nat]
  BY CatalogsAssumption
<1>2. v[1] \in Nat
  BY <1>1
<1> HIDE DEF n
<1>3. v \in Seq(Nat) /\ Len(v) = n
  BY <1>1
<1> QED BY <1>2, <1>3 DEF n

\* A selector matches a version by its leading parts.
LEMMA MatchesParts ==
    ASSUME NEW selector \in Selectors, NEW r, r.version \in Versions
    PROVE  /\ Len(selector.parts) \in Nat
           /\ Matches(r, selector) <=>
                /\ Len(selector.parts) <= 4
                /\ \A i \in 1 .. Len(selector.parts) : r.version[i] = selector.parts[i]
                /\ selector.lts => r.lts
                /\ selector.date # None => r.date = selector.date
<1> DEFINE parts == selector.parts
           v == r.version
<1>1. parts \in Seq(Nat)
  BY CatalogsAssumption DEF Selector
<1>2. Len(parts) \in Nat /\ parts = [i \in 1 .. Len(parts) |-> parts[i]]
  BY <1>1
<1>3. v \in Seq(Nat) /\ Len(v) = 4
  BY VersionLength
<1>4. ASSUME Len(parts) <= 4
      PROVE  SubSeq(v, 1, Len(parts)) = [i \in 1 .. Len(parts) |-> v[i]]
  <2>1. SubSeq(v, 1, Len(parts)) = [i \in 1 .. Len(parts) |-> v[1 + i - 1]]
    BY <1>2, <1>3, <1>4, SubSeqProperties
  <2>2. \A i \in 1 .. Len(parts) : 1 + i - 1 = i
    BY <1>2
  <2> QED BY <2>1, <2>2
<1>5. ASSUME Len(parts) <= 4
      PROVE  SubSeq(v, 1, Len(parts)) = parts <=> \A i \in 1 .. Len(parts) : v[i] = parts[i]
  <2>1. SubSeq(v, 1, Len(parts)) = parts <=>
            [i \in 1 .. Len(parts) |-> v[i]] = [i \in 1 .. Len(parts) |-> parts[i]]
    BY <1>2, <1>4, <1>5
  <2> QED BY <2>1
<1> QED BY <1>2, <1>3, <1>5 DEF Matches

-----------------------------------------------------------------------------
(* Types.                                                                  *)

\* What an operator makes of a release, a selection or an entry.
LEMMA LockedType ==
    ASSUME NEW selector \in Selectors, NEW r \in Release, NEW targets
    PROVE  /\ Locked(selector, r, targets) \in LockedTool
           /\ Undated(Locked(selector, r, targets)) \in LockedTool
<1>1. [t \in Targets |-> IF t \in targets THEN r.build ELSE None] \in Artifacts
  BY DEF Artifacts, Release
<1>2. Locked(selector, r, targets) \in LockedTool
  BY <1>1 DEF Locked, LockedTool, Release
<1> QED BY <1>2 DEF Undated, LockedTool

LEMMA InstallationType ==
    ASSUME NEW tool \in CatalogTools, NEW entry \in LockedTool, NEW machine \in Targets,
           entry.artifacts[machine] # None
    PROVE  InstallationOf(tool, entry, machine) \in Installation
<1>1. entry.artifacts[machine] \in Builds
  BY DEF LockedTool, Artifacts
<1> QED BY <1>1 DEF InstallationOf, Installation, LockedTool

LEMMA InstallationsType ==
    ASSUME NEW selection \in Selection, NEW machine \in Targets
    PROVE  Installations(selection, machine) \subseteq Installation
<1>1. \A t \in CatalogTools : selection[t] # None => selection[t] \in LockedTool
  BY DEF Selection
<1> QED BY <1>1, InstallationType DEF Installations, Selected

LEMMA RetainedType ==
    ASSUME NEW entry \in LockedTool, NEW place
    PROVE  Retained(entry, place) \in LockedTool /\ Retained(entry, place) # None
           /\ Retained(entry, place).requested = entry.requested
           /\ Retained(entry, place).version = entry.version
           /\ Retained(entry, place).date = entry.date
           /\ Retained(entry, place).artifacts =
                [t \in Targets |-> IF t \in PlatformsAt(place) THEN entry.artifacts[t] ELSE None]
<1> DEFINE kept == [t \in Targets |-> IF t \in PlatformsAt(place) THEN entry.artifacts[t] ELSE None]
<1>1. kept \in Artifacts
  BY DEF Artifacts, LockedTool
<1>2. Retained(entry, place) = [entry EXCEPT !.artifacts = kept]
  BY DEF Retained
<1> HIDE DEF kept
<1>3. /\ Retained(entry, place) \in LockedTool
      /\ Retained(entry, place).requested = entry.requested
      /\ Retained(entry, place).version = entry.version
      /\ Retained(entry, place).date = entry.date
      /\ Retained(entry, place).artifacts = kept
  BY <1>1, <1>2 DEF LockedTool
<1> QED BY <1>3, CatalogsAssumption DEF kept

LEMMA WantedType ==
    ASSUME TypeOK, UserIsKnown, ResolvedIsOne, user.step = "resolved"
    PROVE  /\ Wanted \in Selection
           /\ NodeForPnpm(Wanted)
           /\ user.tool \in CatalogTools /\ user.place \in Places
           /\ lock[user.place] \in Selection
           /\ Wanted = [lock[user.place] EXCEPT ![user.tool] = Retained(user.entry, user.place)]
<1>1. /\ user.tool \in CatalogTools /\ user.place \in Places /\ user.entry \in LockedTool
      /\ user.selector # None
      /\ NodeForPnpm([lock[user.place] EXCEPT ![user.tool] = user.selector])
  BY DEF TypeOK, UserIsKnown, ResolvedIsOne, User, Using
<1>2. lock[user.place] \in Selection
  BY <1>1 DEF TypeOK
<1>3. Retained(user.entry, user.place) \in LockedTool /\ Retained(user.entry, user.place) # None
  BY <1>1, RetainedType
<1>4. Wanted \in Selection
  BY <1>1, <1>2, <1>3 DEF Wanted, Selection
<1>5. NodeForPnpm(Wanted)
  BY <1>1, <1>2, <1>3 DEF Wanted, NodeForPnpm, Selection, CatalogTools
<1> QED BY <1>1, <1>2, <1>4, <1>5 DEF Wanted

\* What the vendors do.
LEMMA WorldType ==
    ASSUME TypeOK, Vendor \/ Tick
    PROVE  TypeOK'
<1>1. CASE Tick
  <2>1. now' \in 0 .. MaxNow
    BY <1>1, SelectionsAssumption DEF Tick, TypeOK
  <2> QED BY <1>1, <2>1 DEF Tick, TypeOK, fixed, disk, bounds
<1>2. ASSUME NEW s \in Sources, Announce(s) PROVE TypeOK'
  <2>1. PICK r \in Upcoming[s], ready \in SUBSET Targets :
            catalog' = [catalog EXCEPT ![s] = @ \cup
                {[r EXCEPT !.offers = [t \in Targets |-> IF t \in ready THEN @[t] ELSE {}]]}]
    BY <1>2 DEF Announce
  <2> DEFINE part == [t \in Targets |-> IF t \in ready THEN r.offers[t] ELSE {}]
  <2>2. r \in Release
    BY SelectionsAssumption
  <2>3. [r EXCEPT !.offers = part] \in Release
    <3>1. part \in [Targets -> SUBSET Parts]
      BY <2>2 DEF Release
    <3> HIDE DEF part
    <3> QED BY <2>2, <3>1 DEF Release
  <2>4. catalog' = [catalog EXCEPT ![s] = @ \cup {[r EXCEPT !.offers = part]}]
    BY <2>1
  <2> HIDE DEF part
  <2>5. catalog[s] \cup {[r EXCEPT !.offers = part]} \in SUBSET Release
    BY <2>3 DEF TypeOK
  <2>6. catalog' \in [Sources -> SUBSET Release]
    BY <2>4, <2>5 DEF TypeOK
  <2> QED BY <1>2, <2>6 DEF Announce, Others, TypeOK, fixed, disk
<1>3. ASSUME NEW s \in Sources, Upload(s) PROVE TypeOK'
  <2>1. PICK r \in catalog[s], u \in Upcoming[s] : catalog' = [catalog EXCEPT ![s] = (@ \ {r}) \cup {u}]
    BY <1>3 DEF Upload
  <2>2. u \in Release
    BY SelectionsAssumption
  <2>3. (catalog[s] \ {r}) \cup {u} \in SUBSET Release
    BY <2>2 DEF TypeOK
  <2>4. catalog' \in [Sources -> SUBSET Release]
    BY <2>1, <2>3 DEF TypeOK
  <2> QED BY <1>3, <2>4 DEF Upload, Others, TypeOK, fixed, disk
<1>4. ASSUME NEW s \in Sources, BuildAgain(s) PROVE TypeOK'
  <2>1. PICK r \in catalog[s] : \E b \in Builds \ {r.build} :
            /\ catalog' = [catalog EXCEPT ![s] = (@ \ {r}) \cup {[r EXCEPT !.build = b]}]
            /\ \/ user' = user
               \/ user' = [user EXCEPT !.offered = {o \in @ : o.version # r.version}]
    BY <1>4 DEF BuildAgain
  <2>2. r \in Release /\ catalog[s] \subseteq Release
    BY DEF TypeOK
  <2>3. \A b \in Builds : [r EXCEPT !.build = b] \in Release
    BY <2>2 DEF Release
  <2>4. catalog' \in [Sources -> SUBSET Release]
    BY <2>1, <2>2, <2>3 DEF TypeOK
  <2>5. user' \in User /\ user'.step = user.step
    BY <2>1 DEF TypeOK, User
  <2> QED BY <1>4, <2>4, <2>5 DEF BuildAgain, TypeOK, fixed, disk
<1> QED BY <1>1, <1>2, <1>3, <1>4 DEF Vendor

-----------------------------------------------------------------------------
(* What `use` reads.                                                       *)

LEMMA NotListedNone == None \notin Selectors /\ None \notin LockedTool /\ None \notin Release
                       /\ None \notin Versions /\ None \notin Builds /\ None \notin Dates
  BY CatalogsAssumption

\* While something is read, it is clear for whom.
LEMMA Reads ==
    ASSUME TypeOK, UserIsKnown, Using
    PROVE  /\ user.tool \in CatalogTools /\ user.selector \in Selectors /\ user.place \in Places
           /\ IsSelector(user.tool, user.selector)
           /\ user.chosen # None => user.chosen \in Release /\ Matches(user.chosen, user.selector)
           /\ user \in User /\ user.read \subseteq Release
           /\ \A s \in Sources : catalog[s] \subseteq Release
           /\ Index(user.tool, user.selector) \in Sources
<1>1. user \in User /\ user.tool # None /\ user.selector # None
  BY DEF TypeOK, UserIsKnown
<1>2. user.tool \in CatalogTools
  BY <1>1 DEF User
<1>3. Index(user.tool, user.selector) \in Sources
  BY <1>2 DEF Index, Sources
<1> QED BY <1>1, <1>2, <1>3 DEF TypeOK, UserIsKnown, User

\* A release that is chosen is one of those that were read, and matches.
LEMMA FirstMatches ==
    ASSUME NEW releases, NEW selector, NEW r \in First(releases, selector)
    PROVE  r \in releases /\ Matches(r, selector)
  BY DEF First, Newest

LEMMA UsableOnly ==
    ASSUME NEW tool, NEW releases
    PROVE  Usable(tool, releases) \subseteq releases
  BY DEF Usable

Answer(entry) ==
    /\ entry \in LockedTool /\ entry.requested = user.selector
    /\ \E b \in Builds : \A t \in Targets : entry.artifacts[t] \in {b, None}
    /\ Matches([version |-> entry.version, date |-> entry.date,
                lts |-> entry.requested.lts], entry.requested)

\* Any release of a version that matches answers the question, and one of the date if that
\* was asked for.
LEMMA EntryAnswers ==
    ASSUME TypeOK, UserIsKnown, Using, NEW r \in Release, NEW m, m.version = r.version,
           Matches(m, user.selector), user.selector.date # None => r.date = user.selector.date,
           NEW targets
    PROVE  /\ Answer(Entry(r, targets))
           /\ user.selector.date = None => Answer(Undated(Entry(r, targets)))
<1>1. user.selector \in Selectors /\ r.version \in Versions /\ r.build \in Builds
  BY Reads DEF Release
<1> DEFINE e == Entry(r, targets)
<1>2. e \in LockedTool /\ Undated(e) \in LockedTool
  BY <1>1, LockedType DEF Entry
<1>3. /\ e.requested = user.selector /\ e.version = r.version /\ e.date = r.date
      /\ \A t \in Targets : e.artifacts[t] \in {r.build, None}
  BY DEF Entry, Locked
<1>4. /\ Undated(e).requested = user.selector /\ Undated(e).version = r.version
      /\ Undated(e).date = None /\ Undated(e).artifacts = e.artifacts
  BY <1>2, <1>3 DEF Undated, LockedTool
<1> HIDE DEF e
<1>5. ASSUME NEW date, user.selector.date # None => date = user.selector.date
      PROVE  Matches([version |-> r.version, date |-> date, lts |-> user.selector.lts], user.selector)
  <2> DEFINE a == [version |-> r.version, date |-> date, lts |-> user.selector.lts]
  <2>1. a.version = r.version /\ a.date = date /\ a.lts = user.selector.lts
    OBVIOUS
  <2> HIDE DEF a
  <2>2. Matches(a, user.selector)
    BY <1>5, <2>1 DEF Matches
  <2> QED BY <2>2 DEF a
<1>6. Answer(e)
  BY <1>1, <1>2, <1>3, <1>5 DEF Answer
<1>7. user.selector.date = None => Answer(Undated(e))
  BY <1>1, <1>2, <1>3, <1>4, <1>5 DEF Answer
<1> QED BY <1>6, <1>7 DEF e

Asks(next) == next.tool = user.tool /\ next.selector = user.selector /\ next.place = user.place

\* The answer ends the reading.
LEMMA Answered ==
    ASSUME TypeOK, UserIsKnown, Using, UNCHANGED Reading, user' \in User, Asks(user'),
           user'.step = "resolved", Answer(user'.entry),
           user'.chosen # None => Matches(user'.chosen, user.selector)
    PROVE  UserIsKnown' /\ ResolvedIsOne'
<1>1. UserIsKnown'
  BY DEF UserIsKnown, Using, Asks, Reading, disk
<1>2. user'.entry # None
  BY NotListedNone DEF Answer
<1> QED BY <1>1, <1>2 DEF ResolvedIsOne, Answer, Asks

LEMMA ResolvedAnswers ==
    ASSUME TypeOK, UserIsKnown, Using, UNCHANGED Reading, NEW entry, Answer(entry), Resolved(entry)
    PROVE  user' \in User /\ UserIsKnown' /\ ResolvedIsOne'
<1>1. user \in User /\ (user.chosen # None => Matches(user.chosen, user.selector))
  BY Reads
<1>2. /\ user' \in User /\ Asks(user') /\ user'.step = "resolved" /\ user'.entry = entry
      /\ user'.chosen = user.chosen
  BY <1>1 DEF Resolved, User, Asks, Answer
<1> QED BY <1>1, <1>2, Answered

\* Something was read that is not the answer yet.
LEMMA ReadsOn ==
    ASSUME TypeOK, UserIsKnown, Using, UNCHANGED Reading, Asks(user'),
           user'.step \in {"details", "checksum", "fallback", "pages"},
           user'.chosen # None => Matches(user'.chosen, user.selector),
           user'.step \in {"details", "checksum"} => user'.chosen # None,
           user'.step = "fallback" => user.tool = "python",
           user'.step \in {"details", "fallback"} /\ user.tool = "python" /\ user'.chosen # None =>
                Len(user.selector.parts) <= 3
    PROVE  UserIsKnown' /\ ResolvedIsOne'
<1>1. UserIsKnown'
  BY DEF UserIsKnown, Using, Asks, Reading, disk
<1> QED BY <1>1 DEF ResolvedIsOne

LEMMA AtMostThree == \A n \in Nat : n <= 4 /\ n # 4 => n <= 3
  OBVIOUS

LEMMA IndexKnows ==
    ASSUME TypeOK, UserIsKnown, ReadIndex \/ NotListed
    PROVE  user' \in User /\ UserIsKnown' /\ ResolvedIsOne'
<1> DEFINE source == Index(user.tool, user.selector)
<1>1. Using /\ UNCHANGED Reading /\ user.step = "index"
  BY DEF ReadIndex, NotListed, Using
<1>2. CASE ReadIndex
  <2>1. PICK r \in First(Usable(source, catalog[source]), user.selector) :
            \/ user.tool = "go" /\ Resolved(Undated(Entry(r, Offered(r))))
            \/ source = "standalone" /\ Resolved(Entry(r, Offered(r)))
            \/ /\ source \notin {"go", "standalone"}
               /\ user' = [user EXCEPT !.chosen = r, !.step = "details"]
    BY <1>2 DEF ReadIndex
  <2>2. r \in Release /\ Matches(r, user.selector)
    BY <1>1, <2>1, FirstMatches, UsableOnly, Reads
  <2>3. CASE user.tool = "go" /\ Resolved(Undated(Entry(r, Offered(r))))
    <3>1. user.selector.date = None
      BY <1>1, <2>3, Reads DEF IsSelector
    <3> QED BY <1>1, <2>2, <2>3, <3>1, EntryAnswers, ResolvedAnswers
  <2>4. CASE source = "standalone" /\ Resolved(Entry(r, Offered(r)))
    <3>1. user.selector.date # None => r.date = user.selector.date
      BY <2>2 DEF Matches
    <3> QED BY <1>1, <2>2, <2>4, <3>1, EntryAnswers, ResolvedAnswers
  <2>5. CASE /\ source \notin {"go", "standalone"}
             /\ user' = [user EXCEPT !.chosen = r, !.step = "details"]
    <3>1. /\ user' \in User /\ Asks(user') /\ user'.step = "details" /\ user'.chosen = r
      BY <1>1, <2>2, <2>5, Reads DEF User, Asks
    <3>2. r # None
      BY <2>2, NotListedNone
    <3>3. user.tool = "python" => Len(user.selector.parts) <= 3
      <4>1. user.tool = "python" => Len(user.selector.parts) # 4
        BY <2>5 DEF Index
      <4>2. Len(user.selector.parts) \in Nat /\ Len(user.selector.parts) <= 4
        BY <1>1, <2>2, Reads, MatchesParts DEF Release
      <4> QED BY <4>1, <4>2, AtMostThree
    <3> QED BY <1>1, <2>2, <3>1, <3>2, <3>3, ReadsOn
  <2> QED BY <2>1, <2>3, <2>4, <2>5
<1>3. CASE NotListed
  <2>1. user.tool = "python" /\ source = "python"
        /\ user' = [user EXCEPT !.step = "fallback"]
    BY <1>3 DEF NotListed
  <2>2. /\ user' \in User /\ Asks(user') /\ user'.step = "fallback" /\ user'.chosen = user.chosen
    BY <1>1, <2>1, Reads DEF User, Asks
  <2>3. CASE user.chosen = None
    BY <1>1, <2>1, <2>2, <2>3, ReadsOn
  <2>4. CASE user.chosen # None
    <3>1. Len(user.selector.parts) # 4
      BY <2>1 DEF Index
    <3>2. Len(user.selector.parts) \in Nat /\ Len(user.selector.parts) <= 4
      BY <1>1, <2>4, Reads, MatchesParts DEF Release
    <3>3. Len(user.selector.parts) <= 3
      BY <3>1, <3>2, AtMostThree
    <3> QED BY <1>1, <2>1, <2>2, <3>3, Reads, ReadsOn
  <2> QED BY <2>3, <2>4
<1> QED BY <1>2, <1>3

\* The files of the version that was chosen from an index.
LEMMA FilesKnow ==
    ASSUME TypeOK, UserIsKnown, ReadNodeManifest \/ ReadPackages \/ ReadPythonFiles
    PROVE  user' \in User /\ UserIsKnown' /\ ResolvedIsOne'
<1>1. /\ Using /\ UNCHANGED Reading /\ user.step = "details"
      /\ user.tool \in {"node", "pnpm", "bun", "python"}
  BY DEF ReadNodeManifest, ReadPackages, ReadPythonFiles, Using
<1>2. user.selector.date = None
  BY <1>1, Reads DEF IsSelector
<1>3. PICK r \in catalog[user.tool] :
        /\ IF user.chosen # None THEN r.version = user.chosen.version ELSE Matches(r, user.selector)
        /\ \/ \E targets : Resolved(Entry(r, targets))
           \/ user.tool = "python" /\ user' = [user EXCEPT !.step = "fallback"]
  <2>1. user.tool \in {"node", "python"} => user.chosen # None
    BY <1>1 DEF UserIsKnown
  <2> QED BY <1>1, <2>1 DEF ReadNodeManifest, ReadPackages, ReadPythonFiles
<1>4. r \in Release
  BY <1>1, Reads DEF Sources
<1>5. CASE \E targets : Resolved(Entry(r, targets))
  <2>1. PICK targets : Resolved(Entry(r, targets))
    BY <1>5
  <2>2. \E m : m.version = r.version /\ Matches(m, user.selector)
    BY <1>1, <1>3, Reads
  <2> QED BY <1>1, <1>2, <1>4, <2>1, <2>2, EntryAnswers, ResolvedAnswers
<1>6. CASE user.tool = "python" /\ user' = [user EXCEPT !.step = "fallback"]
  <2>1. /\ user' \in User /\ Asks(user') /\ user'.step = "fallback" /\ user'.chosen = user.chosen
    BY <1>1, <1>6, Reads DEF User, Asks
  <2>2. user.chosen # None => Len(user.selector.parts) <= 3
    BY <1>1, <1>6 DEF UserIsKnown
  <2> QED BY <1>1, <1>6, <2>1, <2>2, Reads, ReadsOn
<1> QED BY <1>3, <1>5, <1>6

\* Rust's manifest, and its checksum.
LEMMA RustKnows ==
    ASSUME TypeOK, UserIsKnown, ReadRustManifest \/ ReadRustChecksum
    PROVE  user' \in User /\ UserIsKnown' /\ ResolvedIsOne'
<1>1. Using /\ UNCHANGED Reading
  BY DEF ReadRustManifest, ReadRustChecksum, Using
<1>2. RustSource \in Sources
  BY DEF RustSource, Sources, CatalogTools
<1>3. CASE ReadRustManifest
  <2>1. PICK r \in catalog[RustSource] :
            /\ IF user.selector.date # None THEN r.date = user.selector.date
               ELSE r.version = user.chosen.version /\ r.date = user.chosen.date
            /\ user' = [user EXCEPT !.chosen = r, !.step = "checksum"]
    BY <1>3 DEF ReadRustManifest
  <2>2. r \in Release /\ r # None /\ user.tool = "rust" /\ user.step = "details"
    BY <1>1, <1>2, <1>3, Reads, NotListedNone DEF ReadRustManifest
  <2>3. ~user.selector.lts /\ user.selector \in Selectors
    BY <1>1, <2>2, Reads DEF IsSelector
  <2>4. Matches(r, user.selector)
    <3>1. CASE user.selector.date # None
      <4>1. user.selector.parts = <<>> /\ r.date = user.selector.date
        BY <1>1, <2>1, <3>1, Reads DEF IsSelector
      <4>2. Len(user.selector.parts) = 0
        BY <4>1
      <4> QED BY <2>2, <2>3, <4>1, <4>2, MatchesParts DEF Release
    <3>2. CASE user.selector.date = None
      <4>1. user.chosen # None /\ user.chosen \in Release
        BY <1>1, <2>2, <3>2, Reads DEF UserIsKnown
      <4>2. Matches(user.chosen, user.selector) /\ r.version = user.chosen.version
        BY <1>1, <2>1, <3>2, <4>1, Reads
      <4> QED BY <2>3, <3>2, <4>2 DEF Matches
    <3> QED BY <3>1, <3>2
  <2>5. /\ user' \in User /\ Asks(user') /\ user'.step = "checksum" /\ user'.chosen = r
    BY <1>1, <2>1, <2>2, Reads DEF User, Asks
  <2> QED BY <1>1, <2>2, <2>4, <2>5, ReadsOn
<1>4. CASE ReadRustChecksum
  <2>1. user.chosen # None /\ Resolved(Entry(user.chosen, Complete(user.chosen)))
    BY <1>4 DEF ReadRustChecksum, UserIsKnown
  <2>2. user.chosen \in Release /\ Matches(user.chosen, user.selector)
    BY <1>1, <2>1, Reads
  <2>3. user.selector.date # None => user.chosen.date = user.selector.date
    BY <2>2 DEF Matches
  <2> QED BY <1>1, <2>1, <2>2, <2>3, EntryAnswers, ResolvedAnswers
<1> QED BY <1>3, <1>4

\* The newest standalone build of the version that python.org lists, or of any that matches.
LEMMA StandaloneKnows ==
    ASSUME TypeOK, UserIsKnown, ReadStandalone
    PROVE  user' \in User /\ UserIsKnown' /\ ResolvedIsOne'
<1>1. Using /\ UNCHANGED Reading /\ user.step = "fallback" /\ user.tool = "python"
  BY DEF ReadStandalone, Using, UserIsKnown
<1> DEFINE asked == IF user.chosen = None THEN user.selector
                    ELSE [user.selector EXCEPT !.parts = SubSeq(user.chosen.version, 1, 3)]
<1>2. PICK r \in First(Usable("standalone", catalog["standalone"]), asked) :
            Resolved(Entry(r, Offered(r)))
  BY DEF ReadStandalone
<1>3. r \in Release /\ Matches(r, asked) /\ user.selector \in Selectors
  BY <1>1, <1>2, FirstMatches, UsableOnly, Reads DEF Sources
<1>4. user.selector.date = None /\ user.selector \in Selector
  BY <1>1, Reads, CatalogsAssumption DEF IsSelector
<1>5. Matches(r, user.selector)
  <2>1. CASE user.chosen = None
    BY <1>3, <2>1
  <2>2. CASE user.chosen # None
    <3> DEFINE head == SubSeq(user.chosen.version, 1, 3)
    <3>1. /\ user.chosen \in Release /\ Matches(user.chosen, user.selector)
          /\ Len(user.selector.parts) <= 3
      BY <1>1, <2>2, Reads DEF UserIsKnown
    <3>2. /\ Len(user.selector.parts) \in Nat
          /\ \A i \in 1 .. Len(user.selector.parts) : user.chosen.version[i] = user.selector.parts[i]
      BY <1>3, <3>1, MatchesParts DEF Release
    <3>3. user.chosen.version \in Seq(Nat) /\ Len(user.chosen.version) = 4
          /\ r.version \in Seq(Nat) /\ Len(r.version) = 4
      BY <1>3, <3>1, VersionLength DEF Release
    <3>4. Len(head) = 3 /\ \A i \in 1 .. 3 : head[i] = user.chosen.version[i]
      BY <3>3
    <3>5. SubSeq(r.version, 1, 3) = head
      <4>1. asked.parts = head
        BY <1>4, <2>2 DEF Selector
      <4> HIDE DEF asked, head
      <4> QED BY <1>3, <3>4, <4>1 DEF Matches
    <3>6. \A i \in 1 .. 3 : r.version[i] = user.chosen.version[i]
      <4>1. \A i \in 1 .. 3 : SubSeq(r.version, 1, 3)[i] = r.version[i]
        BY <3>3
      <4> HIDE DEF head
      <4> QED BY <3>4, <3>5, <4>1
    <3>7. \A i \in 1 .. Len(user.selector.parts) : r.version[i] = user.selector.parts[i]
      <4> TAKE i \in 1 .. Len(user.selector.parts)
      <4>1. i \in 1 .. 3
        BY <3>1, <3>2
      <4> QED BY <3>2, <3>6, <4>1
    <3>8. user.selector.lts => r.lts
      BY <1>1, Reads DEF IsSelector
    <3> QED BY <1>3, <1>4, <3>1, <3>2, <3>7, <3>8, MatchesParts DEF Release
  <2> QED BY <2>1, <2>2
<1> QED BY <1>1, <1>2, <1>3, <1>4, <1>5, EntryAnswers, ResolvedAnswers

\* What is chosen from everything that was read.
LEMMA ChosenAnswers ==
    ASSUME TypeOK, UserIsKnown, Using, UNCHANGED Reading, NEW read \in SUBSET Release,
           NEW r \in Release, Matches(r, user.selector), NEW entry, Answer(entry),
           user' = [user EXCEPT !.step = "resolved", !.chosen = r, !.read = read, !.entry = entry]
    PROVE  user' \in User /\ UserIsKnown' /\ ResolvedIsOne'
<1>1. /\ user' \in User /\ Asks(user') /\ user'.step = "resolved" /\ user'.entry = entry
      /\ user'.chosen = r
  BY Reads DEF User, Asks, Answer
<1> QED BY <1>1, Answered

\* A page of Java's releases.
LEMMA JavaKnows ==
    ASSUME TypeOK, UserIsKnown, ReadJavaPage
    PROVE  user' \in User /\ UserIsKnown' /\ ResolvedIsOne'
<1> DEFINE feature == MaxOf(user.features)
           page == Page(catalog["java"], feature, user.page)
           read == user.read \cup {r \in Usable("java", page) :
                        \A s \in user.read : s.version # r.version}
<1>1. Using /\ UNCHANGED Reading /\ user.step = "pages" /\ user.tool = "java"
  BY DEF ReadJavaPage, Using
<1>2. read \in SUBSET Release
  <2>1. page \subseteq catalog["java"]
    BY DEF Page, InFeature
  <2>2. Usable("java", page) \subseteq page
    BY UsableOnly
  <2>3. catalog["java"] \subseteq Release /\ user.read \subseteq Release
    BY <1>1, Reads DEF Sources, CatalogTools
  <2> HIDE DEF page
  <2> QED BY <2>1, <2>2, <2>3
<1>3. \/ Choose(read)
      \/ user' = [user EXCEPT !.read = read, !.page = @ + 1]
      \/ user' = [user EXCEPT !.read = read, !.page = 0, !.features = @ \ {feature}]
  BY DEF ReadJavaPage
<1> HIDE DEF read, feature
<1>4. CASE Choose(read)
  <2>1. PICK r \in First(read, user.selector) :
            user' = [user EXCEPT !.step = "resolved", !.chosen = r, !.read = read,
                                 !.entry = Entry(r, Offered(r))]
    BY <1>4 DEF Choose
  <2>2. r \in Release /\ Matches(r, user.selector)
    BY <1>2, <2>1, FirstMatches
  <2>3. Answer(Entry(r, Offered(r)))
    <3>1. user.selector.date # None => r.date = user.selector.date
      BY <2>2 DEF Matches
    <3> QED BY <1>1, <2>2, <3>1, EntryAnswers
  <2> QED BY <1>1, <1>2, <2>1, <2>2, <2>3, ChosenAnswers
<1>5. CASE \/ user' = [user EXCEPT !.read = read, !.page = @ + 1]
           \/ user' = [user EXCEPT !.read = read, !.page = 0, !.features = @ \ {feature}]
  <2>1. /\ user \in User /\ (user.chosen # None => Matches(user.chosen, user.selector))
        /\ user.page + 1 \in Nat
    BY <1>1, Reads DEF User
  <2>2. /\ user' \in User /\ Asks(user') /\ user'.step = "pages" /\ user'.chosen = user.chosen
    <3>1. CASE user' = [user EXCEPT !.read = read, !.page = @ + 1]
      BY <1>1, <1>2, <2>1, <3>1 DEF User, Asks
    <3>2. CASE user' = [user EXCEPT !.read = read, !.page = 0, !.features = @ \ {feature}]
      <4>1. user.features \ {feature} \in SUBSET Nat
        BY <2>1 DEF User
      <4> QED BY <1>1, <1>2, <2>1, <3>2, <4>1 DEF User, Asks
    <3> QED BY <1>5, <3>1, <3>2
  <2> QED BY <1>1, <2>1, <2>2, ReadsOn
<1> QED BY <1>3, <1>4, <1>5

\* The indexes of Flutter: the versions that are left have one content on every platform.
LEMMA FlutterKnows ==
    ASSUME TypeOK, UserIsKnown, ReadFlutterIndex
    PROVE  user' \in User /\ UserIsKnown' /\ ResolvedIsOne'
<1> DEFINE platform == FlutterPlatforms[user.page + 1]
           read == user.read \cup Usable("flutter", {OnPlatform(r, platform) : r \in catalog["flutter"]})
<1>1. Using /\ UNCHANGED Reading /\ user.step = "pages" /\ user.tool = "flutter"
  BY DEF ReadFlutterIndex, Using
<1>2. read \in SUBSET Release
  <2>1. catalog["flutter"] \subseteq Release /\ user.read \subseteq Release
    BY <1>1, Reads DEF Sources, CatalogTools
  <2>2. ASSUME NEW r \in Release PROVE OnPlatform(r, platform) \in Release
    <3> DEFINE part == [t \in Targets |-> IF t = platform THEN r.offers[t] ELSE {}]
    <3>1. part \in [Targets -> SUBSET Parts]
      BY DEF Release
    <3>2. OnPlatform(r, platform) = [r EXCEPT !.offers = part]
      BY DEF OnPlatform
    <3> HIDE DEF part
    <3> QED BY <3>1, <3>2 DEF Release
  <2> HIDE DEF platform
  <2> DEFINE all == {OnPlatform(r, platform) : r \in catalog["flutter"]}
  <2>3. all \subseteq Release
    BY <2>1, <2>2
  <2>4. Usable("flutter", all) \subseteq all
    BY UsableOnly
  <2> HIDE DEF all
  <2>5. user.read \cup Usable("flutter", all) \in SUBSET Release
    BY <2>1, <2>3, <2>4
  <2> QED BY <2>5 DEF all, platform
<1>3. \/ user' = [user EXCEPT !.read = read, !.page = @ + 1]
      \/ \E r \in First(Agreeing(read), user.selector) :
            user' = [user EXCEPT !.step = "resolved", !.chosen = r, !.read = read,
                        !.entry = [Entry(r, {}) EXCEPT !.artifacts = FlutterArtifacts(read, r.version)]]
  BY DEF ReadFlutterIndex
<1> HIDE DEF read
<1>4. CASE user' = [user EXCEPT !.read = read, !.page = @ + 1]
  <2>1. /\ user \in User /\ (user.chosen # None => Matches(user.chosen, user.selector))
        /\ user.page + 1 \in Nat
    BY <1>1, Reads DEF User
  <2>2. /\ user' \in User /\ Asks(user') /\ user'.step = "pages" /\ user'.chosen = user.chosen
    BY <1>1, <1>2, <1>4, <2>1 DEF User, Asks
  <2> QED BY <1>1, <2>1, <2>2, ReadsOn
<1>5. CASE \E r \in First(Agreeing(read), user.selector) :
            user' = [user EXCEPT !.step = "resolved", !.chosen = r, !.read = read,
                        !.entry = [Entry(r, {}) EXCEPT !.artifacts = FlutterArtifacts(read, r.version)]]
  <2>1. PICK r \in First(Agreeing(read), user.selector) :
            user' = [user EXCEPT !.step = "resolved", !.chosen = r, !.read = read,
                        !.entry = [Entry(r, {}) EXCEPT !.artifacts = FlutterArtifacts(read, r.version)]]
    BY <1>5
  <2>2. /\ r \in read /\ r \in Release /\ Matches(r, user.selector)
        /\ \A d \in read : d.version = r.version => d.build = r.build
    <3>1. r \in Agreeing(read) /\ Matches(r, user.selector)
      BY <2>1, FirstMatches
    <3> QED BY <1>2, <3>1 DEF Agreeing
  <2> DEFINE files == FlutterArtifacts(read, r.version)
  <2>3. files \in Artifacts /\ \A t \in Targets : files[t] \in {r.build, None}
    <3>1. ASSUME NEW t \in Targets
          PROVE  files[t] \in {r.build, None}
      <4> DEFINE of == {e \in read : e.version = r.version /\ e.offers[t] # {}}
      <4>1. CASE of = {}
        BY <4>1 DEF FlutterArtifacts
      <4>2. CASE of # {}
        <5>1. (CHOOSE e \in of : TRUE) \in of
          BY <4>2
        <5>2. files[t] = (CHOOSE e \in of : TRUE).build
          BY <4>2 DEF FlutterArtifacts
        <5> QED BY <2>2, <5>1, <5>2
      <4> QED BY <4>1, <4>2
    <3>2. r.build \in Builds
      BY <2>2 DEF Release
    <3>3. files = [t \in Targets |-> files[t]]
      BY DEF FlutterArtifacts
    <3> HIDE DEF files
    <3> QED BY <3>1, <3>2, <3>3 DEF Artifacts
  <2> HIDE DEF files
  <2> DEFINE entry == [Entry(r, {}) EXCEPT !.artifacts = files]
  <2>4. Answer(entry)
    <3>1. user.selector.date # None => r.date = user.selector.date
      BY <2>2 DEF Matches
    <3>2. Answer(Entry(r, {}))
      BY <1>1, <2>2, <3>1, EntryAnswers
    <3>3. /\ entry \in LockedTool /\ entry.requested = Entry(r, {}).requested
          /\ entry.version = Entry(r, {}).version /\ entry.date = Entry(r, {}).date
          /\ entry.artifacts = files
      BY <2>3, <3>2 DEF Answer, LockedTool
    <3>4. r.build \in Builds
      BY <2>2 DEF Release
    <3> HIDE DEF entry
    <3> QED BY <2>3, <3>2, <3>3, <3>4 DEF Answer
  <2>5. user' = [user EXCEPT !.step = "resolved", !.chosen = r, !.read = read, !.entry = entry]
    BY <2>1 DEF files
  <2> HIDE DEF entry
  <2> QED BY <1>1, <1>2, <2>2, <2>4, <2>5, ChosenAnswers
<1> QED BY <1>3, <1>4, <1>5

ReadsDocument ==
    \/ ReadIndex \/ NotListed \/ ReadNodeManifest \/ ReadPackages \/ ReadRustManifest
    \/ ReadRustChecksum \/ ReadPythonFiles \/ ReadStandalone \/ ReadJavaPage \/ ReadFlutterIndex

\* Every document that is read leads on, or to the answer.
LEMMA ReadKnows ==
    ASSUME TypeOK, UserIsKnown, ReadsDocument
    PROVE  TypeOK' /\ UserIsKnown' /\ ResolvedIsOne' /\ UNCHANGED Reading
           /\ Using /\ user'.step # "idle" /\ user'.step # "install"
<1>1. user' \in User /\ UserIsKnown' /\ ResolvedIsOne'
  BY IndexKnows, FilesKnow, RustKnows, StandaloneKnows, JavaKnows, FlutterKnows DEF ReadsDocument
<1>2. UNCHANGED Reading /\ Using
  BY DEF ReadsDocument, ReadIndex, NotListed, ReadNodeManifest, ReadPackages, ReadRustManifest,
     ReadRustChecksum, ReadPythonFiles, ReadStandalone, ReadJavaPage, ReadFlutterIndex, Using
<1>3. user'.step # "idle" /\ user'.step # "install"
  <2>1. user \in User
    BY DEF TypeOK
  <2> QED BY <2>1 DEF ReadsDocument, ReadIndex, NotListed, ReadNodeManifest, ReadPackages, ReadRustManifest,
             ReadRustChecksum, ReadPythonFiles, ReadStandalone, ReadJavaPage, ReadFlutterIndex,
             Resolved, Choose, User
<1>4. TypeOK'
  BY <1>1, <1>2, <1>3 DEF TypeOK, Reading, fixed, disk, bounds, Using
<1> QED BY <1>1, <1>2, <1>3, <1>4

-----------------------------------------------------------------------------
(* The other commands.                                                     *)

LEMMA IdleUser == Idle \in User /\ Idle.step = "idle" /\ Idle.place = "global"
  BY DEF Idle, User, Places

\* `use` begins.
LEMMA BeginKnows ==
    ASSUME TypeOK, NEW place \in Places, NEW tool, NEW selector, Begin(place, tool, selector)
    PROVE  TypeOK' /\ UserIsKnown' /\ ResolvedIsOne'
<1>1. /\ tool \in CatalogTools /\ selector \in Selectors /\ IsSelector(tool, selector)
      /\ NodeForPnpm([lock[place] EXCEPT ![tool] = selector])
      /\ UNCHANGED <<catalog, now, fixed, disk, runner>> /\ cleaning = {}
  BY SelectionsAssumption DEF Begin
<1>2. selector \in Selector /\ selector # None /\ tool # None
  BY <1>1, NotListedNone, CatalogsAssumption, RoutingAssumption
<1> DEFINE step == IF tool \in {"java", "flutter"} THEN "pages"
                   ELSE IF NeedsIndex(tool, selector) THEN "index" ELSE "details"
           source == Index(tool, selector)
           offered == Usable(source, catalog[source])
           features == IF tool = "java" THEN Features(catalog[tool], selector) ELSE {}
<1>3. user' = [Idle EXCEPT !.step = step, !.place = place, !.tool = tool, !.selector = selector,
                           !.offered = offered, !.features = features]
  BY DEF Begin
<1>4. offered \in SUBSET Release
  <2>1. source \in Sources
    BY <1>1 DEF Index, Sources
  <2>2. offered \subseteq catalog[source]
    BY UsableOnly
  <2> QED BY <2>1, <2>2 DEF TypeOK
<1>5. features \in SUBSET Nat
  <2>1. \A r \in catalog["java"] : Feature(r) \in Nat
    <3>1. \A r \in catalog["java"] : r \in Release
      BY DEF TypeOK, Sources, CatalogTools
    <3> QED BY <3>1, VersionLength DEF Feature, Release
  <2> QED BY <2>1 DEF Features
<1>6. step \in {"pages", "index", "details"}
      /\ (step = "details" => tool \in {"pnpm", "bun", "rust"})
      /\ (step = "details" /\ tool = "rust" => selector.date # None)
  BY <1>1 DEF NeedsIndex, IsSelector
<1> HIDE DEF step, offered, features
<1>7. /\ user' \in User /\ user'.step = step /\ user'.place = place /\ user'.tool = tool
      /\ user'.selector = selector /\ user'.chosen = None
  <2>1. user' = [step |-> step, place |-> place, tool |-> tool, selector |-> selector,
                 offered |-> offered, read |-> {}, features |-> features, page |-> 0,
                 chosen |-> None, entry |-> None]
    BY <1>3 DEF Idle
  <2> QED BY <1>1, <1>4, <1>5, <1>6, <2>1 DEF User
<1>8. lock' = lock
  BY <1>1 DEF disk
<1>9. TypeOK'
  BY <1>1, <1>7 DEF TypeOK, fixed, disk
<1>10. UserIsKnown'
  BY <1>1, <1>2, <1>6, <1>7, <1>8 DEF UserIsKnown, Using
<1>11. ResolvedIsOne'
  BY <1>6, <1>7 DEF ResolvedIsOne
<1> QED BY <1>9, <1>10, <1>11

\* Who is done.
LEMMA FreeKnows ==
    ASSUME user' = Idle \/ user'.step \in {"idle", "install"}
    PROVE  UserIsKnown' /\ ResolvedIsOne'
  BY IdleUser DEF UserIsKnown, ResolvedIsOne, Using

\* What is deselected is remembered for a command that runs.
LEMMA DeselectedType ==
    ASSUME TypeOK, NEW next \in [Places -> Selection], Deselected(next)
    PROVE  /\ runner' \in Runner /\ runner'.step = runner.step /\ runner'.place = runner.place
           /\ runner'.command = runner.command /\ runner'.own = runner.own
           /\ runner'.lock = runner.lock /\ runner'.sdk = runner.sdk
           /\ runner.step # "idle" => runner'.dropped = runner.dropped \cup
                ((UNION {Installations(lock[p], here) : p \in Places})
                    \ (UNION {Installations(next[p], here) : p \in Places}))
<1> DEFINE before == UNION {Installations(lock[p], here) : p \in Places}
           after == UNION {Installations(next[p], here) : p \in Places}
<1>1. before \subseteq Installation
  BY InstallationsType DEF TypeOK
<1>2. runner \in Runner
  BY DEF TypeOK
<1>3. runner' = IF runner.step = "idle" THEN runner
                ELSE [runner EXCEPT !.dropped = @ \cup (before \ after)]
  BY DEF Deselected
<1> HIDE DEF before, after
<1>4. /\ runner' \in Runner /\ runner'.step = runner.step /\ runner'.place = runner.place
      /\ runner'.command = runner.command /\ runner'.own = runner.own
      /\ runner'.lock = runner.lock /\ runner'.sdk = runner.sdk
      /\ runner.step # "idle" => runner'.dropped = runner.dropped \cup (before \ after)
  <2>1. CASE runner.step = "idle"
    BY <1>2, <1>3, <2>1
  <2>2. CASE runner.step # "idle"
    <3> DEFINE more == runner.dropped \cup (before \ after)
    <3>1. more \in SUBSET Installation
      BY <1>1, <1>2 DEF Runner
    <3>2. runner' = [runner EXCEPT !.dropped = more]
      BY <1>3, <2>2
    <3> HIDE DEF more
    <3>3. /\ runner.step \in {"idle", "inherit", "check", "start", "running"}
          /\ runner.place \in Places /\ runner.command \in Commands \cup {None}
          /\ runner.own \in Selection /\ runner.lock \in Selection
          /\ runner.sdk \in [CatalogTools -> Installation \cup {None}]
          /\ runner = [step |-> runner.step, place |-> runner.place,
                       command |-> runner.command, own |-> runner.own, lock |-> runner.lock,
                       sdk |-> runner.sdk, dropped |-> runner.dropped]
      BY <1>2 DEF Runner
    <3>4. runner' = [step |-> runner.step, place |-> runner.place,
                     command |-> runner.command, own |-> runner.own, lock |-> runner.lock,
                     sdk |-> runner.sdk, dropped |-> more]
      BY <3>2, <3>3
    <3>5. runner' \in Runner
      BY <3>1, <3>3, <3>4 DEF Runner
    <3> QED BY <3>4, <3>5 DEF more
  <2> QED BY <2>1, <2>2
<1> QED BY <1>4 DEF before, after

LEMMA BoundType ==
    ASSUME TypeOK, NEW place, NEW selection \in Selection, Installable(selection), NEW recreate
    PROVE  Bound(place, selection, recreate) \in Installation \cup {None}
<1>1. CASE selection["python"] # None
  <2>1. selection["python"] \in LockedTool /\ selection["python"].artifacts[here] # None
    BY <1>1 DEF Selection, Installable, Selected, CatalogTools
  <2> QED BY <2>1, InstallationType DEF Bound, TypeOK, CatalogTools
<1>2. CASE selection["python"] = None
  BY <1>2 DEF Bound, TypeOK
<1> QED BY <1>1, <1>2

\* An edit ends: commits, gives up, or installs.
LEMMA EditType ==
    ASSUME TypeOK, UserIsKnown, ResolvedIsOne, EditsAreAlone,
           \/ \E bare \in BOOLEAN : Commit(bare)
           \/ \E p \in Places, t \in CatalogTools : Remove(p, t)
           \/ \E p \in Places : StartInstall(p)
           \/ \E recreate \in BOOLEAN : Install(recreate)
           \/ InstallFails \/ GiveUp
    PROVE  TypeOK' /\ UserIsKnown' /\ ResolvedIsOne'
<1>1. ASSUME NEW bare \in BOOLEAN, Commit(bare) PROVE TypeOK' /\ UserIsKnown' /\ ResolvedIsOne'
  <2>1. user.step = "resolved" /\ user' = Idle
    BY <1>1 DEF Commit, Approved, Free
  <2> DEFINE next == [lock EXCEPT ![user.place] = Wanted]
  <2>2. Wanted \in Selection /\ NodeForPnpm(Wanted) /\ user.place \in Places
    BY <2>1, WantedType
  <2>3. /\ next \in [Places -> Selection] /\ NodeForPnpm(next["project"]) /\ NodeForPnpm(next["global"])
    BY <2>2 DEF TypeOK, Places
  <2>4. lock' = next /\ Deselected(next) /\ UNCHANGED <<catalog, now, fixed, repairing, cleaning, bounds>>
    BY <1>1 DEF Commit
  <2> HIDE DEF next
  <2>5. runner' \in Runner
    BY <2>3, <2>4, DeselectedType
  <2>6. Installations(Wanted, here) \subseteq Installation
    BY <2>2, InstallationsType DEF TypeOK
  <2>7. repairing = {}
    BY <2>1 DEF EditsAreAlone
  <2>8. /\ whole' \subseteq Installation /\ broken' \subseteq Installation
        /\ whole' \cap broken' = {} /\ venv' \in Installation \cup {None}
    <3>1. broken' = broken
      BY <1>1 DEF Commit
    <3>2. CASE UNCHANGED <<whole, venv>>
      BY <3>1, <3>2 DEF TypeOK
    <3>3. CASE /\ Installable(Wanted)
               /\ whole' = whole \cup (Installations(Wanted, here) \ broken)
               /\ venv' = Bound(user.place, Wanted, FALSE)
      <4>1. venv' \in Installation \cup {None}
        BY <2>2, <3>3, BoundType
      <4> QED BY <2>6, <3>1, <3>3, <4>1 DEF TypeOK
    <3> QED BY <1>1, <3>2, <3>3 DEF Commit
  <2>9. user' \in User /\ user'.step = "idle"
    BY <2>1, IdleUser
  <2>10. TypeOK'
    BY <2>3, <2>4, <2>5, <2>7, <2>8, <2>9 DEF TypeOK, fixed
  <2> QED BY <2>1, <2>10, FreeKnows
<1>2. ASSUME NEW p \in Places, NEW t \in CatalogTools, Remove(p, t)
      PROVE  TypeOK' /\ UserIsKnown' /\ ResolvedIsOne'
  <2> DEFINE left == [lock[p] EXCEPT ![t] = None]
             next == [lock EXCEPT ![p] = left]
  <2>1. /\ lock' = next /\ Deselected(next) /\ NodeForPnpm(next[p]) /\ user.step = "idle"
        /\ UNCHANGED <<catalog, now, fixed, whole, broken, venv, repairing, cleaning, user>>
    BY <1>2 DEF Remove
  <2>2. left \in Selection
    BY DEF TypeOK, Selection
  <2> HIDE DEF left
  <2>3. /\ next \in [Places -> Selection] /\ NodeForPnpm(next["project"]) /\ NodeForPnpm(next["global"])
    BY <2>1, <2>2 DEF TypeOK, Places
  <2> HIDE DEF next
  <2>4. runner' \in Runner
    BY <2>1, <2>3, DeselectedType
  <2>5. TypeOK'
    BY <2>1, <2>3, <2>4 DEF TypeOK, fixed
  <2> QED BY <2>1, <2>5, FreeKnows
<1>3. ASSUME NEW p \in Places, StartInstall(p)
      PROVE  TypeOK' /\ UserIsKnown' /\ ResolvedIsOne'
  <2>1. /\ repairing' \subseteq whole \cup broken /\ whole' = whole \ repairing' /\ UNCHANGED broken
        /\ user' = [Idle EXCEPT !.step = "install", !.place = p] /\ cleaning = {}
        /\ UNCHANGED <<catalog, now, fixed, lock, venv, cleaning, runner>>
    BY <1>3 DEF StartInstall
  <2>2. user' \in User /\ user'.step = "install"
    BY <2>1 DEF Idle, User
  <2>3. whole' \cap repairing' = {} /\ whole' \cap broken' = {}
    BY <2>1 DEF TypeOK
  <2>4. TypeOK'
    BY <2>1, <2>2, <2>3 DEF TypeOK, fixed
  <2> QED BY <2>2, <2>4, FreeKnows
<1>4. ASSUME NEW recreate \in BOOLEAN, Install(recreate) PROVE TypeOK' /\ UserIsKnown' /\ ResolvedIsOne'
  <2>1. lock[user.place] \in Selection
    BY DEF TypeOK, User
  <2>2. /\ whole' = whole \cup (Installations(lock[user.place], here) \ (broken \ repairing))
        /\ broken' = broken \ repairing
        /\ repairing' = {} /\ user' = Idle
        /\ UNCHANGED <<catalog, now, fixed, lock, cleaning, runner>>
    BY <1>4 DEF Install, Free
  <2>3. venv' \in Installation \cup {None}
    BY <1>4, <2>1, BoundType DEF Install
  <2>4. Installations(lock[user.place], here) \subseteq Installation
    BY <2>1, InstallationsType DEF TypeOK
  <2>5. TypeOK'
    BY <2>2, <2>3, <2>4, IdleUser DEF TypeOK, fixed
  <2> QED BY <2>2, <2>5, FreeKnows
<1>5. CASE InstallFails
  <2>1. lock[user.place] \in Selection
    BY DEF TypeOK, User
  <2>2. PICK done \in SUBSET Installations(lock[user.place], here) :
            /\ whole' = whole \cup (repairing \ broken) \cup (done \ (broken \ repairing))
            /\ broken' = broken \ (done \cap repairing)
    BY <1>5 DEF InstallFails
  <2>3. /\ repairing' = {} /\ user' = Idle
        /\ UNCHANGED <<catalog, now, fixed, lock, venv, cleaning, runner>>
    BY <1>5 DEF InstallFails, Free
  <2>4. Installations(lock[user.place], here) \subseteq Installation
    BY <2>1, InstallationsType DEF TypeOK
  <2>5. TypeOK'
    BY <2>2, <2>3, <2>4, IdleUser DEF TypeOK, fixed
  <2> QED BY <2>3, <2>5, FreeKnows
<1>6. CASE GiveUp
  <2>1. PICK done \in SUBSET (IF Approved THEN Installations(Wanted, here) ELSE {}) :
            whole' = whole \cup (done \ broken)
    BY <1>6 DEF GiveUp
  <2>2. done \subseteq Installation
    <3>1. Approved => Wanted \in Selection
      BY WantedType DEF Approved
    <3>2. Approved => Installations(Wanted, here) \subseteq Installation
      BY <3>1, InstallationsType DEF TypeOK
    <3> QED BY <2>1, <3>2
  <2>3. /\ user.step \notin {"idle", "install"} /\ user' = Idle
        /\ UNCHANGED <<catalog, now, fixed, lock, broken, venv, repairing, cleaning, runner>>
    BY <1>6 DEF GiveUp, Free
  <2>4. repairing = {}
    BY <2>3 DEF EditsAreAlone
  <2>5. TypeOK'
    BY <2>1, <2>2, <2>3, <2>4, IdleUser DEF TypeOK, fixed
  <2> QED BY <2>3, <2>5, FreeKnows
<1> QED BY <1>1, <1>2, <1>3, <1>4, <1>5, <1>6

-----------------------------------------------------------------------------
(* The commands that run.                                                  *)

LEMMA RunnerFields ==
    ASSUME TypeOK
    PROVE  /\ runner.step \in {"idle", "inherit", "check", "start", "running"}
           /\ runner.place \in Places /\ runner.command \in Commands \cup {None}
           /\ runner.own \in Selection /\ runner.lock \in Selection
           /\ runner.sdk \in [CatalogTools -> Installation \cup {None}]
           /\ runner.dropped \subseteq Installation
           /\ runner = [step |-> runner.step, place |-> runner.place,
                        command |-> runner.command, own |-> runner.own, lock |-> runner.lock,
                        sdk |-> runner.sdk, dropped |-> runner.dropped]
  BY DEF TypeOK, Runner

LEMMA NotRunningType == NotRunning \in Runner /\ NotRunning.step = "idle"
<1>1. NothingSelected \in Selection
  BY DEF NothingSelected, Selection
<1>2. [t \in CatalogTools |-> None] \in [CatalogTools -> Installation \cup {None}]
  OBVIOUS
<1> HIDE DEF NothingSelected
<1> QED BY <1>1, <1>2 DEF NotRunning, Runner, Places

\* A command reads the selection of its place.
LEMMA LoadReads ==
    ASSUME TypeOK, NEW place \in Places, NEW command \in Commands, Load(place, command)
    PROVE  /\ runner' \in Runner /\ runner'.place = place /\ runner'.command = command
           /\ runner'.own = lock[place] /\ runner'.lock = lock[place]
           /\ runner'.step = IF Inherits(place, PolicyAt(place), ToolOf[command], lock[place])
                             THEN "inherit" ELSE "check"
           /\ UNCHANGED Routed
<1> DEFINE step == IF Inherits(place, PolicyAt(place), ToolOf[command], lock[place])
                   THEN "inherit" ELSE "check"
<1>1. /\ runner' = [NotRunning EXCEPT !.step = step, !.place = place, !.command = command,
                                      !.own = lock[place], !.lock = lock[place]]
      /\ UNCHANGED Routed
  BY DEF Load
<1>2. step \in {"inherit", "check"} /\ lock[place] \in Selection
  BY DEF TypeOK
<1> HIDE DEF step
<1>3. runner' = [step |-> step, place |-> place, command |-> command, own |-> lock[place],
                 lock |-> lock[place], sdk |-> [t \in CatalogTools |-> None], dropped |-> {}]
  BY <1>1 DEF NotRunning
<1>4. [t \in CatalogTools |-> None] \in [CatalogTools -> Installation \cup {None}]
  OBVIOUS
<1>5. runner' \in Runner
  BY <1>2, <1>3, <1>4 DEF Runner
<1> QED BY <1>1, <1>3, <1>5 DEF step

\* It inherits.
LEMMA InheritTakes ==
    ASSUME TypeOK, InheritGlobal
    PROVE  /\ runner' \in Runner /\ runner'.step = "check"
           /\ runner'.place = runner.place /\ runner'.command = runner.command
           /\ runner'.own = runner.own /\ runner'.dropped = runner.dropped
           /\ runner'.lock = Overlaid(runner.lock, lock["global"],
                                      Inherited(Tool, runner.own, lock["global"]))
           /\ UNCHANGED Routed
<1> DEFINE read == Overlaid(runner.lock, lock["global"],
                            Inherited(Tool, runner.own, lock["global"]))
<1>1. runner' = [runner EXCEPT !.step = "check", !.lock = read] /\ UNCHANGED Routed
  BY DEF InheritGlobal
<1>2. lock["global"] \in Selection
  BY DEF TypeOK, Places
<1>3. read \in Selection
  BY <1>2, RunnerFields DEF Overlaid, Selection
<1> HIDE DEF read
<1>4. runner' = [step |-> "check", place |-> runner.place, command |-> runner.command,
                 own |-> runner.own, lock |-> read, sdk |-> runner.sdk, dropped |-> runner.dropped]
  BY <1>1, RunnerFields
<1>5. runner' \in Runner
  BY <1>3, <1>4, RunnerFields DEF Runner
<1> QED BY <1>1, <1>4, <1>5 DEF read

\* It is routed to what is ready.
LEMMA CheckRoutes ==
    ASSUME TypeOK, Check
    PROVE  /\ runner' \in Runner /\ runner'.step = "start"
           /\ runner'.place = runner.place /\ runner'.command = runner.command
           /\ runner'.own = runner.own /\ runner'.dropped = runner.dropped
           /\ runner'.lock = runner.lock
           /\ UNCHANGED Routed
           /\ \A t \in CatalogTools : runner'.sdk[t] # None =>
                /\ runner.lock[t] # None /\ runner.lock[t].artifacts[here] # None
                /\ runner'.sdk[t] = InstallationOf(t, runner.lock[t], here)
                /\ runner'.sdk[t] \in whole \cup broken
<1>1. PICK stale \in SUBSET (broken \ repairing) :
        LET ready == {t \in CatalogTools : Ready(t, whole \cup stale)} IN
        runner' = [runner EXCEPT !.step = "start",
                !.sdk = [t \in CatalogTools |-> IF t \in ready
                            THEN InstallationOf(t, runner.lock[t], here)
                            ELSE None]]
  BY DEF Check
<1> DEFINE sdk == [t \in CatalogTools |-> IF Ready(t, whole \cup stale)
                                THEN InstallationOf(t, runner.lock[t], here) ELSE None]
<1>2. runner' = [runner EXCEPT !.step = "start", !.sdk = sdk]
  BY <1>1
<1>3. \A t \in CatalogTools : Ready(t, whole \cup stale) =>
        /\ runner.lock[t] # None /\ runner.lock[t].artifacts[here] # None
        /\ InstallationOf(t, runner.lock[t], here) \in whole \cup stale
  BY DEF Ready
<1>4. \A t \in CatalogTools : Ready(t, whole \cup stale) =>
        InstallationOf(t, runner.lock[t], here) \in Installation
  <2>1. whole \cup stale \subseteq Installation
    BY DEF TypeOK
  <2> QED BY <1>3, <2>1
<1>5. sdk \in [CatalogTools -> Installation \cup {None}]
  BY <1>4
<1>6. \A t \in CatalogTools : sdk[t] # None =>
        /\ runner.lock[t] # None /\ runner.lock[t].artifacts[here] # None
        /\ sdk[t] = InstallationOf(t, runner.lock[t], here)
        /\ sdk[t] \in whole \cup broken
  <2> TAKE t \in CatalogTools
  <2>1. sdk[t] = IF Ready(t, whole \cup stale) THEN InstallationOf(t, runner.lock[t], here) ELSE None
    OBVIOUS
  <2> QED BY <1>3, <2>1
<1> HIDE DEF sdk
<1>7. runner' = [step |-> "start", place |-> runner.place, command |-> runner.command,
                 own |-> runner.own, lock |-> runner.lock, sdk |-> sdk, dropped |-> runner.dropped]
  BY <1>2, RunnerFields
<1>8. runner' \in Runner
  BY <1>5, <1>7, RunnerFields DEF Runner
<1>9. UNCHANGED Routed
  BY DEF Check
<1> QED BY <1>6, <1>7, <1>8, <1>9

LEMMA StartRuns ==
    ASSUME TypeOK, Start
    PROVE  /\ runner' \in Runner /\ runner.step = "start" /\ runner'.step = "running"
           /\ runner'.place = runner.place /\ runner'.command = runner.command
           /\ runner'.own = runner.own /\ runner'.dropped = runner.dropped
           /\ runner'.lock = runner.lock /\ runner'.sdk = runner.sdk
           /\ UNCHANGED Routed
<1>1. runner' = [runner EXCEPT !.step = "running"] /\ UNCHANGED Routed /\ runner.step = "start"
  BY DEF Start
<1>2. runner' = [step |-> "running", place |-> runner.place, command |-> runner.command,
                 own |-> runner.own, lock |-> runner.lock, sdk |-> runner.sdk,
                 dropped |-> runner.dropped]
  BY <1>1, RunnerFields
<1>3. runner' \in Runner
  BY <1>2, RunnerFields DEF Runner
<1> QED BY <1>1, <1>2, <1>3

LEMMA ExecuteType ==
    ASSUME TypeOK, UserIsKnown, ResolvedIsOne, Execute
    PROVE  TypeOK' /\ UserIsKnown' /\ ResolvedIsOne' /\ UNCHANGED Routed
<1>1. runner' \in Runner /\ UNCHANGED Routed
  <2>1. ASSUME NEW p \in Places, NEW c \in Commands, Load(p, c)
        PROVE  runner' \in Runner /\ UNCHANGED Routed
    BY <2>1, LoadReads
  <2>2. CASE End
    BY <2>2, NotRunningType DEF End
  <2> QED BY <2>1, <2>2, InheritTakes, CheckRoutes, StartRuns DEF Execute
<1>2. UNCHANGED <<catalog, now, fixed, disk, user>>
  BY <1>1 DEF Routed
<1>3. TypeOK'
  BY <1>1, <1>2 DEF TypeOK, fixed, disk
<1>4. UserIsKnown' /\ ResolvedIsOne'
  BY <1>2 DEF UserIsKnown, ResolvedIsOne, Using, disk
<1> QED BY <1>1, <1>3, <1>4

\* clean.
LEMMA CleanType ==
    ASSUME TypeOK, UserIsKnown, ResolvedIsOne,
           StartClean \/ CleanDies \/ \E x \in Installation : CleanStep(x)
    PROVE  TypeOK' /\ UserIsKnown' /\ ResolvedIsOne'
<1>1. CASE StartClean
  <2>1. cleaning' \subseteq whole \cup broken
    BY <1>1 DEF StartClean
  <2>2. user.step = "idle" /\ UNCHANGED <<catalog, now, fixed, lock, whole, broken, venv, repairing, user, runner>>
    BY <1>1 DEF StartClean
  <2>3. TypeOK'
    BY <2>1, <2>2 DEF TypeOK, fixed
  <2> QED BY <2>2, <2>3 DEF UserIsKnown, ResolvedIsOne, Using
<1>2. ASSUME NEW x \in Installation, CleanStep(x) PROVE TypeOK' /\ UserIsKnown' /\ ResolvedIsOne'
  <2>1. /\ whole' \subseteq whole /\ broken' \subseteq broken \cup {x} /\ whole' \cap broken' = {}
        /\ cleaning' \subseteq cleaning /\ whole' \cup broken' \subseteq whole \cup broken
    BY <1>2 DEF CleanStep, TypeOK
  <2>2. UNCHANGED <<catalog, now, fixed, lock, venv, repairing, user, runner>>
    BY <1>2 DEF CleanStep
  <2>3. TypeOK'
    BY <2>1, <2>2 DEF TypeOK, fixed
  <2> QED BY <2>2, <2>3 DEF UserIsKnown, ResolvedIsOne, Using
<1>3. CASE CleanDies
  <2>1. /\ cleaning' = {}
        /\ UNCHANGED <<catalog, now, fixed, lock, whole, broken, venv, repairing, user, runner>>
    BY <1>3 DEF CleanDies
  <2>2. TypeOK'
    BY <2>1 DEF TypeOK, fixed
  <2> QED BY <2>1, <2>2 DEF UserIsKnown, ResolvedIsOne, Using
<1> QED BY <1>1, <1>2, <1>3

\* What the vendors and the clock do is nothing to the command that reads.
LEMMA WorldKnows ==
    ASSUME TypeOK, UserIsKnown, ResolvedIsOne, Vendor \/ Tick
    PROVE  TypeOK' /\ UserIsKnown' /\ ResolvedIsOne' /\ UNCHANGED <<fixed, disk, runner>>
           /\ user'.step = user.step /\ user'.place = user.place /\ now \in Nat /\ now' \in Nat
           /\ now <= now'
<1>1. now \in Nat
  BY SelectionsAssumption DEF TypeOK
<1>2. /\ UNCHANGED <<fixed, disk, runner>> /\ now' \in Nat /\ now <= now'
      /\ UNCHANGED user \/ \E gone : user' = [user EXCEPT !.offered = gone]
  <2>1. CASE Tick
    BY <1>1, <2>1 DEF Tick
  <2>2. ASSUME NEW s \in Sources, Announce(s) \/ Upload(s)
        PROVE  UNCHANGED <<now, fixed, disk, runner, user>>
    BY <2>2 DEF Announce, Upload, Others
  <2>3. ASSUME NEW s \in Sources, BuildAgain(s)
        PROVE  /\ UNCHANGED <<now, fixed, disk, runner>>
               /\ UNCHANGED user \/ \E gone : user' = [user EXCEPT !.offered = gone]
    BY <2>3 DEF BuildAgain
  <2> QED BY <1>1, <2>1, <2>2, <2>3 DEF Vendor
<1>3. /\ user'.step = user.step /\ user'.place = user.place /\ user'.tool = user.tool
      /\ user'.selector = user.selector /\ user'.chosen = user.chosen /\ user'.entry = user.entry
  <2>1. CASE UNCHANGED user
    BY <2>1
  <2>2. ASSUME NEW gone, user' = [user EXCEPT !.offered = gone]
        PROVE  /\ user'.step = user.step /\ user'.place = user.place /\ user'.tool = user.tool
               /\ user'.selector = user.selector /\ user'.chosen = user.chosen
               /\ user'.entry = user.entry
    BY <2>2 DEF TypeOK, User
  <2> QED BY <1>2, <2>1, <2>2
<1>4. UserIsKnown' /\ ResolvedIsOne'
  BY <1>2, <1>3 DEF UserIsKnown, ResolvedIsOne, Using, disk
<1> QED BY <1>1, <1>2, <1>3, <1>4, WorldType

-----------------------------------------------------------------------------
(* Edits and clean exclude each other.                                     *)

LEMMA EditsStayAlone ==
    ASSUME TypeOK, UserIsKnown, ResolvedIsOne, EditsAreAlone, [Next]_vars
    PROVE  EditsAreAlone'
<1> DEFINE Same == UNCHANGED <<lock, venv, here, cleaning, repairing>>
<1>1. CASE Vendor \/ Tick
  <2>1. Same /\ user'.step = user.step /\ user'.place = user.place
    BY <1>1, WorldKnows DEF fixed, disk
  <2> QED BY <2>1 DEF EditsAreAlone, Needed
<1>2. CASE ReadsDocument
  <2>1. Same /\ Using
    BY <1>2, ReadKnows DEF Reading, fixed, disk
  <2>2. repairing' = {}
    BY <2>1 DEF EditsAreAlone, Using
  <2> QED BY <2>1, <2>2 DEF EditsAreAlone, Needed
<1>3. CASE Execute
  <2>1. Same /\ UNCHANGED user
    BY <1>3, ExecuteType DEF Routed, fixed, disk
  <2> QED BY <2>1 DEF EditsAreAlone, Needed
<1>4. ASSUME NEW place \in Places, NEW tool, NEW selector, Begin(place, tool, selector)
      PROVE  EditsAreAlone'
  <2>1. cleaning = {} /\ user.step = "idle" /\ UNCHANGED <<fixed, disk>>
    BY <1>4 DEF Begin
  <2> QED BY <2>1 DEF EditsAreAlone, fixed, disk
<1>5. ASSUME \/ \E bare \in BOOLEAN : Commit(bare)
             \/ \E p \in Places, t \in CatalogTools : Remove(p, t)
             \/ \E recreate \in BOOLEAN : Install(recreate)
             \/ InstallFails \/ GiveUp
      PROVE  EditsAreAlone'
  <2>1. cleaning = {} /\ cleaning' = {}
    <3>1. user.step # "idle" => cleaning = {}
      BY DEF TypeOK
    <3> QED BY <1>5, <3>1 DEF Commit, Approved, Remove, Install, InstallFails, GiveUp
  <2>2. repairing' = {}
    BY <1>5 DEF Commit, Approved, Remove, Install, InstallFails, GiveUp, EditsAreAlone
  <2> QED BY <2>1, <2>2 DEF EditsAreAlone
<1>6. ASSUME NEW p \in Places, StartInstall(p)
      PROVE  EditsAreAlone'
  <2>1. /\ cleaning = {} /\ cleaning' = {} /\ lock' = lock /\ here' = here
        /\ repairing' \subseteq Installations(lock[p], here)
        /\ user' = [Idle EXCEPT !.step = "install", !.place = p]
    BY <1>6 DEF StartInstall, fixed
  <2>2. user'.step = "install" /\ user'.place = p
    BY <2>1 DEF Idle
  <2> QED BY <2>1, <2>2 DEF EditsAreAlone
<1>7. CASE StartClean
  <2>1. /\ cleaning' \cap Needed = {} /\ cleaning = {} /\ user.step = "idle"
        /\ UNCHANGED <<lock, venv, here, repairing, user>>
    BY <1>7 DEF StartClean, fixed
  <2> QED BY <2>1 DEF EditsAreAlone, Needed
<1>8. ASSUME NEW x \in Installation, CleanStep(x) PROVE EditsAreAlone'
  <2>1. cleaning' \subseteq cleaning /\ UNCHANGED <<lock, venv, here, repairing, user>>
    BY <1>8 DEF CleanStep, fixed
  <2> QED BY <2>1 DEF EditsAreAlone, Needed
<1>9. CASE CleanDies
  <2>1. cleaning' = {} /\ UNCHANGED <<lock, here, repairing, user>>
    BY <1>9 DEF CleanDies, fixed
  <2> QED BY <2>1 DEF EditsAreAlone
<1>10. CASE UNCHANGED vars
  BY <1>10 DEF EditsAreAlone, Needed, vars, disk, fixed
<1> QED BY <1>1, <1>2, <1>3, <1>4, <1>5, <1>6, <1>7, <1>8, <1>9, <1>10
       DEF Next, Use, Change, ReadsDocument

-----------------------------------------------------------------------------
(* A command that runs.                                                    *)

Chosen == UNION {Installations(lock[p], here) : p \in Places}

\* What is on the disk, whole or not, and no clean is about to remove.
Spared == (whole \cup broken \cup repairing) \ cleaning

\* What a policy allows it allows later.
LEMMA AllowsLater ==
    ASSUME NEW rules \in Policy, NEW tool, NEW entry \in LockedTool, NEW n \in Nat, NEW m \in Nat,
           n <= m, Allows(rules, tool, entry, n)
    PROVE  Allows(rules, tool, entry, m)
<1>1. entry.date \in Nat \cup {None} /\ rules.age \in Nat
  BY CatalogsAssumption DEF LockedTool, Policy
<1>2. ASSUME rules.age > 0
      PROVE  entry.date # None /\ entry.date <= m /\ m - entry.date >= rules.age
  <2>1. entry.date # None /\ entry.date <= n /\ n - entry.date >= rules.age
    BY <1>2 DEF Allows
  <2>2. entry.date \in Nat
    BY <1>1, <2>1
  <2> QED BY <1>1, <2>1, <2>2
<1> QED BY <1>2 DEF Allows

LEMMA PlacesPolicy == ASSUME TypeOK, NEW place PROVE PolicyAt(place) \in Policy
  BY DEF TypeOK, PolicyAt, Anything, Policy

\* What stays true of a command that does nothing.
LEMMA RunnerStays ==
    ASSUME TypeOK, RunnerIsKnown, UNCHANGED fixed,
           runner'.step = runner.step, runner'.place = runner.place,
           runner'.command = runner.command, runner'.own = runner.own,
           runner'.lock = runner.lock, runner'.sdk = runner.sdk,
           now' \in Nat, now <= now',
           runner.step # "idle" => runner.dropped \cup Chosen \subseteq runner'.dropped \cup Chosen',
           runner.step # "idle" =>
                \A x \in Spared \cup runner.dropped :
                    x \in runner.dropped \cup Chosen => x \in Spared' \cup runner'.dropped
    PROVE  RunnerIsKnown'
<1> SUFFICES ASSUME runner.step # "idle" PROVE RunnerIsKnown'
  BY DEF RunnerIsKnown
<1> DEFINE own == runner.own
           read == runner.lock
           sdk == runner.sdk
           rules == PolicyAt(runner.place)
<1>1. PolicyAt(runner.place)' = rules /\ Tool' = Tool /\ now \in Nat
  BY SelectionsAssumption DEF fixed, PolicyAt, Tool, TypeOK
<1>2. rules \in Policy
  BY PlacesPolicy
<1>3. \A t \in CatalogTools : read[t] # None => read[t] \in LockedTool
  BY RunnerFields DEF Selection
<1>4. /\ runner.command # None
      /\ runner.step = "inherit" => runner.place = "project" /\ ~rules.strict /\ read = own
  BY DEF RunnerIsKnown
<1>5. ASSUME NEW t \in CatalogTools
      PROVE  /\ own[t] # None => read[t] = own[t]
             /\ own[t] = None /\ read[t] # None => t \in Required(Tool) /\ ~rules.strict
             /\ read[t] # None =>
                /\ Allows(rules, t, read[t], now')
                /\ read[t].artifacts[here] # None =>
                    InstallationOf(t, read[t], here) \in runner'.dropped \cup Chosen'
             /\ runner.step \in {"start", "running"} /\ sdk[t] # None =>
                /\ read[t] # None /\ read[t].artifacts[here] # None
                /\ sdk[t] = InstallationOf(t, read[t], here)
                /\ sdk[t] \in Spared' \cup runner'.dropped
  <2>1. /\ own[t] # None => read[t] = own[t]
        /\ own[t] = None /\ read[t] # None => t \in Required(Tool) /\ ~rules.strict
        /\ read[t] # None =>
            /\ Allows(rules, t, read[t], now)
            /\ read[t].artifacts[here] # None =>
                InstallationOf(t, read[t], here) \in runner.dropped \cup Chosen
        /\ runner.step \in {"start", "running"} /\ sdk[t] # None =>
            /\ read[t] # None /\ read[t].artifacts[here] # None
            /\ sdk[t] = InstallationOf(t, read[t], here)
            /\ sdk[t] \in Spared \cup runner.dropped
    BY DEF RunnerIsKnown, Chosen, Spared
  <2>2. read[t] # None => Allows(rules, t, read[t], now')
    BY <1>1, <1>2, <1>3, <2>1, AllowsLater
  <2> QED BY <2>1, <2>2
<1>6. here' = here
  BY DEF fixed
<1> QED BY <1>1, <1>4, <1>5, <1>6 DEF RunnerIsKnown, Chosen, Spared

\* What is deselected is remembered.
LEMMA DroppedOrChosen ==
    ASSUME TypeOK, NEW next \in [Places -> Selection], Deselected(next), lock' = next, here' = here
    PROVE  runner.step # "idle" =>
                /\ runner.dropped \cup Chosen \subseteq runner'.dropped \cup Chosen'
                /\ runner.dropped \subseteq runner'.dropped
  BY DeselectedType DEF Chosen

\* Nothing an edit or clean does takes anything from a command but what a
\* repair holds or what was deselected.
LEMMA EditsSpareRunners ==
    ASSUME TypeOK, UserIsKnown, ResolvedIsOne, EditsAreAlone, RunnerIsKnown,
           \/ \E bare \in BOOLEAN : Commit(bare)
           \/ \E p \in Places, t \in CatalogTools : Remove(p, t)
           \/ \E p \in Places : StartInstall(p)
           \/ \E recreate \in BOOLEAN : Install(recreate)
           \/ InstallFails \/ GiveUp \/ StartClean \/ CleanDies \/ \E x \in Installation : CleanStep(x)
    PROVE  RunnerIsKnown'
<1> USE SelectionsAssumption
<1>1. now \in Nat
  BY DEF TypeOK
<1>2. ASSUME NEW bare \in BOOLEAN, Commit(bare) PROVE RunnerIsKnown'
  <2> DEFINE next == [lock EXCEPT ![user.place] = Wanted]
  <2>1. /\ lock' = next /\ Deselected(next) /\ user.step = "resolved"
        /\ UNCHANGED <<now, fixed, broken, repairing, cleaning>> /\ whole \subseteq whole'
    BY <1>2 DEF Commit, Approved
  <2>2. next \in [Places -> Selection]
    BY <2>1, WantedType DEF TypeOK
  <2> HIDE DEF next
  <2>3. here' = here /\ Spared \subseteq Spared'
    BY <2>1 DEF fixed, Spared
  <2> QED BY <1>1, <2>1, <2>2, <2>3, DeselectedType, DroppedOrChosen, RunnerStays
<1>3. ASSUME NEW p \in Places, NEW t \in CatalogTools, Remove(p, t) PROVE RunnerIsKnown'
  <2> DEFINE left == [lock[p] EXCEPT ![t] = None]
             next == [lock EXCEPT ![p] = left]
  <2>1. /\ lock' = next /\ Deselected(next)
        /\ UNCHANGED <<now, fixed, whole, broken, repairing, cleaning>>
    BY <1>3 DEF Remove
  <2>2. left \in Selection
    BY DEF TypeOK, Selection
  <2> HIDE DEF left
  <2>3. next \in [Places -> Selection]
    BY <2>2 DEF TypeOK
  <2> HIDE DEF next
  <2>4. here' = here /\ Spared' = Spared
    BY <2>1 DEF fixed, Spared
  <2> QED BY <1>1, <2>1, <2>3, <2>4, DeselectedType, DroppedOrChosen, RunnerStays
<1>4. ASSUME UNCHANGED <<now, fixed, lock, runner>>, Spared \cap Chosen \subseteq Spared'
      PROVE  RunnerIsKnown'
  <2>1. Chosen' = Chosen
    BY <1>4 DEF Chosen, fixed
  <2> QED BY <1>1, <1>4, <2>1, RunnerStays
<1>5. ASSUME NEW p \in Places, StartInstall(p) PROVE RunnerIsKnown'
  <2>1. /\ repairing = {} /\ whole \subseteq whole' \cup repairing'
        /\ UNCHANGED <<now, fixed, lock, runner, broken, cleaning>>
    BY <1>5 DEF StartInstall, EditsAreAlone
  <2>2. Spared \subseteq Spared'
    BY <2>1 DEF Spared
  <2> QED BY <1>4, <2>1, <2>2
<1>6. ASSUME NEW recreate \in BOOLEAN, Install(recreate) PROVE RunnerIsKnown'
  <2>1. /\ repairing \subseteq Installations(lock[user.place], here)
        /\ whole' = whole \cup (Installations(lock[user.place], here) \ (broken \ repairing))
        /\ broken' = broken \ repairing
        /\ UNCHANGED <<now, fixed, lock, runner, cleaning>>
    BY <1>6 DEF Install, EditsAreAlone
  <2>2. Spared \subseteq Spared'
    BY <2>1 DEF Spared
  <2> QED BY <1>4, <2>1, <2>2
<1>7. CASE InstallFails
  <2>1. /\ whole \cup broken \cup repairing \subseteq whole' \cup broken'
        /\ UNCHANGED <<now, fixed, lock, runner, cleaning>>
    BY <1>7 DEF InstallFails
  <2>2. Spared \subseteq Spared'
    BY <2>1 DEF Spared
  <2> QED BY <1>4, <2>1, <2>2
<1>8. CASE GiveUp
  <2>1. /\ whole \subseteq whole'
        /\ UNCHANGED <<now, fixed, lock, runner, broken, repairing, cleaning>>
    BY <1>8 DEF GiveUp
  <2>2. Spared \subseteq Spared'
    BY <2>1 DEF Spared
  <2> QED BY <1>4, <2>1, <2>2
<1>9. CASE StartClean
  <2>1. /\ cleaning' \cap Needed = {}
        /\ UNCHANGED <<now, fixed, lock, runner, whole, broken, repairing>>
    BY <1>9 DEF StartClean
  <2>2. Spared \cap Chosen \subseteq Spared'
    BY <2>1 DEF Spared, Needed, Chosen
  <2> QED BY <1>4, <2>1, <2>2
<1>10. ASSUME NEW x \in Installation, CleanStep(x) PROVE RunnerIsKnown'
  <2>1. /\ x \in cleaning /\ cleaning' \subseteq cleaning
        /\ whole \ {x} \subseteq whole' /\ broken \ {x} \subseteq broken'
        /\ UNCHANGED <<now, fixed, lock, runner, repairing>>
    BY <1>10 DEF CleanStep
  <2>2. Spared \subseteq Spared'
    BY <2>1 DEF Spared
  <2> QED BY <1>4, <2>1, <2>2
<1>11. CASE CleanDies
  <2>1. cleaning' = {} /\ UNCHANGED <<now, fixed, lock, runner, whole, broken, repairing>>
    BY <1>11 DEF CleanDies
  <2>2. Spared \subseteq Spared'
    BY <2>1 DEF Spared
  <2> QED BY <1>4, <2>1, <2>2
<1> QED BY <1>2, <1>3, <1>5, <1>6, <1>7, <1>8, <1>9, <1>10, <1>11

\* What a selection selects is chosen.
LEMMA SelectedIsChosen ==
    ASSUME TypeOK, NEW p \in Places, NEW t \in CatalogTools, lock[p][t] # None,
           lock[p][t].artifacts[here] # None
    PROVE  InstallationOf(t, lock[p][t], here) \in Chosen
  BY DEF Chosen, Installations, Selected

\* A command goes its way.
LEMMA RunnersRun ==
    ASSUME TypeOK, UserIsKnown, ResolvedIsOne, EditsAreAlone, RunnerIsKnown, Execute
    PROVE  RunnerIsKnown'
<1>1. UNCHANGED <<now, fixed, lock, whole, broken, repairing, cleaning>>
  BY ExecuteType DEF Routed, disk
<1>2. here' = here /\ Chosen' = Chosen /\ \A p : PolicyAt(p)' = PolicyAt(p)
  BY <1>1 DEF fixed, Chosen, PolicyAt
<1>3. ASSUME NEW p \in Places, NEW c \in Commands, Load(p, c) PROVE RunnerIsKnown'
  <2>1. /\ runner'.place = p /\ runner'.command = c
        /\ runner'.own = lock[p] /\ runner'.lock = lock[p]
        /\ runner'.step \in {"inherit", "check"}
        /\ runner'.step = "inherit" => p = "project" /\ ~PolicyAt(p).strict
    BY <1>3, LoadReads DEF Inherits, PolicyAt
  <2>2. c # None
    BY RoutingAssumption
  <2>3. \A t \in CatalogTools : lock[p][t] # None =>
            /\ Allows(PolicyAt(p), t, lock[p][t], now)
            /\ lock[p][t].artifacts[here] # None => InstallationOf(t, lock[p][t], here) \in Chosen
    BY <1>3, SelectedIsChosen DEF Load, AllAllowed, Selected
  <2> QED BY <1>1, <1>2, <2>1, <2>2, <2>3 DEF RunnerIsKnown, Chosen
<1>4. CASE InheritGlobal
  <2> DEFINE taken == Inherited(Tool, runner.own, lock["global"])
             read == Overlaid(runner.lock, lock["global"], taken)
             rules == PolicyAt(runner.place)
  <2>1. /\ runner'.step = "check" /\ runner'.place = runner.place
        /\ runner'.command = runner.command /\ runner'.own = runner.own
        /\ runner'.dropped = runner.dropped /\ runner'.lock = read
    BY <1>4, InheritTakes
  <2>2. /\ runner.step = "inherit" /\ runner.command # None /\ runner.place = "project"
        /\ ~rules.strict /\ runner.lock = runner.own /\ rules = policy
        /\ \A t \in taken : Allows(policy, t, lock["global"][t], now)
    BY <1>4 DEF InheritGlobal, RunnerIsKnown, PolicyAt
  <2>3. ASSUME NEW t \in CatalogTools
        PROVE  /\ runner.own[t] # None => read[t] = runner.own[t]
               /\ runner.own[t] = None /\ read[t] # None => t \in Required(Tool)
               /\ read[t] # None =>
                  /\ Allows(rules, t, read[t], now)
                  /\ read[t].artifacts[here] # None =>
                        InstallationOf(t, read[t], here) \in runner.dropped \cup Chosen
    <3>1. CASE t \in taken
      <4>1. read[t] = lock["global"][t] /\ t \in Required(Tool) /\ runner.own[t] = None
            /\ Allows(rules, t, read[t], now)
        BY <2>2, <3>1 DEF Overlaid, Inherited
      <4>2. read[t] # None /\ read[t].artifacts[here] # None => InstallationOf(t, read[t], here) \in Chosen
        BY <4>1, SelectedIsChosen DEF Places
      <4> QED BY <4>1, <4>2
    <3>2. CASE t \notin taken
      <4>1. read[t] = runner.own[t] /\ read[t] = runner.lock[t]
        BY <2>2, <3>2 DEF Overlaid
      <4>2. runner.lock[t] # None =>
                /\ Allows(rules, t, runner.lock[t], now)
                /\ runner.lock[t].artifacts[here] # None =>
                      InstallationOf(t, runner.lock[t], here) \in runner.dropped \cup Chosen
        BY <2>2 DEF RunnerIsKnown, Chosen
      <4> QED BY <4>1, <4>2
    <3> QED BY <3>1, <3>2
  <2> HIDE DEF read, taken
  <2>4. Tool' = Tool
    BY <2>1 DEF Tool
  <2> QED BY <1>1, <1>2, <2>1, <2>2, <2>3, <2>4 DEF RunnerIsKnown, Chosen
<1>5. CASE Check
  <2>1. /\ runner'.step = "start" /\ runner'.place = runner.place
        /\ runner'.command = runner.command /\ runner'.own = runner.own
        /\ runner'.dropped = runner.dropped /\ runner'.lock = runner.lock
        /\ \A t \in CatalogTools : runner'.sdk[t] # None =>
            /\ runner.lock[t] # None /\ runner.lock[t].artifacts[here] # None
            /\ runner'.sdk[t] = InstallationOf(t, runner.lock[t], here)
            /\ runner'.sdk[t] \in whole \cup broken
    BY <1>5, CheckRoutes
  <2>2. runner.step = "check" /\ Tool' = Tool
    BY <1>5, <2>1 DEF Check, Tool
  <2>3. ASSUME NEW t \in CatalogTools, runner.lock[t] # None
        PROVE  runner.lock[t].artifacts[here] # None =>
                  InstallationOf(t, runner.lock[t], here) \in runner.dropped \cup Chosen
    BY <2>2, <2>3 DEF RunnerIsKnown, Chosen
  <2>4. cleaning \cap Chosen = {}
    BY DEF EditsAreAlone, Needed, Chosen
  <2>5. \A t \in CatalogTools : runner'.sdk[t] # None =>
            runner'.sdk[t] \in runner.dropped \cup ((whole \cup broken \cup repairing) \ cleaning)
    BY <2>1, <2>3, <2>4
  <2> QED BY <1>1, <1>2, <2>1, <2>2, <2>5 DEF RunnerIsKnown
<1>6. CASE Start
  <2>1. /\ runner.step = "start" /\ runner'.step = "running" /\ runner'.place = runner.place
        /\ runner'.command = runner.command /\ runner'.own = runner.own
        /\ runner'.dropped = runner.dropped /\ runner'.lock = runner.lock /\ runner'.sdk = runner.sdk
    BY <1>6, StartRuns
  <2>2. Tool' = Tool
    BY <2>1 DEF Tool
  <2> QED BY <1>1, <1>2, <2>1, <2>2 DEF RunnerIsKnown
<1>7. CASE End
  BY <1>7, NotRunningType DEF End, RunnerIsKnown
<1> QED BY <1>3, <1>4, <1>5, <1>6, <1>7 DEF Execute

\* Neither do the vendors, the clock and the documents that are read.
LEMMA OthersSpareRunners ==
    ASSUME TypeOK, RunnerIsKnown, now' \in Nat, now <= now', UNCHANGED <<fixed, disk, runner>>
    PROVE  RunnerIsKnown'
<1>1. UNCHANGED lock /\ Chosen' = Chosen /\ Spared' = Spared
  BY DEF disk, fixed, Chosen, Spared
<1> QED BY <1>1, RunnerStays

-----------------------------------------------------------------------------
(* The theorems.                                                           *)

LEMMA Begins == ASSUME Init PROVE Known
<1>1. PICK w \in Worlds :
        /\ catalog = w.catalog /\ policy = w.policy /\ platforms = w.platforms /\ here = w.here
        /\ lock = [p \in Places |-> IF p = "global" THEN w.defaults ELSE NothingSelected]
        /\ whole = Installations(w.defaults, w.here) /\ now = w.now
  BY DEF Init
<1>2. /\ broken = {} /\ repairing = {} /\ cleaning = {} /\ venv = None
      /\ user = Idle /\ runner = NotRunning
  BY DEF Init
<1>3. w.defaults \in Selection /\ NodeForPnpm(w.defaults) /\ w.here \in Targets
  BY SelectionsAssumption
<1>4. NothingSelected \in Selection /\ NodeForPnpm(NothingSelected)
  BY DEF NothingSelected, Selection, NodeForPnpm, CatalogTools
<1>5. whole \subseteq Installation
  BY <1>1, <1>3, InstallationsType
<1>6. /\ lock \in [Places -> Selection]
      /\ NodeForPnpm(lock["project"]) /\ NodeForPnpm(lock["global"])
  BY <1>1, <1>3, <1>4 DEF Places
<1>7. TypeOK
  BY <1>1, <1>2, <1>3, <1>5, <1>6, IdleUser, NotRunningType, SelectionsAssumption DEF TypeOK
<1>8. UserIsKnown /\ ResolvedIsOne
  BY <1>2, IdleUser DEF UserIsKnown, ResolvedIsOne, Using
<1>9. EditsAreAlone
  BY <1>2 DEF EditsAreAlone
<1>10. RunnerIsKnown
  BY <1>2, NotRunningType DEF RunnerIsKnown
<1> QED BY <1>7, <1>8, <1>9, <1>10 DEF Known

LEMMA Continues == ASSUME Known, [Next]_vars PROVE Known'
<1>1. /\ TypeOK /\ UserIsKnown /\ ResolvedIsOne /\ EditsAreAlone /\ RunnerIsKnown
  BY DEF Known
<1>2. EditsAreAlone'
  BY <1>1, EditsStayAlone
<1>3. now \in Nat
  BY <1>1, SelectionsAssumption DEF TypeOK
<1>4. CASE Vendor \/ Tick
  <2>1. TypeOK' /\ UserIsKnown' /\ ResolvedIsOne' /\ UNCHANGED <<fixed, disk, runner>>
        /\ now' \in Nat /\ now <= now'
    BY <1>1, <1>4, WorldKnows
  <2> QED BY <1>1, <1>2, <2>1, OthersSpareRunners DEF Known
<1>5. CASE ReadsDocument
  <2>1. TypeOK' /\ UserIsKnown' /\ ResolvedIsOne' /\ UNCHANGED Reading
    BY <1>1, <1>5, ReadKnows
  <2>2. UNCHANGED <<now, fixed, disk, runner>>
    BY <2>1 DEF Reading
  <2> QED BY <1>1, <1>2, <1>3, <2>1, <2>2, OthersSpareRunners DEF Known
<1>6. ASSUME NEW place \in Places, NEW tool, NEW selector, Begin(place, tool, selector) PROVE Known'
  <2>1. TypeOK' /\ UserIsKnown' /\ ResolvedIsOne'
    BY <1>1, <1>6, BeginKnows
  <2>2. UNCHANGED <<now, fixed, disk, runner>>
    BY <1>6 DEF Begin
  <2> QED BY <1>1, <1>2, <1>3, <2>1, <2>2, OthersSpareRunners DEF Known
<1>7. ASSUME \/ \E bare \in BOOLEAN : Commit(bare)
             \/ \E p \in Places, t \in CatalogTools : Remove(p, t)
             \/ \E p \in Places : StartInstall(p)
             \/ \E recreate \in BOOLEAN : Install(recreate)
             \/ InstallFails \/ GiveUp
      PROVE  Known'
  <2>1. TypeOK' /\ UserIsKnown' /\ ResolvedIsOne'
    BY <1>1, <1>7, EditType
  <2>2. RunnerIsKnown'
    BY <1>1, <1>7, EditsSpareRunners
  <2> QED BY <1>2, <2>1, <2>2 DEF Known
<1>8. ASSUME StartClean \/ CleanDies \/ \E x \in Installation : CleanStep(x) PROVE Known'
  <2>1. TypeOK' /\ UserIsKnown' /\ ResolvedIsOne'
    BY <1>1, <1>8, CleanType
  <2>2. RunnerIsKnown'
    BY <1>1, <1>8, EditsSpareRunners
  <2> QED BY <1>2, <2>1, <2>2 DEF Known
<1>9. CASE Execute
  <2>1. TypeOK' /\ UserIsKnown' /\ ResolvedIsOne'
    BY <1>1, <1>9, ExecuteType
  <2>2. RunnerIsKnown'
    BY <1>1, <1>9, RunnersRun
  <2> QED BY <1>2, <2>1, <2>2 DEF Known
<1>10. CASE UNCHANGED vars
  BY <1>10 DEF vars, fixed, disk, bounds, Known, TypeOK, UserIsKnown, Using, ResolvedIsOne,
     EditsAreAlone, Needed, RunnerIsKnown, PolicyAt, Tool
<1> QED BY <1>4, <1>5, <1>6, <1>7, <1>8, <1>9, <1>10 DEF Next, Use, Change, ReadsDocument

\* SPECIFICATION: `use`, `remove`, `install` and `clean` exclude each other,
\* what a command of theirs has read is what it was asked for, and a command
\* that runs does so from what its selections named when it read them.
THEOREM KnownHolds == Spec => []Known
<1>1. Init => Known
  BY Begins
<1>2. Known /\ [Next]_vars => Known'
  BY Continues
<1> QED BY <1>1, <1>2, PTL DEF Spec

\* The project decides what its commands run from, and its policy covers what
\* they inherit.
THEOREM CommandsRunWhatIsSelected == Spec => []RunsWhatIsSelected
<1>1. Known => RunsWhatIsSelected
  BY DEF Known, RunnerIsKnown, RunsWhatIsSelected
<1> QED BY <1>1, KnownHolds, PTL

\* What a command was routed to no clean removes as long as it is selected.
THEOREM RunnersKeepWhatIsSelected == Spec => []KeepsWhatRuns
<1>1. Known => KeepsWhatRuns
  BY DEF Known, RunnerIsKnown, KeepsWhatRuns
<1> QED BY <1>1, KnownHolds, PTL

\* What `use` resolved becomes a lock of one release.
LEMMA RetainedIsOne ==
    ASSUME TypeOK, UserIsKnown, ResolvedIsOne, Approved
    PROVE  OneRelease(Retained(user.entry, user.place), PlatformsAt(user.place))
<1> DEFINE entry == user.entry
           kept == Retained(entry, user.place)
           targets == PlatformsAt(user.place)
<1>1. /\ entry \in LockedTool /\ Covers(entry, user.place)
      /\ Matches([version |-> entry.version, date |-> entry.date,
                  lts |-> entry.requested.lts], entry.requested)
  BY DEF TypeOK, User, Approved, ResolvedIsOne
<1>2. PICK b \in Builds : \A t \in Targets : entry.artifacts[t] \in {b, None}
  BY DEF Approved, ResolvedIsOne
<1>3. /\ kept.requested = entry.requested /\ kept.version = entry.version /\ kept.date = entry.date
      /\ kept.artifacts = [t \in Targets |-> IF t \in targets THEN entry.artifacts[t] ELSE None]
  BY <1>1, RetainedType
<1>4. targets \subseteq Targets /\ targets # {}
  BY DEF PlatformsAt, TypeOK
<1> HIDE DEF kept, targets
<1>5. \A t \in targets : kept.artifacts[t] # None
  BY <1>1, <1>3, <1>4 DEF Covers, targets
<1>6. {kept.artifacts[t] : t \in Targets} \ {None} = {b}
  <2>1. \A t \in Targets : kept.artifacts[t] \in {b, None}
    BY <1>2, <1>3
  <2>2. \E t \in Targets : kept.artifacts[t] = b
    BY <1>4, <1>5, <2>1
  <2>3. b # None
    BY CatalogsAssumption
  <2> QED BY <2>1, <2>2, <2>3
<1>7. Cardinality({kept.artifacts[t] : t \in Targets} \ {None}) = 1
  BY <1>6, FS_Singleton
<1> QED BY <1>1, <1>3, <1>5, <1>7 DEF OneRelease, kept, targets

\* A lock never mixes builds, however the vendors publish between the requests
\* of `use`: all its platforms have one content, and it is what was asked for.
THEOREM LocksHoldOneRelease == Spec => []LocksOneRelease
<1>1. Init => LocksOneRelease
  <2> SUFFICES ASSUME Init PROVE LocksOneRelease
    OBVIOUS
  <2>1. PICK w \in Worlds :
            /\ here = w.here
            /\ lock = [p \in Places |-> IF p = "global" THEN w.defaults ELSE NothingSelected]
    BY DEF Init
  <2>2. \A t \in Selected(w.defaults) : OneRelease(w.defaults[t], {w.here})
    BY SelectionsAssumption
  <2>3. Selected(NothingSelected) = {} /\ PlatformsAt("global") = {here}
    BY DEF Selected, NothingSelected, PlatformsAt
  <2>4. lock["global"] = w.defaults /\ lock["project"] = NothingSelected
    BY <2>1 DEF Places
  <2> QED BY <2>1, <2>2, <2>3, <2>4 DEF LocksOneRelease, Places
<1>2. Known /\ LocksOneRelease /\ [Next]_vars => LocksOneRelease'
  <2> SUFFICES ASSUME Known, LocksOneRelease, [Next]_vars PROVE LocksOneRelease'
    OBVIOUS
  <2>1. TypeOK /\ UserIsKnown /\ ResolvedIsOne
    BY DEF Known
  <2>2. ASSUME UNCHANGED fixed, NEW q \in Places, NEW u \in CatalogTools, NEW entry,
               lock' = [lock EXCEPT ![q] = [lock[q] EXCEPT ![u] = entry]],
               entry = None \/ OneRelease(entry, PlatformsAt(q))
        PROVE  LocksOneRelease'
    <3>1. \A p \in Places : PlatformsAt(p)' = PlatformsAt(p)
      BY <2>2 DEF fixed, PlatformsAt
    <3>2. \A p \in Places, t \in CatalogTools :
            lock'[p][t] = IF p = q /\ t = u THEN entry ELSE lock[p][t]
      BY <2>1, <2>2 DEF TypeOK, Selection
    <3> QED BY <2>2, <3>1, <3>2 DEF LocksOneRelease, Selected
  <2>3. ASSUME NEW bare \in BOOLEAN, Commit(bare) PROVE LocksOneRelease'
    <3>1. /\ lock' = [lock EXCEPT ![user.place] = Wanted] /\ UNCHANGED fixed /\ Approved
          /\ user.step = "resolved"
      BY <2>3 DEF Commit, Approved
    <3>2. user.tool \in CatalogTools /\ user.place \in Places
          /\ Wanted = [lock[user.place] EXCEPT ![user.tool] = Retained(user.entry, user.place)]
      BY <2>1, <3>1, WantedType
    <3> QED BY <2>1, <2>2, <3>1, <3>2, RetainedIsOne
  <2>4. ASSUME NEW p \in Places, NEW t \in CatalogTools, Remove(p, t) PROVE LocksOneRelease'
    <3>1. lock' = [lock EXCEPT ![p] = [lock[p] EXCEPT ![t] = None]] /\ UNCHANGED fixed
      BY <2>4 DEF Remove
    <3> QED BY <2>2, <3>1
  <2>5. ASSUME UNCHANGED <<fixed, lock>> PROVE LocksOneRelease'
    BY <2>5 DEF LocksOneRelease, PlatformsAt, fixed
  <2>6. CASE Vendor \/ Tick
    BY <2>1, <2>5, <2>6, WorldKnows DEF disk
  <2>7. CASE ReadsDocument
    BY <2>1, <2>5, <2>7, ReadKnows DEF Reading, disk
  <2>8. CASE Execute
    BY <2>1, <2>5, <2>8, ExecuteType DEF Routed, disk
  <2>9. ASSUME NEW place \in Places, NEW tool, NEW selector, Begin(place, tool, selector)
        PROVE  LocksOneRelease'
    BY <2>5, <2>9 DEF Begin, disk
  <2>10. ASSUME \/ \E p \in Places : StartInstall(p)
                \/ \E recreate \in BOOLEAN : Install(recreate)
                \/ InstallFails \/ GiveUp
                \/ StartClean \/ CleanDies \/ \E x \in Installation : CleanStep(x)
         PROVE  LocksOneRelease'
    BY <2>5, <2>10 DEF StartInstall, Install, InstallFails, GiveUp, StartClean, CleanDies, CleanStep
  <2>11. CASE UNCHANGED vars
    BY <2>5, <2>11 DEF vars, disk
  <2> QED BY <2>3, <2>4, <2>6, <2>7, <2>8, <2>9, <2>10, <2>11 DEF Next, Use, Change, ReadsDocument
<1> QED BY <1>1, <1>2, KnownHolds, PTL DEF Spec
=============================================================================
