------------------------- MODULE PublicationProofs -------------------------
(***************************************************************************)
(* Proofs about Publication, for any number of commands, releases, entries *)
(* and deaths.  IInv is inductive: each of its parts is kept by who holds  *)
(* the lock that the part is about, and left alone by everyone else.  From *)
(* it follow that the entries are the ones the registry tells of, that an  *)
(* entry is never unlinked, that what is not Pinset's stays, and that the  *)
(* pair of executables stays one release.                                  *)
(***************************************************************************)
EXTENDS Publication, TLAPS

USE PublicationAssumption, NoneIsNoJournal

LEMMA InitInv == Init => IInv
<1> SUFFICES ASSUME Init PROVE IInv
  OBVIOUS
<1>1. PICK s \in InitialStates :
        bin = s.bin /\ package = s.package /\ registry = s.registry /\ from = s.from
  BY DEF Init
<1>2. /\ bin \in [Names -> Releases \cup {External, None}]
      /\ package \in TwoFiles
      /\ registry \in Registry \cup {None}
      /\ from \subseteq Places
      /\ TellsOf(registry, bin, Names)
      /\ registry # None => bin["pinset"] # None
      /\ Matched(bin) /\ Matched(package)
      /\ "package" \notin from => [n \in Pair |-> bin[n]] \in TwoFiles
  BY <1>1, InitialAssumption
<1>3. TypeOK
  BY <1>2 DEF Init, TypeOK, Hand, EmptyHand, Steps, Places
<1>4. LocksAreHeld
  BY DEF Init, LocksAreHeld, HoldsUpdate, HoldsRepair, PublishSteps, SwapSteps, UndoSteps
<1>5. ASSUME NEW p \in Procs
      PROVE  StepOfOp(p) /\ HandIsFull(p) /\ PlanIsKnown(p) /\ PublishedIsKnown(p)
  BY DEF Init, StepOfOp, HandIsFull, PlanIsKnown, PublishedIsKnown, Planned,
     PublishSteps, SwapSteps, UndoSteps, EmptyHand
<1>6. EntriesAreKnown
  BY <1>2 DEF Init, EntriesAreKnown, TellsOf, Entry, Looked, LeftBehind, Names, Registry, Pair
<1>7. UnrecordedStays
  BY <1>2 DEF Init, UnrecordedStays, Planned, PublishSteps
<1>8. UpdatesAreKnown
  BY DEF Init, UpdatesAreKnown, UpdateIsKnown, HoldsRepair, PublishSteps, SwapSteps, UndoSteps
<1>9. PairsAreKnown
  <2>1. PairIsKnown("package") /\ PairIsKnown("bin")
    BY <1>2 DEF Init, PairIsKnown, PairAt, Matched, Pair
  <2>2. "package" \notin from => BinIsKnown
    <3>1. ASSUME "package" \notin from PROVE PairAt("bin") \in TwoFiles
      BY <3>1, <1>2 DEF PairAt
    <3> QED BY <3>1 DEF Init, BinIsKnown, Planned, PublishSteps
  <2>3. PublishedIsMatched
    BY <1>2 DEF Init, PublishedIsMatched, PublishSteps
  <2> QED BY <2>1, <2>2, <2>3 DEF PairsAreKnown
<1> QED BY <1>3, <1>4, <1>5, <1>6, <1>7, <1>8, <1>9 DEF IInv, Init

-----------------------------------------------------------------------------
(* Types.                                                                  *)

LEMMA JournalType ==
    ASSUME NEW r \in Refresh
    PROVE  /\ r.before \in Registry \cup {None} /\ r.after \in Registry
           /\ r.staged \in TwoFiles
           /\ DOMAIN r.entries \subseteq Names /\ DOMAIN r.old \subseteq Names
           /\ \A n \in DOMAIN r.entries : r.entries[n] \in Releases \cup {None}
           /\ DOMAIN Expected(r) = Pair \cup r.after.commands
           /\ DOMAIN Expected(r) \subseteq Names
           /\ \A n \in DOMAIN Expected(r) :
                Expected(r)[n] = IF n = "pinset" THEN r.after.cli ELSE r.after.shim
           /\ \A x \in {"prepared", "rolling-back", "committed"} :
                /\ [r EXCEPT !.phase = x] \in Refresh
                /\ Expected([r EXCEPT !.phase = x]) = Expected(r)
                /\ Valid([r EXCEPT !.phase = x]) = Valid(r)
<1>1. /\ r.before \in Registry \cup {None} /\ r.after \in Registry
      /\ r.staged \in TwoFiles /\ r.entries \in Entries /\ r.old \in Entries
  BY DEF Refresh
<1>2. /\ DOMAIN r.entries \subseteq Names /\ DOMAIN r.old \subseteq Names
      /\ \A n \in DOMAIN r.entries : r.entries[n] \in Releases \cup {None}
  BY <1>1 DEF Entries
<1>3. /\ DOMAIN Expected(r) = Pair \cup r.after.commands
      /\ DOMAIN Expected(r) \subseteq Names
      /\ \A n \in DOMAIN Expected(r) :
            Expected(r)[n] = IF n = "pinset" THEN r.after.cli ELSE r.after.shim
  BY <1>1 DEF Expected, Names, Registry
<1>4. ASSUME NEW x \in {"prepared", "rolling-back", "committed"}
      PROVE  /\ [r EXCEPT !.phase = x] \in Refresh
             /\ Expected([r EXCEPT !.phase = x]) = Expected(r)
             /\ Valid([r EXCEPT !.phase = x]) = Valid(r)
  <2>1. /\ [r EXCEPT !.phase = x] \in Refresh
        /\ [r EXCEPT !.phase = x].after = r.after
        /\ [r EXCEPT !.phase = x].staged = r.staged
        /\ [r EXCEPT !.phase = x].entries = r.entries
        /\ [r EXCEPT !.phase = x].old = r.old
    BY DEF Refresh
  <2>2. Expected([r EXCEPT !.phase = x]) = Expected(r)
    BY <2>1 DEF Expected
  <2> QED BY <2>1, <2>2 DEF Valid
<1> QED BY <1>1, <1>2, <1>3, <1>4

LEMMA PartsType ==
    ASSUME TypeOK
    PROVE  /\ refresh # None => refresh \in Refresh
           /\ update # None => update \in Update
           /\ registry # None => registry \in Registry
           /\ \A p \in Procs :
                /\ hand[p] \in Hand
                /\ hand[p].plan # None => hand[p].plan \in Refresh
                /\ hand[p].seen # None => hand[p].seen \in TwoFiles
  BY DEF TypeOK, Hand

LEMMA EmptyType == EmptyHand \in Hand
  BY DEF EmptyHand, Hand, Places

LEMMA ReturnType ==
    ASSUME TypeOK, NEW p \in Procs, Return(p)
    PROVE  /\ pc' \in [Procs -> Steps] /\ hand' \in [Procs -> Hand]
           /\ {updating', repairing', publishing'} \subseteq Procs \cup {None}
  BY EmptyType DEF TypeOK, Return, Unlock, Goto, Steps

LEMMA StartType ==
    ASSUME TypeOK, NEW p \in Procs, Start(p), from' = from
    PROVE  TypeOK'
<1>1. pc' \in [Procs -> Steps]
  BY DEF Start, TypeOK, Goto, Steps
<1>2. hand' \in [Procs -> Hand]
  <2>1. PICK place \in from, op \in {"publish", "repair", "update"} :
          hand' = [hand EXCEPT ![p] = [EmptyHand EXCEPT !.op = op, !.place = place]]
    BY DEF Start
  <2>2. [EmptyHand EXCEPT !.op = op, !.place = place] \in Hand
    BY DEF EmptyHand, Hand, TypeOK
  <2> QED BY <2>1, <2>2 DEF TypeOK
<1> QED BY <1>1, <1>2 DEF Start, TypeOK, files, journals, locks

LEMMA TakeShimsType ==
    ASSUME TypeOK, NEW p \in Procs, TakeShims(p), from' = from
    PROVE  TypeOK'
<1>1. CASE Return(p)
  BY <1>1, ReturnType DEF TakeShims, TypeOK, files, journals
<1>2. CASE ~Return(p)
  <2>1. PairAt(hand[p].place) \in TwoFiles /\ publishing' = p
    BY <1>2 DEF TakeShims
  <2>2. \A f \in TwoFiles, b \in BOOLEAN :
          /\ [hand[p] EXCEPT !.seen = f] \in Hand
          /\ [hand[p] EXCEPT !.seen = f, !.rollback = b] \in Hand
    BY PartsType DEF Hand
  <2>3. (refresh.phase = "rolling-back" \/ [n \in Pair |-> Expected(refresh)[n]] # PairAt(hand[p].place))
          \in BOOLEAN
    OBVIOUS
  <2>4. hand' \in [Procs -> Hand]
    BY <1>2, <2>1, <2>2, <2>3 DEF TakeShims, TypeOK
  <2>5. pc' \in [Procs -> Steps]
    BY <1>2 DEF TakeShims, TypeOK, Goto, Steps
  <2> QED BY <1>2, <2>1, <2>4, <2>5 DEF TakeShims, TypeOK, files, journals
<1> QED BY <1>1, <1>2

LEMMA PublishEntryType ==
    ASSUME TypeOK, NEW p \in Procs, HandIsFull(p), refresh # None => Sound(refresh),
           PublishEntry(p), from' = from
    PROVE  TypeOK'
<1>1. refresh \in Refresh /\ Sound(refresh)
  BY PartsType DEF PublishEntry, At, HandIsFull
<1>2. \A n \in DOMAIN refresh.entries : n \in Names /\ Desired(p, n) \in Releases \cup {None}
  BY <1>1, JournalType DEF Desired, Sound, Registry
<1>3. bin' \in [Names -> Releases \cup {External, None}]
  BY <1>2 DEF PublishEntry, TypeOK
<1> QED BY <1>3 DEF PublishEntry, TypeOK, Goto, Steps, journals, locks

LEMMA RegistryType ==
    ASSUME TypeOK, NEW p \in Procs, HandIsFull(p), from' = from,
           MarkRollingBack(p) \/ WriteRegistry(p) \/ WriteCommitted(p) \/ WriteRefresh(p)
    PROVE  TypeOK'
<1>1. CASE MarkRollingBack(p)
  <2>1. refresh' \in Refresh
    BY <1>1, PartsType, JournalType DEF MarkRollingBack, HandIsFull, At
  <2> QED BY <1>1, <2>1 DEF MarkRollingBack, TypeOK, Goto, Steps, files, locks
<1>2. CASE WriteRegistry(p)
  <2>1. registry' \in Registry \cup {None}
    BY <1>2, PartsType, JournalType DEF WriteRegistry, HandIsFull, At
  <2> QED BY <1>2, <2>1 DEF WriteRegistry, TypeOK, Goto, Steps, files, locks
<1>3. CASE WriteCommitted(p)
  <2>1. refresh' \in Refresh
    BY <1>3, PartsType, JournalType DEF WriteCommitted, HandIsFull, At
  <2> QED BY <1>3, <2>1 DEF WriteCommitted, TypeOK, Goto, Steps, files, locks
<1>4. CASE WriteRefresh(p)
  <2>1. refresh' \in Refresh
    BY <1>4, PartsType DEF WriteRefresh, HandIsFull, At
  <2> QED BY <1>4, <2>1 DEF WriteRefresh, TypeOK, Goto, Steps, files, locks
<1> QED BY <1>1, <1>2, <1>3, <1>4

LEMMA PublishedType ==
    ASSUME TypeOK, NEW p \in Procs, Published(p)
    PROVE  /\ pc' \in [Procs -> Steps] /\ hand' \in [Procs -> Hand]
           /\ {updating', repairing', publishing'} \subseteq Procs \cup {None}
  BY ReturnType DEF Published, TypeOK, Goto, Steps

LEMMA DropRefreshType ==
    ASSUME TypeOK, NEW p \in Procs, DropRefresh(p), from' = from
    PROVE  TypeOK'
<1>1. CASE hand[p].plan = None
  BY <1>1 DEF DropRefresh, TypeOK, Goto, Steps, files, locks
<1>2. CASE hand[p].plan # None
  BY <1>2, PublishedType DEF DropRefresh, TypeOK, files
<1> QED BY <1>1, <1>2

\* What a plan is made of.
LEMMA PlanType ==
    ASSUME TypeOK, NEW p \in Procs, hand[p].seen \in TwoFiles,
           NEW commands \in SUBSET Commands,
           \A n \in DOMAIN NewPlan(p, commands).entries :
                NewPlan(p, commands).entries[n] \in Releases \cup {None}
    PROVE  NewPlan(p, commands) \in Refresh
<1>1. NewRegistry(p, commands) \in Registry
  BY DEF NewRegistry, Registry, TwoFiles, TypeOK, Pair
<1> DEFINE plain == [phase |-> "prepared", before |-> registry,
                     after |-> NewRegistry(p, commands), entries |-> [n \in {} |-> None],
                     old |-> [n \in {} |-> None], staged |-> hand[p].seen]
           differ == {n \in DOMAIN Expected(plain) : bin[n] # Expected(plain)[n]}
<1>2. NewPlan(p, commands) = [plain EXCEPT !.entries = [n \in differ |-> bin[n]]]
  BY DEF NewPlan
<1>3. DOMAIN Expected(plain) = Pair \cup NewRegistry(p, commands).commands
  BY DEF Expected
<1>4. differ \subseteq Names
  BY <1>1, <1>3 DEF Registry, Names
<1>5. NewPlan(p, commands).entries = [n \in differ |-> bin[n]]
  BY <1>2
<1>6. [n \in differ |-> bin[n]] \in [differ -> Releases \cup {None}]
  <2> HIDE DEF differ
  <2> QED BY <1>5
<1>7. [n \in {} |-> None] \in [{} -> Releases \cup {None}]
  OBVIOUS
<1>8. /\ NewPlan(p, commands).entries \in Entries
      /\ [n \in {} |-> None] \in Entries
  <2> HIDE DEF differ
  <2>1. differ \in SUBSET Names /\ {} \in SUBSET Names
    BY <1>4
  <2> QED BY <1>5, <1>6, <1>7, <2>1 DEF Entries
<1>9. NewPlan(p, commands) = [phase |-> "prepared", before |-> registry,
            after |-> NewRegistry(p, commands), entries |-> NewPlan(p, commands).entries,
            old |-> [n \in {} |-> None], staged |-> hand[p].seen]
  BY <1>2
<1>10. registry \in Registry \cup {None}
  BY DEF TypeOK
<1> QED BY <1>1, <1>8, <1>9, <1>10 DEF Refresh

\* What a plan says.
LEMMA PlanSays ==
    ASSUME NEW p, NEW commands
    PROVE  LET r == NewPlan(p, commands) IN
           /\ r.phase = "prepared" /\ r.before = registry
           /\ r.after = NewRegistry(p, commands) /\ r.staged = hand[p].seen
           /\ DOMAIN r.entries = {n \in DOMAIN Expected(r) : bin[n] # Expected(r)[n]}
           /\ \A n \in DOMAIN r.entries : r.entries[n] = bin[n]
<1> DEFINE plain == [phase |-> "prepared", before |-> registry,
                     after |-> NewRegistry(p, commands), entries |-> [n \in {} |-> None],
                     old |-> [n \in {} |-> None], staged |-> hand[p].seen]
           differ == {n \in DOMAIN Expected(plain) : bin[n] # Expected(plain)[n]}
           r == NewPlan(p, commands)
<1>1. r = [plain EXCEPT !.entries = [n \in differ |-> bin[n]]]
  BY DEF NewPlan
<1>2. r.after = plain.after
  BY <1>1
<1>3. Expected(r) = Expected(plain)
  BY <1>2 DEF Expected
<1>4. r.entries = [n \in differ |-> bin[n]]
  BY <1>1
<1> QED BY <1>1, <1>3, <1>4

\* The three ends of Plan.
LEMMA PlanCases ==
    ASSUME TypeOK, NEW p \in Procs, HandIsFull(p), Plan(p)
    PROVE  \/ Return(p)
           \/ \E commands \in SUBSET Commands :
                LET r == NewPlan(p, commands) IN
                /\ r \in Refresh
                /\ \A n \in DOMAIN r.entries :
                    /\ n \in Names /\ bin[n] \in Releases \cup {None}
                    /\ bin[n] # None => Owned(n)
                /\ \/ NothingToDo(r) /\ Published(p)
                   \/ KeepPlan(p, r)
<1>1. PICK commands \in SUBSET Commands :
        LET r == NewPlan(p, commands)
        IN IF \E n \in DOMAIN r.entries : bin[n] # None /\ ~Owned(n)
           THEN Return(p)
           ELSE IF NothingToDo(r) THEN Published(p) ELSE KeepPlan(p, r)
  BY DEF Plan
<1> DEFINE r == NewPlan(p, commands)
<1>2. CASE \E n \in DOMAIN r.entries : bin[n] # None /\ ~Owned(n)
  BY <1>1, <1>2
<1>3. CASE \A n \in DOMAIN r.entries : bin[n] # None => Owned(n)
  <2>1. hand[p].seen \in TwoFiles
    BY DEF HandIsFull, Plan, At, PublishSteps
  <2>2. DOMAIN r.entries \subseteq Names
    <3>1. NewRegistry(p, commands).commands \subseteq Commands
      BY DEF NewRegistry, TypeOK, Registry
    <3>2. r.after.commands \subseteq Commands
      BY <3>1, PlanSays
    <3>3. DOMAIN Expected(r) \subseteq Names
      BY <3>2 DEF Expected, Names
    <3>4. DOMAIN r.entries \subseteq DOMAIN Expected(r)
      BY PlanSays
    <3> HIDE DEF r
    <3> QED BY <3>3, <3>4
  <2>3. \A n \in DOMAIN r.entries : bin[n] \in Releases \cup {None}
    BY <1>3, <2>2 DEF Owned, TypeOK, Registry
  <2>4. \A n \in DOMAIN r.entries : r.entries[n] = bin[n]
    BY PlanSays
  <2>5. r \in Refresh
    BY <2>1, <2>3, <2>4, PlanType
  <2> HIDE DEF r
  <2> QED BY <1>1, <1>3, <2>2, <2>3, <2>5 DEF r
<1> QED BY <1>2, <1>3

LEMMA PlanStepType ==
    ASSUME TypeOK, NEW p \in Procs, HandIsFull(p), Plan(p), from' = from
    PROVE  TypeOK'
<1>1. CASE Return(p)
  BY <1>1, ReturnType DEF Plan, TypeOK, files, journals
<1>2. CASE Published(p)
  BY <1>2, PublishedType DEF Plan, TypeOK, files, journals
<1>3. ASSUME NEW r \in Refresh, KeepPlan(p, r)
      PROVE  TypeOK'
  <2>1. [hand[p] EXCEPT !.rollback = FALSE, !.plan = r] \in Hand
    BY PartsType DEF Hand
  <2>2. hand' \in [Procs -> Hand]
    BY <1>3, <2>1 DEF KeepPlan, TypeOK
  <2> QED BY <1>3, <2>2 DEF KeepPlan, Plan, TypeOK, files, journals, locks, Goto, Steps
<1> QED BY <1>1, <1>2, <1>3, PlanCases

\* What Stage copies.
LEMMA StageSays ==
    ASSUME TypeOK, NEW p \in Procs, HandIsFull(p), PlanIsKnown(p), Stage(p)
    PROVE  LET old == hand[p].plan
               r == hand'[p].plan IN
           /\ old \in Refresh /\ r \in Refresh
           /\ r.phase = old.phase /\ r.before = old.before /\ r.after = old.after
           /\ r.entries = old.entries /\ Expected(r) = Expected(old)
           /\ r.staged = PairAt(hand[p].place)
           /\ r.old = [n \in DOMAIN old.entries |-> bin[n]]
           /\ hand'[p] \in Hand
           /\ hand'[p] = [hand[p] EXCEPT !.plan = r]
           /\ \A q \in Procs \ {p} : hand'[q] = hand[q]
           /\ hand' = [hand EXCEPT ![p] = hand'[p]]
<1> DEFINE old == hand[p].plan
           r == [old EXCEPT !.staged = PairAt(hand[p].place),
                            !.old = [n \in DOMAIN old.entries |-> bin[n]]]
<1>1. old \in Refresh /\ Sound(old) /\ hand[p] \in Hand
  BY PartsType DEF HandIsFull, PlanIsKnown, Planned, Stage, At, PublishSteps
<1>2. hand' = [hand EXCEPT ![p] = [hand[p] EXCEPT !.plan = r]]
  BY <1>1 DEF Stage, TypeOK, Hand, Refresh
<1>3. hand'[p] = [hand[p] EXCEPT !.plan = r]
  BY <1>2 DEF TypeOK
<1>4. hand'[p].plan = r
  BY <1>1, <1>3 DEF Hand
<1>5. DOMAIN old.entries \subseteq Names
  BY <1>1, JournalType
<1>6. [n \in DOMAIN old.entries |-> bin[n]] \in Entries
  <2>1. [n \in DOMAIN old.entries |-> bin[n]] \in [DOMAIN old.entries -> Releases \cup {None}]
    BY <1>1, <1>5 DEF Sound, TypeOK
  <2> QED BY <2>1, <1>5 DEF Entries
<1>7. PairAt(hand[p].place) \in TwoFiles
  BY DEF Stage
<1>8. /\ r \in Refresh
      /\ r.phase = old.phase /\ r.before = old.before /\ r.after = old.after
      /\ r.entries = old.entries
      /\ r.staged = PairAt(hand[p].place)
      /\ r.old = [n \in DOMAIN old.entries |-> bin[n]]
  BY <1>1, <1>6, <1>7 DEF Refresh
<1>9. Expected(r) = Expected(old)
  BY <1>8 DEF Expected
<1>10. hand'[p] \in Hand
  BY <1>1, <1>3, <1>8 DEF Hand
<1> HIDE DEF r
<1>11. /\ \A q \in Procs \ {p} : hand'[q] = hand[q]
       /\ hand' = [hand EXCEPT ![p] = hand'[p]]
  BY <1>2, <1>3 DEF TypeOK
<1> QED BY <1>1, <1>3, <1>4, <1>8, <1>9, <1>10, <1>11 DEF r

LEMMA StageType ==
    ASSUME TypeOK, NEW p \in Procs, HandIsFull(p), PlanIsKnown(p), Stage(p), from' = from
    PROVE  TypeOK'
<1>1. hand' \in [Procs -> Hand]
  <2>1. hand'[p] \in Hand /\ hand' = [hand EXCEPT ![p] = hand'[p]]
    BY StageSays
  <2> QED BY <2>1 DEF TypeOK
<1> QED BY <1>1 DEF Stage, TypeOK, files, journals, locks, Goto, Steps

LEMMA CheckLiveType ==
    ASSUME TypeOK, NEW p \in Procs, CheckLive(p), from' = from
    PROVE  TypeOK'
<1>1. CASE Return(p)
  BY <1>1, ReturnType DEF CheckLive, TypeOK, files, journals
<1>2. CASE ~Return(p)
  BY <1>2 DEF CheckLive, TypeOK, files, journals, locks, Goto, Steps
<1> QED BY <1>1, <1>2

LEMMA PairAtType ==
    ASSUME TypeOK, NEW place \in Places
    PROVE  /\ PairAt("package") = package /\ PairAt("package") \in TwoFiles
           /\ PairAt(place) \in [Pair -> Releases \cup {External, None}]
           /\ \A n \in Pair : PairAt(place)[n] = IF place = "bin" THEN bin[n] ELSE package[n]
           /\ \A n \in Pair : n \in Names
  BY DEF TypeOK, PairAt, TwoFiles, Places, Names

LEMMA PutType ==
    ASSUME TypeOK, NEW place \in Places, NEW n \in Pair, NEW release \in Releases,
           Put(place, n, release)
    PROVE  /\ bin' \in [Names -> Releases \cup {External, None}]
           /\ package' \in TwoFiles
           /\ \A m \in Names : bin'[m] = IF place = "bin" /\ m = n THEN release ELSE bin[m]
           /\ \A m \in Pair : package'[m] = IF place # "bin" /\ m = n THEN release ELSE package[m]
           /\ place # "bin" => bin' = bin
           /\ place = "bin" => package' = package
  BY DEF TypeOK, TwoFiles, Put, Names

LEMMA UpdatingType ==
    ASSUME TypeOK, NEW p \in Procs, UpdateIsKnown(p), Updating(p), from' = from
    PROVE  TypeOK'
<1>1. CASE TakeUpdate(p) /\ Return(p)
  <2>1. pc'[p] = "idle"
    BY <1>1 DEF Return, Goto, TypeOK
  <2>2. UNCHANGED update
    BY <1>1, <2>1 DEF TakeUpdate, Goto, TypeOK
  <2> QED BY <1>1, <2>2, ReturnType DEF TakeUpdate, TypeOK, files
<1>2. CASE TakeUpdate(p) /\ ~Return(p)
  <2>1. PICK next \in Releases : hand' = [hand EXCEPT ![p].next = next]
    BY <1>2 DEF TakeUpdate
  <2>2. [hand[p] EXCEPT !.next = next] \in Hand
    BY PartsType DEF Hand
  <2>3. hand' \in [Procs -> Hand]
    BY <2>1, <2>2 DEF TypeOK
  <2>4. update' \in Update
    BY <1>2, PartsType DEF TakeUpdate, Update, Hand
  <2> QED BY <1>2, <2>3, <2>4 DEF TakeUpdate, TypeOK, files, Goto, Steps
<1>3. CASE WritePrepared(p)
  <2>1. update' \in Update
    BY <1>3, PartsType DEF WritePrepared, UpdateIsKnown, At, SwapSteps, Update
  <2> QED BY <1>3, <2>1 DEF WritePrepared, TypeOK, files, locks, Goto, Steps
<1>4. CASE Swap(p)
  <2>1. hand[p].next \in Releases /\ hand[p].place \in Places
    BY <1>4, PartsType DEF Swap, UpdateIsKnown, At, SwapSteps, Hand
  <2>2. PICK n \in Pair : Put(hand[p].place, n, hand[p].next)
    BY <1>4 DEF Swap, Pair
  <2>3. bin' \in [Names -> Releases \cup {External, None}] /\ package' \in TwoFiles
    BY <2>1, <2>2, PutType
  <2> QED BY <1>4, <2>3 DEF Swap, TypeOK, journals, locks, Goto, Steps
<1>5. CASE CommitUpdate(p)
  <2>1. update' \in Update
    BY <1>5, PartsType DEF CommitUpdate, UpdateIsKnown, At, SwapSteps, Update
  <2>2. [EmptyHand EXCEPT !.op = "repair", !.place = hand[p].place] \in Hand
    BY PartsType DEF EmptyHand, Hand
  <2> QED BY <1>5, <2>1, <2>2 DEF CommitUpdate, TypeOK, files, Goto, Steps
<1> QED BY <1>1, <1>2, <1>3, <1>4, <1>5 DEF Updating

LEMMA RepairingType ==
    ASSUME TypeOK, NEW p \in Procs, UpdateIsKnown(p), Repairing(p), from' = from
    PROVE  TypeOK'
<1>1. CASE TakeRepair(p) /\ Return(p)
  BY <1>1, ReturnType DEF TakeRepair, TypeOK, files, journals
<1>2. CASE TakeRepair(p) /\ ~Return(p)
  BY <1>2 DEF TakeRepair, TypeOK, files, journals, Goto, Steps
<1>3. CASE Undo(p)
  <2>1. update \in Update
    BY <1>3, PartsType DEF Undo, UpdateIsKnown, At, UndoSteps
  <2>2. update.dest \in Places /\ \A n \in Pair : update.backup[n] \in Releases
    BY <2>1 DEF Update, TwoFiles
  <2>3. CASE \E n \in Pair : Put(update.dest, n, update.backup[n]) /\ UNCHANGED pc
    <3>1. bin' \in [Names -> Releases \cup {External, None}] /\ package' \in TwoFiles
      BY <2>2, <2>3, PutType
    <3> QED BY <1>3, <2>3, <3>1 DEF Undo, TypeOK, journals, locks
  <2>4. CASE Goto(p, "undone") /\ UNCHANGED files
    BY <1>3, <2>4 DEF Undo, TypeOK, files, journals, locks, Goto, Steps
  <2> QED BY <1>3, <2>3, <2>4 DEF Undo
<1>4. CASE Undone(p) /\ hand[p].op = "repair"
  <2>1. update \in Update
    BY <1>4, PartsType DEF Undone, UpdateIsKnown, At, UndoSteps
  <2>2. update' \in Update /\ update.backup["pinset"] \in Releases
    BY <1>4, <2>1 DEF Undone, Update, TwoFiles, Pair
  <2>3. [hand[p] EXCEPT !.next = update.backup["pinset"]] \in Hand
    BY <2>2, PartsType DEF Hand
  <2> QED BY <1>4, <2>2, <2>3 DEF Undone, TypeOK, files, locks, Goto, Steps
<1>5. CASE Undone(p) /\ hand[p].op # "repair"
  BY <1>5, ReturnType DEF Undone, TypeOK, files
<1>6. CASE DropUpdate(p) /\ hand[p].next = None
  BY <1>6, ReturnType DEF DropUpdate, TypeOK, files
<1>7. CASE DropUpdate(p) /\ hand[p].next # None
  <2>1. [EmptyHand EXCEPT !.op = "repair", !.place = hand[p].place] \in Hand
    BY PartsType DEF EmptyHand, Hand
  <2> QED BY <1>7, <2>1 DEF DropUpdate, TypeOK, files, Goto, Steps
<1> QED BY <1>1, <1>2, <1>3, <1>4, <1>5, <1>6, <1>7 DEF Repairing

LEMMA OtherType ==
    ASSUME TypeOK, NEW p \in Procs, Fails(p) \/ Die(p), from' = from
    PROVE  TypeOK'
<1>1. CASE Fails(p) /\ At(p, "swap")
  BY <1>1 DEF Fails, TypeOK, files, locks, Goto, Steps, At
<1>2. CASE Fails(p) /\ ~At(p, "swap")
  BY <1>2, ReturnType DEF Fails, TypeOK, files, At
<1>3. CASE Die(p)
  BY <1>3, ReturnType DEF Die, TypeOK, files, journals
<1> QED BY <1>1, <1>2, <1>3

LEMMA UpgradeType ==
    ASSUME TypeOK, Upgrade, from' = from
    PROVE  TypeOK'
  BY DEF Upgrade, TypeOK, journals, locks, TwoFiles

LEMMA PublishingType ==
    ASSUME TypeOK, NEW p \in Procs, HandIsFull(p), PlanIsKnown(p), refresh # None => Sound(refresh),
           Publishing(p), from' = from
    PROVE  TypeOK'
  BY TakeShimsType, PublishEntryType, RegistryType, DropRefreshType, PlanStepType, StageType,
     CheckLiveType DEF Publishing

-----------------------------------------------------------------------------
(* Locks, and which command is at which step.                              *)

Step(p) ==
    Start(p) \/ Publishing(p) \/ Updating(p) \/ Repairing(p) \/ Fails(p) \/ Die(p)

USE DEF Step

\* A step of one command leaves the others where they are.
LEMMA OthersStay ==
    ASSUME TypeOK, NEW p \in Procs,
           Step(p)
    PROVE  \A q \in Procs \ {p} : pc'[q] = pc[q] /\ hand'[q] = hand[q]
<1>1. CASE Return(p) \/ Published(p)
  BY <1>1 DEF Return, Published, Goto, TypeOK
<1>2. CASE Start(p)
  BY <1>2 DEF Start, Goto, TypeOK
<1>3. CASE Publishing(p) /\ ~Return(p) /\ ~Published(p)
  <2>1. CASE TakeShims(p)
    BY <1>3, <2>1 DEF TakeShims, Goto, TypeOK
  <2>2. CASE MarkRollingBack(p)
    BY <2>2 DEF MarkRollingBack, Goto, TypeOK
  <2>3. CASE PublishEntry(p)
    BY <2>3 DEF PublishEntry, Goto, TypeOK
  <2>4. CASE WriteRegistry(p)
    BY <2>4 DEF WriteRegistry, Goto, TypeOK
  <2>5. CASE WriteCommitted(p)
    BY <2>5 DEF WriteCommitted, Goto, TypeOK
  <2>6. CASE DropRefresh(p)
    BY <1>3, <2>6 DEF DropRefresh, Goto, TypeOK
  <2>7. CASE Plan(p)
    BY <1>3, <2>7 DEF Plan, KeepPlan, Goto, TypeOK
  <2>8. CASE Stage(p)
    BY <2>8 DEF Stage, Goto, TypeOK
  <2>9. CASE WriteRefresh(p)
    BY <2>9 DEF WriteRefresh, Goto, TypeOK
  <2>10. CASE CheckLive(p)
    BY <1>3, <2>10 DEF CheckLive, Goto, TypeOK
  <2> QED BY <1>3, <2>1, <2>2, <2>3, <2>4, <2>5, <2>6, <2>7, <2>8, <2>9, <2>10 DEF Publishing
<1>4. CASE Updating(p) /\ ~Return(p)
  <2>1. CASE TakeUpdate(p)
    BY <1>4, <2>1 DEF TakeUpdate, Goto, TypeOK
  <2>2. CASE WritePrepared(p)
    BY <2>2 DEF WritePrepared, Goto, TypeOK
  <2>3. CASE Swap(p)
    BY <2>3 DEF Swap, Goto, TypeOK
  <2>4. CASE CommitUpdate(p)
    BY <2>4 DEF CommitUpdate, Goto, TypeOK
  <2> QED BY <1>4, <2>1, <2>2, <2>3, <2>4 DEF Updating
<1>5. CASE Repairing(p) /\ ~Return(p)
  <2>1. CASE TakeRepair(p)
    BY <1>5, <2>1 DEF TakeRepair, Goto, TypeOK
  <2>2. CASE Undo(p)
    BY <2>2 DEF Undo, Goto, TypeOK
  <2>3. CASE Undone(p)
    BY <1>5, <2>3 DEF Undone, Goto, TypeOK
  <2>4. CASE DropUpdate(p)
    BY <1>5, <2>4 DEF DropUpdate, Goto, TypeOK
  <2> QED BY <1>5, <2>1, <2>2, <2>3, <2>4 DEF Repairing
<1>6. CASE Fails(p) /\ ~Return(p)
  BY <1>6 DEF Fails, Goto, TypeOK
<1>7. CASE Die(p)
  BY <1>1, <1>7 DEF Die
<1> QED BY <1>1, <1>2, <1>3, <1>4, <1>5, <1>6, <1>7

LEMMA ReturnLocks ==
    ASSUME TypeOK, LocksAreHeld, NEW p \in Procs, Return(p)
    PROVE  LocksAreHeld'
<1>1. pc'[p] = "idle" /\ \A q \in Procs \ {p} : pc'[q] = pc[q] /\ hand'[q] = hand[q]
  BY DEF Return, Goto, TypeOK
<1>2. \A q \in Procs \ {p} : HoldsUpdate(q)' = HoldsUpdate(q) /\ HoldsRepair(q)' = HoldsRepair(q)
  BY <1>1 DEF HoldsUpdate, HoldsRepair
<1>3. ~HoldsUpdate(p)' /\ ~HoldsRepair(p)' /\ pc'[p] \notin PublishSteps
  BY <1>1 DEF HoldsUpdate, HoldsRepair, PublishSteps, SwapSteps, UndoSteps
<1>4. /\ updating' = IF updating = p THEN None ELSE updating
      /\ repairing' = IF repairing = p THEN None ELSE repairing
      /\ publishing' = IF publishing = p THEN None ELSE publishing
  BY DEF Return, Unlock
<1> QED BY <1>1, <1>2, <1>3, <1>4 DEF LocksAreHeld

LEMMA PublishedLocks ==
    ASSUME TypeOK, LocksAreHeld, NEW p \in Procs, pc[p] \in PublishSteps, Published(p)
    PROVE  LocksAreHeld'
<1>1. CASE Return(p)
  BY <1>1, ReturnLocks
<1>2. CASE ~Return(p)
  <2>1. /\ hand[p].op = "repair" /\ publishing' = None /\ UNCHANGED <<updating, repairing, hand>>
        /\ pc'[p] = "drop-update" /\ \A q \in Procs \ {p} : pc'[q] = pc[q]
    BY <1>2 DEF Published, Goto, TypeOK
  <2>2. publishing = p /\ updating = None
    BY DEF LocksAreHeld
  <2> QED BY <2>1, <2>2 DEF LocksAreHeld, HoldsUpdate, HoldsRepair, PublishSteps, SwapSteps, UndoSteps
<1> QED BY <1>1, <1>2

\* A step that takes no lock and drops none.
LEMMA LocksStay ==
    ASSUME TypeOK, LocksAreHeld, NEW p \in Procs, UNCHANGED locks,
           \A q \in Procs \ {p} : pc'[q] = pc[q] /\ hand'[q] = hand[q],
           pc'[p] \in PublishSteps <=> pc[p] \in PublishSteps,
           HoldsUpdate(p)' <=> HoldsUpdate(p), HoldsRepair(p)' <=> HoldsRepair(p)
    PROVE  LocksAreHeld'
<1>1. \A q \in Procs \ {p} : HoldsUpdate(q)' = HoldsUpdate(q) /\ HoldsRepair(q)' = HoldsRepair(q)
  BY DEF HoldsUpdate, HoldsRepair
<1> QED BY <1>1 DEF LocksAreHeld, locks

LEMMA LocksKept ==
    ASSUME TypeOK, LocksAreHeld, NEW p \in Procs, StepOfOp(p), HandIsFull(p),
           Step(p)
    PROVE  LocksAreHeld'
<1> USE DEF At, Goto
<1>1. \A q \in Procs \ {p} : pc'[q] = pc[q] /\ hand'[q] = hand[q]
  BY OthersStay
<1>2. pc \in [Procs -> Steps] /\ hand \in [Procs -> Hand]
  BY DEF TypeOK
<1>3. \A q \in Procs \ {p} : HoldsUpdate(q)' = HoldsUpdate(q) /\ HoldsRepair(q)' = HoldsRepair(q)
  BY <1>1 DEF HoldsUpdate, HoldsRepair
<1>4. CASE Return(p)
  BY <1>4, ReturnLocks
<1>5. CASE pc[p] \in PublishSteps /\ Published(p)
  BY <1>5, PublishedLocks
<1>6. CASE Start(p)
  <2>1. UNCHANGED locks /\ pc[p] = "idle" /\ pc'[p] \in {"shims", "repair", "want-update"}
    BY <1>2, <1>6 DEF Start
  <2>2. pc'[p] = "shims" => hand'[p].op = "publish"
    <3>1. PICK place \in from, op \in {"publish", "repair", "update"} :
            /\ hand' = [hand EXCEPT ![p] = [EmptyHand EXCEPT !.op = op, !.place = place]]
            /\ pc' = [pc EXCEPT ![p] = CASE op = "publish" -> "shims" [] op = "repair" -> "repair"
                     [] op = "update" -> "want-update"]
      BY <1>6 DEF Start
    <3> QED BY <1>2, <3>1 DEF EmptyHand
  <2> QED BY <1>1, <2>1, <2>2, LocksStay DEF PublishSteps, HoldsUpdate, HoldsRepair, SwapSteps, UndoSteps
<1>7. CASE Publishing(p) /\ ~Return(p) /\ ~Published(p)
  <2>1. CASE TakeShims(p)
    <3>1. /\ pc[p] = "shims" /\ publishing = None /\ updating = None
          /\ publishing' = p /\ UNCHANGED <<updating, repairing>>
          /\ pc'[p] \in {"plan", "mark", "entries"}
      BY <1>2, <1>7, <2>1 DEF TakeShims
    <3>2. hand'[p].op = hand[p].op
      BY <1>2, <1>7, <2>1 DEF TakeShims, Hand
    <3>3. HoldsRepair(p)' = HoldsRepair(p) /\ HoldsUpdate(p)' = HoldsUpdate(p)
      BY <3>1, <3>2 DEF HoldsUpdate, HoldsRepair, PublishSteps, SwapSteps, UndoSteps
    <3>4. pc'[p] \in PublishSteps
      BY <3>1 DEF PublishSteps
    <3> QED BY <1>1, <1>3, <3>1, <3>3, <3>4 DEF LocksAreHeld
  <2>2. CASE ~TakeShims(p)
    <3>1. /\ UNCHANGED locks /\ pc[p] \in PublishSteps /\ pc'[p] \in PublishSteps
      BY <1>2, <1>7, <2>2 DEF Publishing, MarkRollingBack, PublishEntry, WriteRegistry,
         WriteCommitted, DropRefresh, Plan, KeepPlan, Stage, WriteRefresh, CheckLive, PublishSteps,
         locks
    <3>2. hand'[p].op = hand[p].op
      <4>1. CASE Plan(p)
        BY <1>2, <1>7, <4>1 DEF Plan, KeepPlan, Hand
      <4>2. CASE Stage(p)
        BY <1>2, <4>2 DEF Stage, Hand
      <4>3. CASE ~Plan(p) /\ ~Stage(p)
        BY <1>2, <1>7, <2>2, <4>3 DEF Publishing, MarkRollingBack, PublishEntry, WriteRegistry,
         WriteCommitted, DropRefresh, WriteRefresh, CheckLive
      <4> QED BY <4>1, <4>2, <4>3
    <3>3. HoldsRepair(p)' = HoldsRepair(p) /\ HoldsUpdate(p)' = HoldsUpdate(p)
      BY <3>1, <3>2 DEF HoldsUpdate, HoldsRepair, PublishSteps, SwapSteps, UndoSteps
    <3> QED BY <1>1, <3>1, <3>3, LocksStay
  <2> QED BY <2>1, <2>2
<1>8. CASE Updating(p) /\ ~Return(p)
  <2>1. CASE TakeUpdate(p)
    <3>1. /\ pc[p] = "want-update" /\ updating = None /\ repairing = None /\ publishing = None
          /\ updating' = p /\ UNCHANGED <<repairing, publishing>> /\ pc'[p] = "prepared"
      BY <1>2, <1>8, <2>1 DEF TakeUpdate
    <3>2. HoldsUpdate(p)' /\ ~HoldsRepair(p)' /\ pc'[p] \notin PublishSteps
      BY <3>1 DEF HoldsUpdate, HoldsRepair, PublishSteps, SwapSteps, UndoSteps
    <3> QED BY <1>1, <1>3, <3>1, <3>2 DEF LocksAreHeld
  <2>2. CASE WritePrepared(p) \/ Swap(p)
    <3>1. UNCHANGED locks /\ pc[p] \in SwapSteps /\ pc'[p] \in SwapSteps
      BY <1>2, <2>2 DEF WritePrepared, Swap, SwapSteps
    <3> QED BY <1>1, <3>1, LocksStay DEF HoldsUpdate, HoldsRepair, PublishSteps, SwapSteps, UndoSteps
  <2>3. CASE CommitUpdate(p)
    <3>1. /\ pc[p] = "commit-update" /\ updating' = None /\ UNCHANGED <<repairing, publishing>>
          /\ pc'[p] = "repair"
      BY <1>2, <2>3 DEF CommitUpdate
    <3>2. HoldsUpdate(p) /\ updating = p
      BY <3>1 DEF LocksAreHeld, HoldsUpdate, SwapSteps
    <3>3. ~HoldsUpdate(p)' /\ ~HoldsRepair(p)' /\ pc'[p] \notin PublishSteps
      BY <3>1 DEF HoldsUpdate, HoldsRepair, PublishSteps, SwapSteps, UndoSteps
    <3> QED BY <1>1, <1>3, <3>1, <3>2, <3>3 DEF LocksAreHeld
  <2> QED BY <1>8, <2>1, <2>2, <2>3 DEF Updating
<1>9. CASE Repairing(p) /\ ~Return(p)
  <2>1. CASE TakeRepair(p)
    <3>1. /\ pc[p] = "repair" /\ updating = None /\ repairing = None
          /\ repairing' = p /\ UNCHANGED <<updating, publishing, hand>> /\ pc'[p] \in {"undo", "shims"}
      BY <1>2, <1>9, <2>1 DEF TakeRepair
    <3>2. hand'[p].op = "repair"
      BY <3>1 DEF StepOfOp
    <3>3. HoldsRepair(p)' /\ ~HoldsUpdate(p)' /\ pc'[p] \notin PublishSteps /\ pc[p] \notin PublishSteps
      BY <3>1, <3>2 DEF HoldsUpdate, HoldsRepair, PublishSteps, SwapSteps, UndoSteps
    <3> QED BY <1>1, <1>3, <3>1, <3>3 DEF LocksAreHeld
  <2>2. CASE Undo(p) \/ (Undone(p) /\ hand[p].op = "repair")
    <3>1. UNCHANGED locks /\ pc[p] \in {"undo", "undone"} /\ hand'[p].op = hand[p].op
          /\ (pc'[p] \in {"undo", "undone"} \/ (hand[p].op = "repair" /\ pc'[p] = "shims"))
      BY <1>2, <2>2 DEF Undo, Undone, Hand
    <3> QED BY <1>1, <3>1, LocksStay DEF HoldsUpdate, HoldsRepair, PublishSteps, SwapSteps, UndoSteps
  <2>3. CASE DropUpdate(p)
    <3>1. /\ pc[p] = "drop-update" /\ hand[p].op = "repair"
          /\ repairing' = None /\ UNCHANGED <<updating, publishing>> /\ pc'[p] = "repair"
      BY <1>2, <1>9, <2>3 DEF DropUpdate, StepOfOp
    <3>2. HoldsRepair(p) /\ repairing = p
      BY <3>1 DEF LocksAreHeld, HoldsRepair
    <3>3. ~HoldsUpdate(p)' /\ ~HoldsRepair(p)' /\ pc'[p] \notin PublishSteps /\ ~HoldsUpdate(p)
          /\ pc[p] \notin PublishSteps
      BY <3>1 DEF HoldsUpdate, HoldsRepair, PublishSteps, SwapSteps, UndoSteps
    <3> QED BY <1>1, <1>3, <3>1, <3>2, <3>3 DEF LocksAreHeld
  <2> QED BY <1>9, <2>1, <2>2, <2>3 DEF Repairing, Undone
<1>10. CASE Fails(p) /\ ~Return(p)
  <2>1. UNCHANGED <<locks, hand>> /\ pc[p] = "swap" /\ pc'[p] = "undo" /\ hand[p].op = "update"
    BY <1>2, <1>10 DEF Fails, StepOfOp, SwapSteps
  <2> QED BY <1>1, <2>1, LocksStay DEF HoldsUpdate, HoldsRepair, PublishSteps, SwapSteps, UndoSteps
<1>11. CASE Published(p) /\ Publishing(p) /\ ~Return(p) /\ pc[p] \notin PublishSteps
  BY <1>2, <1>11 DEF Publishing, TakeShims, MarkRollingBack, PublishEntry, WriteRegistry,
     WriteCommitted, DropRefresh, Plan, Stage, WriteRefresh, CheckLive, Published, PublishSteps
<1> QED BY <1>4, <1>5, <1>6, <1>7, <1>8, <1>9, <1>10, <1>11 DEF Die

\* Who is back at the start, and what is known of everyone but the one who took a step.
LEMMA Idle ==
    ASSUME TypeOK, NEW p \in Procs, Return(p)
    PROVE  pc'[p] = "idle" /\ hand'[p] = EmptyHand
           /\ \A q \in Procs \ {p} : pc'[q] = pc[q] /\ hand'[q] = hand[q]
  BY DEF Return, Goto, TypeOK

\* A refresh is written by who holds the lock shims, and the registry as well.
LEMMA RefreshIsLocked ==
    ASSUME TypeOK, NEW p \in Procs,
           Step(p)
    PROVE  pc[p] \in PublishSteps \/ UNCHANGED <<registry, refresh>>
<1> USE DEF At
<1>1. CASE Start(p) \/ Fails(p) \/ Die(p)
  BY <1>1 DEF Start, Fails, Die, journals
<1>2. CASE Publishing(p)
  BY <1>2 DEF Publishing, TakeShims, MarkRollingBack, PublishEntry, WriteRegistry, WriteCommitted,
     DropRefresh, Plan, Stage, WriteRefresh, CheckLive, journals, PublishSteps
<1>3. CASE Updating(p) \/ Repairing(p)
  BY <1>3 DEF Updating, TakeUpdate, WritePrepared, Swap, CommitUpdate, Repairing, TakeRepair,
     Undo, Undone, DropUpdate, journals
<1> QED BY <1>1, <1>2, <1>3

LEMMA StepOfOpKept ==
    ASSUME TypeOK, NEW p \in Procs, StepOfOp(p), HandIsFull(p), from' = from,
           Step(p)
    PROVE  StepOfOp(p)'
<1> USE DEF At, Goto
<1>1. pc \in [Procs -> Steps] /\ hand \in [Procs -> Hand]
  BY DEF TypeOK
<1>2. CASE Return(p)
  BY <1>2, Idle DEF StepOfOp, PublishSteps, SwapSteps, UndoSteps
<1>3. CASE Published(p) /\ ~Return(p) /\ pc[p] # "idle"
  BY <1>1, <1>3 DEF Published, StepOfOp, PublishSteps, SwapSteps, UndoSteps
<1>4. CASE Start(p)
  <2>1. PICK place \in from, op \in {"publish", "repair", "update"} :
            /\ hand' = [hand EXCEPT ![p] = [EmptyHand EXCEPT !.op = op, !.place = place]]
            /\ pc' = [pc EXCEPT ![p] = CASE op = "publish" -> "shims" [] op = "repair" -> "repair"
                     [] op = "update" -> "want-update"]
    BY <1>4 DEF Start
  <2>2. hand'[p].op = op /\ hand'[p].place = place
    BY <1>1, <2>1 DEF EmptyHand
  <2>3. pc'[p] = CASE op = "publish" -> "shims" [] op = "repair" -> "repair"
                   [] op = "update" -> "want-update"
    BY <1>1, <2>1
  <2> QED BY <2>2, <2>3 DEF StepOfOp, PublishSteps, SwapSteps, UndoSteps
<1>5. CASE Publishing(p) /\ ~Return(p) /\ ~Published(p)
  <2>1. hand'[p].op = hand[p].op /\ hand'[p].place = hand[p].place
    <3>1. CASE Plan(p)
      BY <1>1, <1>5, <3>1 DEF Plan, KeepPlan, Hand
    <3>2. CASE Stage(p) \/ TakeShims(p)
      BY <1>1, <1>5, <3>2 DEF Stage, TakeShims, Hand
    <3>3. CASE ~Plan(p) /\ ~Stage(p) /\ ~TakeShims(p)
      BY <1>1, <1>5, <3>3 DEF Publishing, MarkRollingBack, PublishEntry, WriteRegistry,
         WriteCommitted, DropRefresh, WriteRefresh, CheckLive
    <3> QED BY <3>1, <3>2, <3>3
  <2>2. pc[p] \in PublishSteps \cup {"shims"} /\ pc'[p] \in PublishSteps
    BY <1>1, <1>5 DEF Publishing, TakeShims, MarkRollingBack, PublishEntry, WriteRegistry,
         WriteCommitted, DropRefresh, Plan, KeepPlan, Stage, WriteRefresh, CheckLive, PublishSteps
  <2> QED BY <2>1, <2>2 DEF StepOfOp, PublishSteps, SwapSteps, UndoSteps
<1>6. CASE Updating(p) /\ ~Return(p)
  <2>1. CASE TakeUpdate(p)
    <3>1. hand'[p].op = hand[p].op /\ hand'[p].place = hand[p].place
          /\ pc[p] = "want-update" /\ pc'[p] = "prepared"
      BY <1>1, <1>6, <2>1 DEF TakeUpdate, Hand
    <3> QED BY <3>1 DEF StepOfOp, PublishSteps, SwapSteps, UndoSteps
  <2>2. CASE WritePrepared(p) \/ Swap(p)
    <3>1. hand' = hand /\ pc[p] \in SwapSteps /\ pc'[p] \in SwapSteps
      BY <1>1, <2>2 DEF WritePrepared, Swap, SwapSteps
    <3> QED BY <3>1 DEF StepOfOp, PublishSteps, SwapSteps, UndoSteps
  <2>3. CASE CommitUpdate(p)
    <3>1. hand'[p].op = "repair" /\ hand'[p].place = hand[p].place
          /\ pc[p] = "commit-update" /\ pc'[p] = "repair"
      BY <1>1, <2>3 DEF CommitUpdate, EmptyHand
    <3> QED BY <3>1 DEF StepOfOp, PublishSteps, SwapSteps, UndoSteps
  <2> QED BY <1>6, <2>1, <2>2, <2>3 DEF Updating
<1>7. CASE Repairing(p) /\ ~Return(p)
  <2>1. CASE TakeRepair(p) \/ Undo(p)
    <3>1. hand' = hand /\ \/ pc[p] = "repair" /\ pc'[p] \in {"undo", "shims"}
                          \/ pc[p] = "undo" /\ pc'[p] \in {"undo", "undone"}
      BY <1>1, <1>7, <2>1 DEF TakeRepair, Undo
    <3> QED BY <3>1 DEF StepOfOp, PublishSteps, SwapSteps, UndoSteps
  <2>2. CASE Undone(p)
    <3>1. hand'[p].op = "repair" /\ hand'[p].place = hand[p].place
          /\ pc[p] = "undone" /\ pc'[p] = "shims"
      BY <1>1, <1>7, <2>2 DEF Undone, Hand
    <3> QED BY <3>1 DEF StepOfOp, PublishSteps, SwapSteps, UndoSteps
  <2>3. CASE DropUpdate(p)
    <3>1. hand'[p].op = "repair" /\ hand'[p].place = hand[p].place
          /\ pc[p] = "drop-update" /\ pc'[p] = "repair"
      BY <1>1, <1>7, <2>3 DEF DropUpdate, EmptyHand
    <3> QED BY <3>1 DEF StepOfOp, PublishSteps, SwapSteps, UndoSteps
  <2> QED BY <1>7, <2>1, <2>2, <2>3 DEF Repairing
<1>8. CASE Fails(p) /\ ~Return(p)
  <2>1. hand' = hand /\ pc[p] = "swap" /\ pc'[p] = "undo"
    BY <1>1, <1>8 DEF Fails
  <2> QED BY <2>1 DEF StepOfOp, PublishSteps, SwapSteps, UndoSteps
<1>9. CASE Publishing(p)
  <2>1. pc[p] # "idle"
    BY <1>9 DEF Publishing, TakeShims, MarkRollingBack, PublishEntry, WriteRegistry,
         WriteCommitted, DropRefresh, Plan, Stage, WriteRefresh, CheckLive
  <2> QED BY <1>2, <1>3, <1>5, <1>9, <2>1
<1> QED BY <1>2, <1>4, <1>6, <1>7, <1>8, <1>9 DEF Die

LEMMA HandIsFullKept ==
    ASSUME TypeOK, LocksAreHeld, NEW p \in Procs, \A q \in Procs : HandIsFull(q),
           PlanIsKnown(p),
           Step(p)
    PROVE  \A q \in Procs : HandIsFull(q)'
<1> USE DEF At, Goto
<1>1. pc \in [Procs -> Steps] /\ hand \in [Procs -> Hand]
  BY DEF TypeOK
<1>2. ASSUME NEW q \in Procs \ {p} PROVE HandIsFull(q)'
  <2>1. pc'[q] = pc[q] /\ hand'[q] = hand[q] /\ HandIsFull(q)
    BY OthersStay
  <2>2. CASE UNCHANGED <<registry, refresh>>
    BY <2>1, <2>2 DEF HandIsFull, Planned
  <2>3. CASE pc[p] \in PublishSteps
    <3>1. pc[q] \notin PublishSteps
      BY <2>3 DEF LocksAreHeld
    <3> QED BY <2>1, <3>1 DEF HandIsFull, Planned, PublishSteps
  <2> QED BY <2>2, <2>3, RefreshIsLocked
<1>4. ASSUME Publishing(p), ~Return(p), ~Published(p)
      PROVE  HandIsFull(p)'
  <2>1. CASE TakeShims(p) /\ refresh = None
    <3>1. /\ pc[p] = "shims" /\ pc'[p] = "plan"
          /\ hand'[p] = [hand[p] EXCEPT !.seen = PairAt(hand[p].place)]
          /\ refresh' = None /\ PairAt(hand[p].place) \in TwoFiles
      BY <1>1, <1>4, <2>1 DEF TakeShims, journals
    <3> QED BY <1>1, <3>1 DEF HandIsFull, Planned, PublishSteps, Hand
  <2>2. CASE TakeShims(p) /\ refresh # None
    <3> DEFINE back == refresh.phase = "rolling-back"
                        \/ [n \in Pair |-> Expected(refresh)[n]] # PairAt(hand[p].place)
    <3>1. /\ pc[p] = "shims"
          /\ pc'[p] = IF back /\ refresh.phase # "rolling-back" THEN "mark" ELSE "entries"
          /\ hand'[p] = [hand[p] EXCEPT !.seen = PairAt(hand[p].place), !.rollback = back]
          /\ refresh' = refresh /\ PairAt(hand[p].place) \in TwoFiles
      BY <1>1, <1>4, <2>2 DEF TakeShims, journals
    <3>2. /\ hand'[p].seen = PairAt(hand[p].place) /\ hand'[p].rollback = back
          /\ hand'[p].plan = None
      BY <1>1, <3>1 DEF HandIsFull, PublishSteps, Hand
    <3> QED BY <2>2, <3>1, <3>2 DEF HandIsFull, Planned, PublishSteps
  <2>3. CASE MarkRollingBack(p)
    <3>1. /\ pc[p] = "mark" /\ pc'[p] = "entries" /\ hand' = hand
          /\ refresh' = [refresh EXCEPT !.phase = "rolling-back"] /\ refresh \in Refresh
      BY <1>1, <2>3, PartsType DEF MarkRollingBack, HandIsFull
    <3>2. refresh'.phase = "rolling-back" /\ refresh' \in Refresh
      BY <3>1, JournalType DEF Refresh
    <3> QED BY <3>1, <3>2 DEF HandIsFull, Planned, PublishSteps
  <2>4. CASE PublishEntry(p)
    <3>1. /\ pc[p] = "entries" /\ pc'[p] \in {"entries", "registry"} /\ hand' = hand
          /\ refresh' = refresh
      BY <1>1, <2>4 DEF PublishEntry, journals
    <3> QED BY <3>1 DEF HandIsFull, Planned, PublishSteps
  <2>5. CASE WriteRegistry(p)
    <3>1. /\ pc[p] = "registry" /\ pc'[p] = "committed" /\ hand' = hand /\ refresh' = refresh
      BY <1>1, <2>5 DEF WriteRegistry
    <3> QED BY <3>1 DEF HandIsFull, Planned, PublishSteps
  <2>6. CASE WriteCommitted(p)
    <3>1. /\ pc[p] = "committed" /\ pc'[p] = "drop" /\ hand' = hand
          /\ refresh' = [refresh EXCEPT !.phase = "committed"] /\ refresh \in Refresh
      BY <1>1, <2>6, PartsType DEF WriteCommitted, HandIsFull
    <3>2. refresh'.phase = "committed" /\ refresh' \in Refresh
      BY <3>1, JournalType DEF Refresh
    <3>3. hand[p].plan # None => refresh' = [hand[p].plan EXCEPT !.phase = "committed"]
      <4> SUFFICES ASSUME hand[p].plan # None
                   PROVE  refresh' = [hand[p].plan EXCEPT !.phase = "committed"]
        OBVIOUS
      <4>1. hand[p].plan \in Refresh /\ refresh = [hand[p].plan EXCEPT !.phase = refresh.phase]
        BY <3>1, PartsType DEF HandIsFull
      <4> QED BY <3>1, <4>1 DEF Refresh
    <3> QED BY <3>1, <3>2, <3>3 DEF HandIsFull, Planned, PublishSteps
  <2>7. CASE DropRefresh(p)
    <3>1. /\ pc[p] = "drop" /\ pc'[p] = "plan" /\ hand' = hand /\ refresh' = None
          /\ hand[p].plan = None
      BY <1>1, <1>4, <2>7 DEF DropRefresh
    <3> QED BY <3>1 DEF HandIsFull, Planned, PublishSteps
  <2>8. CASE Plan(p)
    <3>1. PICK commands \in SUBSET Commands :
            NewPlan(p, commands) \in Refresh /\ KeepPlan(p, NewPlan(p, commands))
      BY <1>4, <2>8, PlanCases
    <3> DEFINE r == NewPlan(p, commands)
    <3>2. /\ r.phase = "prepared" /\ r.after.cli = hand[p].seen["pinset"]
          /\ r.after.shim = hand[p].seen["pinset-shim"]
      <4>1. r.phase = "prepared" /\ r.after = NewRegistry(p, commands)
        BY PlanSays
      <4> HIDE DEF r
      <4> QED BY <4>1 DEF NewRegistry
    <3> HIDE DEF r
    <3>3. /\ pc[p] = "plan" /\ pc'[p] = "stage"
          /\ hand'[p] = [hand[p] EXCEPT !.rollback = FALSE, !.plan = r] /\ refresh' = refresh
      BY <1>1, <2>8, <3>1 DEF Plan, KeepPlan, journals, r
    <3>4. hand'[p].seen = hand[p].seen /\ hand'[p].plan = r /\ ~hand'[p].rollback
      BY <1>1, <3>3 DEF Hand
    <3>5. r # None
      BY <3>1 DEF r
    <3> QED BY <3>2, <3>3, <3>4, <3>5 DEF HandIsFull, Planned, PublishSteps
  <2>9. CASE Stage(p)
    <3>1. pc[p] = "stage" /\ pc'[p] = "journal" /\ refresh' = refresh
      BY <1>1, <2>9 DEF Stage, journals
    <3>2. hand'[p].seen = hand[p].seen /\ hand'[p].plan # None
          /\ hand'[p].rollback = hand[p].rollback
          /\ hand'[p].plan.phase = hand[p].plan.phase
          /\ hand'[p].plan.after = hand[p].plan.after
      BY <1>1, <2>9, StageSays DEF Hand
    <3> QED BY <3>1, <3>2 DEF HandIsFull, Planned, PublishSteps
  <2>10. CASE WriteRefresh(p)
    <3>1. pc[p] = "journal" /\ pc'[p] = "live" /\ refresh' = hand[p].plan /\ hand' = hand
      BY <1>1, <2>10 DEF WriteRefresh
    <3> QED BY <3>1 DEF HandIsFull, Planned, PublishSteps
  <2>11. CASE CheckLive(p)
    <3>1. pc[p] = "live" /\ pc'[p] = "entries" /\ refresh' = refresh /\ hand' = hand
      BY <1>1, <1>4, <2>11 DEF CheckLive, journals
    <3>2. refresh = hand[p].plan /\ refresh.phase = "prepared" /\ hand[p].plan \in Refresh
      BY <3>1, PartsType DEF HandIsFull, Planned, PublishSteps
    <3>3. refresh = [hand[p].plan EXCEPT !.phase = refresh.phase]
      BY <3>2 DEF Refresh
    <3>4. hand[p].rollback = (refresh.phase = "rolling-back")
      BY <1>1, <3>1, <3>2 DEF HandIsFull, Hand
    <3>5. HandIsFull(p)
      OBVIOUS
    <3> QED BY <3>1, <3>2, <3>3, <3>4, <3>5 DEF HandIsFull, Planned, PublishSteps
  <2> QED BY <1>4, <2>1, <2>2, <2>3, <2>4, <2>5, <2>6, <2>7, <2>8, <2>9, <2>10, <2>11
          DEF Publishing
<1>5. ASSUME ~Publishing(p) \/ Return(p) \/ Published(p)
      PROVE  HandIsFull(p)'
  <2>1. CASE pc'[p] = "idle" /\ hand'[p] = EmptyHand
    BY <2>1 DEF HandIsFull, Planned, PublishSteps, EmptyHand
  <2>2. CASE Published(p) /\ ~Return(p)
    <3>1. pc'[p] = "drop-update" /\ hand' = hand /\ HandIsFull(p)
      BY <1>1, <2>2 DEF Published
    <3>2. hand[p].plan # None => ~hand[p].rollback
      BY <3>1 DEF HandIsFull
    <3> QED BY <3>1, <3>2 DEF HandIsFull, Planned, PublishSteps, EmptyHand
  <2>3. CASE pc'[p] \notin PublishSteps /\ hand'[p].plan = None
    BY <2>3 DEF HandIsFull, Planned, PublishSteps, EmptyHand
  <2>4. CASE Start(p)
    <3>1. PICK place \in from, op \in {"publish", "repair", "update"} :
            /\ hand' = [hand EXCEPT ![p] = [EmptyHand EXCEPT !.op = op, !.place = place]]
            /\ pc' = [pc EXCEPT ![p] = CASE op = "publish" -> "shims" [] op = "repair" -> "repair"
                     [] op = "update" -> "want-update"]
      BY <2>4 DEF Start
    <3> QED BY <1>1, <2>3, <3>1 DEF EmptyHand, PublishSteps
  <2>5. CASE Updating(p) /\ ~Return(p)
    <3>1. pc[p] \in SwapSteps \cup {"want-update"} /\ pc'[p] \in SwapSteps \cup {"repair"}
      BY <1>1, <2>5 DEF Updating, TakeUpdate, WritePrepared, Swap, CommitUpdate, SwapSteps
    <3>2. hand'[p].plan \in {hand[p].plan, None}
      <4>1. CASE TakeUpdate(p)
        BY <1>1, <2>5, <4>1 DEF TakeUpdate, Hand
      <4>2. CASE CommitUpdate(p)
        BY <1>1, <4>2 DEF CommitUpdate, EmptyHand
      <4> QED BY <2>5, <4>1, <4>2 DEF Updating, WritePrepared, Swap
    <3> QED BY <2>3, <3>1, <3>2 DEF HandIsFull, SwapSteps, PublishSteps
  <2>6. CASE Repairing(p) /\ ~Return(p)
    <3>1. pc[p] \in {"repair", "undo", "undone", "drop-update"}
          /\ pc'[p] \in {"repair", "shims", "undo", "undone"}
      BY <1>1, <2>6 DEF Repairing, TakeRepair, Undo, Undone, DropUpdate
    <3>2. hand'[p].plan = IF pc[p] = "drop-update" THEN None ELSE hand[p].plan
      <4>1. CASE TakeRepair(p) \/ Undo(p)
        BY <2>6, <4>1 DEF TakeRepair, Undo
      <4>2. CASE Undone(p)
        BY <1>1, <2>6, <4>2 DEF Undone, Hand
      <4>3. CASE DropUpdate(p)
        BY <1>1, <2>6, <4>3 DEF DropUpdate, EmptyHand
      <4> QED BY <2>6, <4>1, <4>2, <4>3 DEF Repairing
    <3> QED BY <2>3, <3>1, <3>2 DEF HandIsFull, PublishSteps
  <2>7. CASE Fails(p) /\ ~Return(p)
    <3>1. pc[p] = "swap" /\ pc'[p] = "undo" /\ hand' = hand
      BY <1>1, <2>7 DEF Fails
    <3> QED BY <2>3, <3>1 DEF HandIsFull, PublishSteps
  <2> QED BY <1>5, Idle, <2>1, <2>2, <2>4, <2>5, <2>6, <2>7 DEF Die
<1> HIDE DEF Goto
<1> QED BY <1>2, <1>4, <1>5

-----------------------------------------------------------------------------
(* What a step may change, by the locks that its command holds.            *)

\* The files change in three actions only.
LEMMA FilesStay ==
    ASSUME NEW p \in Procs, Step(p), ~PublishEntry(p), ~Swap(p), ~Undo(p)
    PROVE  UNCHANGED files
<1>1. CASE Publishing(p)
  BY <1>1 DEF Publishing, TakeShims, MarkRollingBack, WriteRegistry, WriteCommitted, DropRefresh,
     Plan, Stage, WriteRefresh, CheckLive
<1>2. CASE Updating(p) \/ Repairing(p)
  BY <1>2 DEF Updating, TakeUpdate, WritePrepared, CommitUpdate, Repairing, TakeRepair, Undone,
     DropUpdate
<1> QED BY <1>1, <1>2 DEF Start, Fails, Die

\* The journal of an update changes in five actions, and when one fails early.
LEMMA UpdateStays ==
    ASSUME NEW p \in Procs, Step(p), ~TakeUpdate(p), ~WritePrepared(p), ~CommitUpdate(p),
           ~Undone(p), ~DropUpdate(p), ~(Fails(p) /\ pc[p] = "prepared")
    PROVE  UNCHANGED update
<1>1. CASE Publishing(p)
  BY <1>1 DEF Publishing, TakeShims, MarkRollingBack, PublishEntry, WriteRegistry, WriteCommitted,
     DropRefresh, Plan, Stage, WriteRefresh, CheckLive, journals
<1>2. CASE Updating(p) \/ Repairing(p)
  BY <1>2 DEF Updating, Swap, Repairing, TakeRepair, Undo, journals
<1>3. CASE Fails(p)
  BY <1>3 DEF Fails, At
<1> QED BY <1>1, <1>2, <1>3 DEF Start, Die, journals

\* One entry is published at a time.
LEMMA EntryPublished ==
    ASSUME TypeOK, NEW p \in Procs, HandIsFull(p), refresh # None => Sound(refresh),
           PublishEntry(p)
    PROVE  /\ pc[p] = "entries" /\ refresh \in Refresh /\ Sound(refresh)
           /\ hand' = hand /\ UNCHANGED <<package, journals, locks>>
           /\ \A n \in DOMAIN refresh.entries :
                /\ n \in Names
                /\ Desired(p, n) = IF refresh.phase = "rolling-back" THEN refresh.entries[n]
                                   ELSE Expected(refresh)[n]
                /\ Desired(p, n) \in Releases \cup {None}
           /\ \A n \in Names :
                \/ bin'[n] = bin[n]
                \/ n \in DOMAIN refresh.entries /\ bin'[n] = Desired(p, n)
           /\ \/ pc'[p] = "entries"
              \/ /\ pc'[p] = "registry" /\ bin' = bin
                 /\ \A n \in DOMAIN refresh.entries : bin[n] = Desired(p, n)
<1> USE DEF PublishEntry, At, Goto
<1>1. pc[p] = "entries" /\ hand' = hand /\ UNCHANGED <<package, journals, locks>>
  OBVIOUS
<1>2. refresh \in Refresh /\ Sound(refresh)
  BY PartsType DEF HandIsFull
<1>3. ASSUME NEW n \in DOMAIN refresh.entries
      PROVE  /\ n \in Names
             /\ Desired(p, n) = IF refresh.phase = "rolling-back" THEN refresh.entries[n]
                                ELSE Expected(refresh)[n]
             /\ Desired(p, n) \in Releases \cup {None}
  BY <1>1, <1>2, JournalType DEF Desired, Sound, Registry, HandIsFull
<1>4. bin \in [Names -> Releases \cup {External, None}] /\ pc \in [Procs -> Steps]
  BY DEF TypeOK
<1> DEFINE wrong == {n \in DOMAIN refresh.entries : bin[n] # Desired(p, n)}
<1>5. CASE wrong = {}
  <2>1. bin' = bin /\ pc'[p] = "registry"
    BY <1>4, <1>5
  <2> QED BY <1>1, <1>2, <1>3, <1>5, <2>1
<1>6. CASE wrong # {}
  <2>1. PICK m \in wrong : bin' = [bin EXCEPT ![m] = Desired(p, m)]
    BY <1>6
  <2>2. pc' = pc
    BY <1>6
  <2> HIDE DEF PublishEntry
  <2> QED BY <1>1, <1>2, <1>3, <1>4, <2>1, <2>2
<1> QED BY <1>5, <1>6

\* One file of the pair at a time is replaced or given back.
LEMMA FileSwapped ==
    ASSUME TypeOK, NEW p \in Procs, UpdateIsKnown(p), Swap(p)
    PROVE  /\ pc[p] = "swap" /\ hand' = hand /\ UNCHANGED <<journals, locks>>
           /\ update \in Update /\ update.dest = hand[p].place /\ hand[p].place \in Places
           /\ hand[p].next \in Releases
           /\ \E n \in Pair :
                /\ Put(update.dest, n, hand[p].next)
                /\ n = IF PairAt(update.dest)["pinset"] = update.backup["pinset"]
                       THEN "pinset" ELSE "pinset-shim"
                /\ pc'[p] = IF n = "pinset" THEN "swap" ELSE "commit-update"
<1> USE DEF Swap, At, Goto
<1>1. pc[p] = "swap" /\ hand' = hand /\ UNCHANGED <<journals, locks>>
  OBVIOUS
<1>2. /\ update \in Update /\ update.dest = hand[p].place /\ hand[p].place \in Places
      /\ hand[p].next \in Releases
  BY PartsType DEF UpdateIsKnown, SwapSteps, Hand
<1> QED BY <1>1, <1>2 DEF Pair, TypeOK

LEMMA FileUndone ==
    ASSUME TypeOK, NEW p \in Procs, UpdateIsKnown(p), Undo(p)
    PROVE  /\ pc[p] = "undo" /\ hand' = hand /\ UNCHANGED <<journals, locks>>
           /\ update \in Update /\ update.dest \in Places
           /\ \/ /\ pc'[p] = "undone" /\ UNCHANGED files
                 /\ PairAt(update.dest) = update.backup
              \/ /\ pc' = pc
                 /\ \E n \in Pair : update.backup[n] \in Releases
                                    /\ Put(update.dest, n, update.backup[n])
<1> USE DEF Undo, At, Goto
<1>1. pc[p] = "undo" /\ hand' = hand /\ UNCHANGED <<journals, locks>>
  OBVIOUS
<1>2. update \in Update /\ update.dest \in Places /\ update.backup \in TwoFiles
  BY PartsType DEF UpdateIsKnown, UndoSteps, Update
<1> DEFINE wrong == {n \in Pair : PairAt(update.dest)[n] # update.backup[n]}
<1>3. CASE wrong = {}
  <2>1. PairAt(update.dest) = update.backup
    BY <1>2, <1>3, PairAtType DEF TwoFiles
  <2> QED BY <1>1, <1>2, <1>3, <2>1 DEF TypeOK
<1>4. CASE wrong # {}
  BY <1>1, <1>2, <1>4 DEF TwoFiles
<1> QED BY <1>3, <1>4

\* Which lock an action needs.
LEMMA LockOfAction ==
    ASSUME LocksAreHeld, NEW p \in Procs, StepOfOp(p)
    PROVE  /\ PublishEntry(p) => publishing = p
           /\ Swap(p) \/ WritePrepared(p) \/ CommitUpdate(p) \/ (Fails(p) /\ pc[p] = "prepared")
                => updating = p
           /\ Undo(p) \/ Undone(p) => (hand[p].op = "update" /\ updating = p)
                                      \/ (hand[p].op = "repair" /\ repairing = p)
           /\ DropUpdate(p) => repairing = p /\ hand[p].op = "repair"
           /\ TakeUpdate(p) => updating = None /\ repairing = None /\ publishing = None
<1>1. PublishEntry(p) => publishing = p
  BY DEF PublishEntry, At, LocksAreHeld, PublishSteps
<1>2. pc[p] \in SwapSteps => updating = p
  BY DEF LocksAreHeld, HoldsUpdate
<1>3. pc[p] \in UndoSteps => (hand[p].op = "update" /\ updating = p)
                             \/ (hand[p].op = "repair" /\ repairing = p)
  BY DEF LocksAreHeld, HoldsUpdate, HoldsRepair, StepOfOp
<1>4. pc[p] = "drop-update" => repairing = p /\ hand[p].op = "repair"
  BY DEF LocksAreHeld, HoldsRepair, StepOfOp
<1> QED BY <1>1, <1>2, <1>3, <1>4 DEF Swap, WritePrepared, CommitUpdate, Undo, Undone,
        DropUpdate, TakeUpdate, At, SwapSteps, UndoSteps

LEMMA LocksOfOthers ==
    ASSUME TypeOK, LocksAreHeld, NEW p \in Procs, StepOfOp(p), HandIsFull(p), Step(p)
    PROVE  /\ LocksAreHeld'
           /\ \A q \in Procs \ {p} :
                /\ pc'[q] = pc[q] /\ hand'[q] = hand[q]
                /\ updating' = q <=> updating = q
                /\ repairing' = q <=> repairing = q
                /\ publishing' = q <=> publishing = q
                /\ HoldsRepair(q)' = HoldsRepair(q) /\ HoldsUpdate(q)' = HoldsUpdate(q)
<1>1. LocksAreHeld'
  BY LocksKept
<1>2. \A q \in Procs \ {p} : pc'[q] = pc[q] /\ hand'[q] = hand[q]
  BY OthersStay
<1>3. \A q \in Procs \ {p} : HoldsUpdate(q)' = HoldsUpdate(q) /\ HoldsRepair(q)' = HoldsRepair(q)
  BY <1>2 DEF HoldsUpdate, HoldsRepair
<1> QED BY <1>1, <1>2, <1>3 DEF LocksAreHeld

\* While someone replaces the pair, nobody else changes anything.
LEMMA UpdaterAlone ==
    ASSUME TypeOK, LocksAreHeld, NEW p \in Procs, StepOfOp(p), HandIsFull(p), Step(p),
           updating # None, updating # p
    PROVE  UNCHANGED <<files, journals, updating>>
<1>1. repairing = None /\ publishing = None
  BY DEF LocksAreHeld
<1>2. UNCHANGED files
  BY <1>1, FilesStay, LockOfAction
<1>3. UNCHANGED update
  BY <1>1, UpdateStays, LockOfAction
<1>4. UNCHANGED <<registry, refresh>>
  BY <1>1, RefreshIsLocked DEF LocksAreHeld
<1>5. UNCHANGED updating
  BY LocksOfOthers DEF TypeOK
<1> QED BY <1>2, <1>3, <1>4, <1>5 DEF journals

\* While someone repairs, nobody else changes the update or the pair elsewhere.
LEMMA RepairerAlone ==
    ASSUME TypeOK, LocksAreHeld, NEW p \in Procs, StepOfOp(p), HandIsFull(p), Step(p),
           repairing # None, repairing # p
    PROVE  /\ UNCHANGED <<package, update>>
           /\ PublishEntry(p) \/ UNCHANGED bin
<1>1. updating = None
  BY DEF LocksAreHeld
<1>2. UNCHANGED update
  BY <1>1, UpdateStays, LockOfAction
<1>3. PublishEntry(p) \/ UNCHANGED files
  BY <1>1, FilesStay, LockOfAction
<1> QED BY <1>2, <1>3 DEF PublishEntry, files

\* A repair drops the journal of an update when it has published the pair.
LEMMA ToDropUpdate ==
    ASSUME TypeOK, NEW p \in Procs, Step(p), pc[p] # "drop-update", pc'[p] = "drop-update"
    PROVE  /\ pc[p] \in PublishSteps /\ hand[p].op = "repair" /\ update # None /\ hand' = hand
           /\ UNCHANGED <<files, registry, update>>
           /\ publishing' = None /\ UNCHANGED <<updating, repairing>>
           /\ \/ Plan(p) /\ \E commands \in SUBSET Commands : NothingToDo(NewPlan(p, commands))
              \/ DropRefresh(p) /\ hand[p].plan # None
<1> USE DEF At, Goto
<1>1. pc \in [Procs -> Steps]
  BY DEF TypeOK
<1>2. ~Return(p)
  BY Idle
<1>3. Plan(p) \/ DropRefresh(p)
  <2>1. ~Start(p)
    BY <1>1 DEF Start
  <2>2. ~Updating(p)
    BY <1>1, <1>2 DEF Updating, TakeUpdate, WritePrepared, Swap, CommitUpdate
  <2>3. ~Repairing(p)
    BY <1>1, <1>2 DEF Repairing, TakeRepair, Undo, Undone, DropUpdate
  <2>4. ~Fails(p) /\ ~Die(p)
    BY <1>1, <1>2 DEF Fails, Die
  <2> QED BY <1>1, <1>2, <2>1, <2>2, <2>3, <2>4 DEF Publishing, TakeShims, MarkRollingBack,
        PublishEntry, WriteRegistry, WriteCommitted, Stage, WriteRefresh, CheckLive
<1>4. CASE Plan(p)
  <2>1. PICK commands \in SUBSET Commands :
            /\ NothingToDo(NewPlan(p, commands)) /\ Published(p)
    BY <1>1, <1>2, <1>4 DEF Plan, KeepPlan
  <2> QED BY <1>1, <1>2, <1>4, <2>1 DEF Published, Plan, PublishSteps, journals
<1>5. CASE DropRefresh(p)
  <2>1. Published(p) /\ hand[p].plan # None
    BY <1>1, <1>5 DEF DropRefresh
  <2> QED BY <1>1, <1>2, <1>5, <2>1 DEF Published, DropRefresh, PublishSteps
<1> QED BY <1>3, <1>4, <1>5

\* While someone publishes, only a repair of the pair changes what is there, and what an
\* update left behind stays behind.
LEMMA PublisherAlone ==
    ASSUME TypeOK, LocksAreHeld, NEW p \in Procs, \A q \in Procs : StepOfOp(q), HandIsFull(p),
           Step(p), UpdateIsKnown(p), publishing # None, publishing # p
    PROVE  /\ UNCHANGED <<registry, refresh>> /\ updating = None /\ updating' = None
           /\ LeftBehind => LeftBehind' /\ update' # None /\ update'.dest = update.dest
           /\ bin' = bin \/ (Undo(p) /\ repairing = p /\ LeftBehind)
<1>1. updating = None /\ publishing' = publishing /\ publishing \in Procs
  BY LocksOfOthers DEF LocksAreHeld, TypeOK
<1>2. updating' = None
  BY <1>1, LocksOfOthers DEF LocksAreHeld
<1>3. UNCHANGED <<registry, refresh>>
  BY RefreshIsLocked DEF LocksAreHeld
<1>4. ASSUME Undo(p) \/ Undone(p)
      PROVE  repairing = p /\ LeftBehind /\ hand[p].op = "repair" /\ update \in Update
  <2>1. repairing = p /\ hand[p].op = "repair"
    BY <1>1, <1>4, LockOfAction DEF LocksAreHeld
  <2>2. pc[p] \in {"undo", "undone"} /\ update # None
    BY <1>4, <2>1 DEF Undo, Undone, At, UpdateIsKnown, UndoSteps
  <2>3. ~Dropping
    BY <2>1, <2>2 DEF Dropping, LocksAreHeld, HoldsRepair, StepOfOp
  <2> QED BY <1>1, <2>1, <2>2, <2>3, PartsType DEF LeftBehind
<1>5. bin' = bin \/ (Undo(p) /\ repairing = p /\ LeftBehind)
  <2>1. ~PublishEntry(p) /\ ~Swap(p)
    BY <1>1, LockOfAction
  <2> QED BY <1>4, <2>1, FilesStay DEF files
<1>6. ASSUME LeftBehind
      PROVE  LeftBehind' /\ update' # None /\ update'.dest = update.dest
  <2>1. pc[p] # "drop-update"
    BY <1>6 DEF LeftBehind, Dropping
  <2>2. update' # None /\ update'.dest = update.dest
    <3>1. CASE Undone(p)
      <4>1. update' = [update EXCEPT !.phase = "committed"] /\ update \in Update
        BY <1>4, <3>1 DEF Undone
      <4> QED BY <4>1, NoneIsNoJournal DEF Update
    <3>2. CASE ~Undone(p)
      <4>1. UNCHANGED update
        BY <1>1, <2>1, <3>2, UpdateStays, LockOfAction DEF DropUpdate, At, LocksAreHeld
      <4> QED BY <1>6, <4>1 DEF LeftBehind
    <3> QED BY <3>1, <3>2
  <2>3. pc'[p] # "drop-update"
    <3> SUFFICES ASSUME pc'[p] = "drop-update" PROVE FALSE
      OBVIOUS
    <3>1. pc[p] \in PublishSteps
      BY <2>1, ToDropUpdate
    <3> QED BY <3>1 DEF LocksAreHeld
  <2>4. ~Dropping'
    BY <1>6, <2>3, OthersStay DEF LeftBehind, Dropping
  <2> QED BY <1>2, <2>2, <2>4 DEF LeftBehind
<1> QED BY <1>1, <1>2, <1>3, <1>5, <1>6

-----------------------------------------------------------------------------
(* What is known of an update.                                             *)

LEMMA UpdateOfOthers ==
    ASSUME IInv, NEW p \in Procs, Step(p), from' = from, NEW q \in Procs \ {p}
    PROVE  UpdateIsKnown(q)'
<1>1. /\ TypeOK /\ LocksAreHeld /\ StepOfOp(p) /\ HandIsFull(p) /\ UpdateIsKnown(q) /\ StepOfOp(q)
      /\ \A s \in Procs : UpdateIsKnown(s)
  BY DEF IInv, UpdatesAreKnown
<1>2. pc'[q] = pc[q] /\ hand'[q] = hand[q] /\ HoldsRepair(q)' = HoldsRepair(q)
  BY <1>1, LocksOfOthers
<1>3. CASE updating = q
  <2>1. UNCHANGED <<bin, package, update>>
    BY <1>1, <1>3, UpdaterAlone DEF files, journals, TypeOK
  <2> QED BY <1>1, <1>2, <2>1 DEF UpdateIsKnown, PairAt
<1>4. CASE repairing = q
  <2>1. UNCHANGED <<package, update>> /\ (PublishEntry(p) \/ UNCHANGED bin) /\ updating = None
    BY <1>1, <1>4, RepairerAlone DEF LocksAreHeld, TypeOK
  <2>2. HoldsRepair(q) /\ ~HoldsUpdate(q)
    BY <1>1, <1>4, <2>1 DEF LocksAreHeld
  <2>3. CASE UNCHANGED bin
    BY <1>1, <1>2, <2>1, <2>3 DEF UpdateIsKnown, PairAt
  <2>4. CASE PublishEntry(p)
    <3>1. ASSUME pc[q] = "undone", from # Places
          PROVE  PairAt(update.dest)' = PairAt(update.dest)
      <4>1. update # None /\ update.dest \in Places /\ update.dest \in from
        BY <1>1, <3>1, PartsType DEF IInv, UpdatesAreKnown, UpdateIsKnown, UndoSteps, Update
      <4>2. CASE update.dest = "package"
        BY <2>1, <4>2 DEF PairAt
      <4>3. CASE update.dest = "bin"
        <5>1. "package" \notin from
          BY <3>1, <4>1, <4>3, <1>1 DEF Places, TypeOK
        <5>2. BinIsKnown /\ pc[p] = "entries" /\ refresh # None
          BY <1>1, <2>4, <5>1 DEF IInv, PairsAreKnown, PublishEntry, At, HandIsFull
        <5>3. DOMAIN refresh.entries \cap Pair = {}
          BY <5>2 DEF BinIsKnown
        <5>4. refresh # None => Sound(refresh)
          BY DEF IInv
        <5>5. \A n \in Pair : bin'[n] = bin[n]
          BY <1>1, <2>4, <5>3, <5>4, EntryPublished DEF Names
        <5> QED BY <2>1, <5>5 DEF PairAt
      <4> QED BY <4>1, <4>2, <4>3 DEF Places
    <3> QED BY <1>1, <1>2, <2>1, <2>2, <3>1 DEF UpdateIsKnown, HoldsRepair, HoldsUpdate,
            SwapSteps, UndoSteps, PublishSteps
  <2> QED BY <2>1, <2>3, <2>4
<1>5. CASE updating # q /\ repairing # q
  <2>1. pc[q] \notin SwapSteps \cup UndoSteps \cup {"drop-update"} /\ ~HoldsRepair(q)
    BY <1>1, <1>5 DEF LocksAreHeld, HoldsUpdate, HoldsRepair, StepOfOp
  <2> QED BY <1>2, <2>1 DEF UpdateIsKnown, SwapSteps, UndoSteps
<1> QED BY <1>3, <1>4, <1>5

\* Replacing or giving back one file of the pair.
LEMMA PutPair ==
    ASSUME TypeOK, NEW place \in Places, NEW n \in Pair, NEW release \in Releases,
           Put(place, n, release)
    PROVE  /\ \A m \in Pair : PairAt(place)'[m] = IF m = n THEN release ELSE PairAt(place)[m]
           /\ \A other \in Places \ {place} : PairAt(other)' = PairAt(other)
           /\ \A m \in Names : bin'[m] = bin[m] \/ (place = "bin" /\ m = n /\ bin'[m] \in Releases)
           /\ \A m \in Commands : bin'[m] = bin[m]
           /\ place # "bin" => bin' = bin
  BY PutType DEF PairAt, Places, Names

LEMMA UpdateOfOwn ==
    ASSUME IInv, NEW p \in Procs, Step(p), from' = from
    PROVE  UpdateIsKnown(p)'
<1> USE DEF At, Goto
<1>1. /\ TypeOK /\ LocksAreHeld /\ StepOfOp(p) /\ HandIsFull(p) /\ UpdateIsKnown(p)
      /\ (refresh # None => Sound(refresh))
  BY DEF IInv, UpdatesAreKnown
<1>2. pc \in [Procs -> Steps] /\ hand \in [Procs -> Hand]
  BY <1>1 DEF TypeOK
<1>3. CASE pc'[p] \in {"idle", "repair", "want-update"}
  BY <1>3 DEF UpdateIsKnown, HoldsRepair, PublishSteps, SwapSteps, UndoSteps
<1>4. CASE Publishing(p) /\ ~TakeShims(p)
  <2>1. CASE Return(p)
    BY <1>1, <1>3, <2>1, Idle
  <2>2. CASE ~Return(p)
    <3>1. pc[p] \in PublishSteps /\ pc'[p] \in PublishSteps \cup {"drop-update"}
      BY <1>2, <1>4, <2>2 DEF Publishing, TakeShims, MarkRollingBack, PublishEntry, WriteRegistry,
         WriteCommitted, DropRefresh, Plan, KeepPlan, Stage, WriteRefresh, CheckLive, Published,
         PublishSteps
    <3>2. UNCHANGED update
      BY <1>4, <3>1, UpdateStays, LockOfAction, <1>1 DEF Publishing, PublishSteps, TakeUpdate,
         WritePrepared, CommitUpdate, Undone, DropUpdate, Fails, MarkRollingBack, PublishEntry, WriteRegistry,
         WriteCommitted, DropRefresh, Plan, Stage, WriteRefresh, CheckLive, journals
    <3>3. hand'[p].op = hand[p].op /\ hand'[p].place = hand[p].place
      <4>1. CASE Plan(p)
        BY <1>2, <2>2, <4>1 DEF Plan, KeepPlan, Published, Hand
      <4>2. CASE Stage(p)
        BY <1>2, <4>2 DEF Stage, Hand
      <4>3. CASE ~Plan(p) /\ ~Stage(p)
        BY <1>2, <1>4, <2>2, <4>3 DEF Publishing, MarkRollingBack, PublishEntry, WriteRegistry,
           WriteCommitted, DropRefresh, WriteRefresh, CheckLive, Published
      <4> QED BY <4>1, <4>2, <4>3
    <3>4. pc'[p] = "drop-update" => hand[p].op = "repair" /\ update # None
      BY <1>1, <3>1, ToDropUpdate DEF PublishSteps
    <3>5. HoldsRepair(p)' => HoldsRepair(p)
      BY <3>1, <3>3 DEF HoldsRepair
    <3> QED BY <1>1, <3>1, <3>2, <3>3, <3>4, <3>5 DEF UpdateIsKnown, PublishSteps, SwapSteps, UndoSteps
  <2> QED BY <2>1, <2>2
<1>5. CASE TakeShims(p)
  <2>1. CASE Return(p)
    BY <1>1, <1>3, <2>1, Idle
  <2>2. CASE ~Return(p)
    <3>1. /\ pc[p] = "shims" /\ pc'[p] \in {"plan", "mark", "entries"} /\ update' = update
          /\ hand'[p].op = hand[p].op /\ hand'[p].place = hand[p].place
      BY <1>2, <1>5, <2>2 DEF TakeShims, Hand, journals
    <3> QED BY <1>1, <3>1 DEF UpdateIsKnown, HoldsRepair, PublishSteps, SwapSteps, UndoSteps
  <2> QED BY <2>1, <2>2
<1>6. CASE TakeUpdate(p) /\ ~Return(p)
  <2> DEFINE place == hand[p].place
  <2>1. PICK next \in Releases \ {PairAt(place)["pinset"]} : hand' = [hand EXCEPT ![p].next = next]
    BY <1>6 DEF TakeUpdate
  <2>2. /\ update' = [dest |-> place, phase |-> "preparing", backup |-> PairAt(place)]
        /\ pc[p] = "want-update" /\ pc'[p] = "prepared" /\ UNCHANGED files
        /\ place \in Places /\ PairAt(place) \in TwoFiles
    BY <1>2, <1>6 DEF TakeUpdate, Hand
  <2>3. hand'[p].next = next /\ hand'[p].place = place /\ hand'[p].op = "update"
    BY <1>1, <1>2, <2>1, <2>2 DEF Hand, StepOfOp
  <2>4. update' \in Update
    BY <2>2 DEF Update
  <2>5. \A x \in Places : PairAt(x)' = PairAt(x)
    BY <2>2 DEF PairAt, files
  <2>6. update'.dest = place /\ update'.phase = "preparing" /\ update'.backup = PairAt(place)
    BY <2>2
  <2>7. update' # None
    BY <2>4, NoneIsNoJournal
  <2>8. PairAt(update.dest)' = update'.backup
    BY <2>2, <2>6 DEF PairAt, files
  <2> QED BY <2>1, <2>2, <2>3, <2>6, <2>7, <2>8
          DEF UpdateIsKnown, HoldsRepair, PublishSteps, SwapSteps, UndoSteps
<1>7. CASE WritePrepared(p)
  <2>1. /\ pc[p] = "prepared" /\ pc'[p] = "swap" /\ hand' = hand /\ UNCHANGED <<bin, package>>
        /\ update' = [update EXCEPT !.phase = "prepared"] /\ update \in Update
        /\ hand[p].op = "update"
    BY <1>1, <1>2, <1>7, PartsType DEF WritePrepared, files, UpdateIsKnown, SwapSteps, StepOfOp
  <2>2. /\ update'.dest = update.dest /\ update'.backup = update.backup
        /\ update'.phase = "prepared" /\ update' \in Update
    BY <2>1 DEF Update
  <2>3. PairAt(update.dest)' = PairAt(update.dest)
    BY <2>1, <2>2 DEF PairAt
  <2> QED BY <1>1, <2>1, <2>2, <2>3, NoneIsNoJournal
          DEF UpdateIsKnown, HoldsRepair, PublishSteps, SwapSteps, UndoSteps
<1>8. CASE Swap(p)
  <2>1. PICK n \in Pair :
            /\ Put(update.dest, n, hand[p].next)
            /\ n = IF PairAt(update.dest)["pinset"] = update.backup["pinset"]
                   THEN "pinset" ELSE "pinset-shim"
            /\ pc'[p] = IF n = "pinset" THEN "swap" ELSE "commit-update"
    BY <1>1, <1>8, FileSwapped
  <2>2. /\ pc[p] = "swap" /\ hand' = hand /\ update' = update
        /\ update \in Update /\ update.dest = hand[p].place /\ update.dest \in Places
        /\ hand[p].next \in Releases /\ hand[p].op = "update" /\ update.phase = "prepared"
    BY <1>1, <1>8, FileSwapped DEF journals, StepOfOp, SwapSteps, UpdateIsKnown
  <2>3. \A m \in Pair :
            PairAt(update.dest)'[m] = IF m = n THEN hand[p].next ELSE PairAt(update.dest)[m]
    BY <1>1, <2>1, <2>2, PutPair DEF PairAt
  <2> QED BY <1>1, <2>1, <2>2, <2>3
          DEF UpdateIsKnown, HoldsRepair, PublishSteps, SwapSteps, UndoSteps, Pair
<1>9. CASE CommitUpdate(p)
  BY <1>2, <1>3, <1>9 DEF CommitUpdate
<1>10. CASE TakeRepair(p) /\ ~Return(p)
  <2>1. /\ pc[p] = "repair" /\ hand' = hand /\ update' = update /\ hand[p].op = "repair"
        /\ update # None => update.dest = hand[p].place
        /\ pc'[p] = IF update # None /\ update.phase = "prepared" THEN "undo" ELSE "shims"
    BY <1>1, <1>2, <1>10 DEF TakeRepair, journals, StepOfOp
  <2> QED BY <2>1 DEF UpdateIsKnown, HoldsRepair, PublishSteps, SwapSteps, UndoSteps
<1>11. CASE Undo(p)
  <2>1. /\ pc[p] = "undo" /\ hand' = hand /\ update' = update /\ pc'[p] \in {"undo", "undone"}
        /\ update # None /\ update.dest = hand[p].place /\ update.phase = "prepared"
        /\ pc'[p] = "undone" => UNCHANGED files /\ PairAt(update.dest) = update.backup
    BY <1>1, <1>11, FileUndone DEF journals, UpdateIsKnown, UndoSteps
  <2>2. UNCHANGED files => PairAt(update.dest)' = PairAt(update.dest)
    BY <2>1 DEF files, PairAt
  <2> QED BY <1>1, <2>1, <2>2 DEF UpdateIsKnown, HoldsRepair, PublishSteps, SwapSteps, UndoSteps
<1>12. CASE Undone(p) /\ hand[p].op = "repair"
  <2>1. /\ pc[p] = "undone" /\ pc'[p] = "shims" /\ update' = [update EXCEPT !.phase = "committed"]
        /\ hand'[p].place = hand[p].place /\ hand'[p].op = "repair"
        /\ update \in Update /\ update.dest = hand[p].place
    BY <1>1, <1>2, <1>12, PartsType DEF Undone, UpdateIsKnown, UndoSteps, Hand
  <2>2. update'.dest = update.dest /\ update'.phase = "committed"
    BY <2>1 DEF Update
  <2> QED BY <2>1, <2>2 DEF UpdateIsKnown, HoldsRepair, PublishSteps, SwapSteps, UndoSteps
<1>13. CASE Undone(p) /\ hand[p].op # "repair"
  BY <1>1, <1>3, <1>13, Idle DEF Undone
<1>14. CASE DropUpdate(p)
  <2>1. pc'[p] \in {"idle", "repair"}
    BY <1>1, <1>2, <1>14, Idle DEF DropUpdate
  <2> QED BY <1>3, <2>1
<1>15. CASE Fails(p) /\ ~Return(p)
  <2>1. pc[p] = "swap" /\ pc'[p] = "undo" /\ hand' = hand /\ update' = update
    BY <1>2, <1>15 DEF Fails
  <2> QED BY <1>1, <2>1 DEF UpdateIsKnown, HoldsRepair, PublishSteps, SwapSteps, UndoSteps, StepOfOp
<1>16. CASE Start(p)
  <2>1. CASE pc'[p] = "shims"
    <3>1. PICK place \in from, op \in {"publish", "repair", "update"} :
            /\ hand' = [hand EXCEPT ![p] = [EmptyHand EXCEPT !.op = op, !.place = place]]
            /\ pc' = [pc EXCEPT ![p] = CASE op = "publish" -> "shims" [] op = "repair" -> "repair"
                     [] op = "update" -> "want-update"]
      BY <1>16 DEF Start
    <3>2. hand'[p].op = "publish"
      BY <1>2, <2>1, <3>1 DEF EmptyHand
    <3> QED BY <2>1, <3>2 DEF UpdateIsKnown, HoldsRepair, PublishSteps, SwapSteps, UndoSteps
  <2> QED BY <1>2, <1>3, <1>16, <2>1 DEF Start
<1>17. CASE Return(p)
  BY <1>1, <1>3, <1>17, Idle
<1> HIDE DEF Goto
<1> QED BY <1>4, <1>5, <1>6, <1>7, <1>8, <1>9, <1>10, <1>11, <1>12, <1>13, <1>14, <1>15, <1>16, <1>17
        DEF Updating, Repairing, Die, Undone

\* No step makes a file that is not Pinset's.
LEMMA ForeignStays ==
    ASSUME IInv, NEW p \in Procs, Step(p), NEW n \in Names, bin[n] # External
    PROVE  bin'[n] # External
<1>1. TypeOK /\ HandIsFull(p) /\ UpdateIsKnown(p) /\ (refresh # None => Sound(refresh))
  BY DEF IInv, UpdatesAreKnown
<1>2. CASE PublishEntry(p)
  BY <1>1, <1>2, EntryPublished
<1>3. CASE Swap(p)
  BY <1>1, <1>3, FileSwapped, PutPair
<1>4. CASE Undo(p)
  BY <1>1, <1>4, FileUndone, PutPair DEF files
<1> QED BY <1>2, <1>3, <1>4, FilesStay DEF files

LEMMA UpdateThere ==
    ASSUME IInv, NEW p \in Procs, Step(p), from' = from, update' # None
    PROVE  /\ update'.dest \in from
           /\ update'.dest = "bin" => \A n \in Pair : bin'[n] # External
<1>1. /\ TypeOK /\ HandIsFull(p) /\ StepOfOp(p) /\ UpdateIsKnown(p)
      /\ update # None => update.dest \in from
                          /\ (update.dest = "bin" => \A n \in Pair : bin[n] # External)
  BY DEF IInv, UpdatesAreKnown
<1>2. CASE update # None /\ update'.dest = update.dest
  BY <1>1, <1>2, ForeignStays DEF Names
<1>3. CASE TakeUpdate(p) /\ update' # update
  <2>1. /\ update' = [dest |-> hand[p].place, phase |-> "preparing", backup |-> PairAt(hand[p].place)]
        /\ PairAt(hand[p].place) \in TwoFiles /\ UNCHANGED files /\ hand[p].place \in from
    BY <1>1, <1>3 DEF TakeUpdate, StepOfOp, At
  <2>2. hand[p].place = "bin" => \A n \in Pair : bin[n] \in Releases
    BY <2>1 DEF PairAt, TwoFiles
  <2> QED BY <2>1, <2>2 DEF files
<1>4. CASE WritePrepared(p) \/ CommitUpdate(p) \/ (Undone(p) /\ hand[p].op = "repair")
  <2>1. update \in Update
    BY <1>1, <1>4, PartsType DEF WritePrepared, CommitUpdate, Undone, At, UpdateIsKnown,
       SwapSteps, UndoSteps
  <2>2. update'.dest = update.dest
    BY <1>4, <2>1 DEF WritePrepared, CommitUpdate, Undone, Update
  <2> QED BY <1>2, <2>1, <2>2
<1>5. CASE update' = update
  BY <1>2, <1>5
<1> QED BY <1>3, <1>4, <1>5, UpdateStays DEF Undone, DropUpdate, Fails, At

LEMMA UpdatesKept ==
    ASSUME IInv, NEW p \in Procs, Step(p), from' = from
    PROVE  UpdatesAreKnown'
<1>1. \A q \in Procs : UpdateIsKnown(q)'
  BY UpdateOfOthers, UpdateOfOwn
<1> QED BY <1>1, UpdateThere DEF UpdatesAreKnown

\* The journal of a refresh, and the registry, change in these actions.
LEMMA RefreshStays ==
    ASSUME NEW p \in Procs, Step(p)
    PROVE  /\ \/ UNCHANGED refresh
              \/ MarkRollingBack(p) \/ WriteCommitted(p) \/ DropRefresh(p) \/ WriteRefresh(p)
           /\ UNCHANGED registry \/ WriteRegistry(p)
<1>1. CASE Publishing(p)
  BY <1>1 DEF Publishing, TakeShims, MarkRollingBack, PublishEntry, WriteCommitted, DropRefresh,
     Plan, Stage, WriteRefresh, WriteRegistry, CheckLive, journals
<1>2. CASE Updating(p) \/ Repairing(p)
  BY <1>2 DEF Updating, TakeUpdate, WritePrepared, Swap, CommitUpdate, Repairing, TakeRepair,
     Undo, Undone, DropUpdate, journals
<1> QED BY <1>1, <1>2 DEF Start, Fails, Die, journals

LEMMA SoundKept ==
    ASSUME IInv, NEW p \in Procs, Step(p), refresh' # None
    PROVE  Sound(refresh)'
<1> USE DEF At
<1>1. /\ TypeOK /\ HandIsFull(p) /\ PlanIsKnown(p) /\ (refresh # None => Sound(refresh))
  BY DEF IInv
<1>2. ASSUME NEW r \in Refresh, Sound(r)
      PROVE  /\ r.after.cli # None /\ DOMAIN r.entries \subseteq DOMAIN Expected(r)
             /\ r.before # None => r.before.commands \subseteq r.after.commands
             /\ \A n \in DOMAIN r.entries : bin'[n] # External /\ r.entries[n] # Expected(r)[n]
  BY <1>2, JournalType, ForeignStays DEF Sound
<1>3. CASE refresh' = refresh
  BY <1>1, <1>2, <1>3, PartsType DEF Sound, Expected
<1>4. CASE \E x \in {"rolling-back", "committed"} : refresh' = [refresh EXCEPT !.phase = x]
                /\ refresh # None
  <2>1. refresh \in Refresh
    BY <1>1, <1>4, PartsType
  <2>2. /\ refresh'.after = refresh.after /\ refresh'.before = refresh.before
        /\ refresh'.entries = refresh.entries
    BY <1>4, <2>1 DEF Refresh
  <2> QED BY <1>1, <1>2, <1>4, <2>1, <2>2 DEF Sound, Expected
<1>5. CASE WriteRefresh(p)
  <2>1. refresh' = hand[p].plan /\ hand[p].plan \in Refresh /\ Sound(hand[p].plan)
    BY <1>1, <1>5, PartsType DEF WriteRefresh, HandIsFull, PlanIsKnown, Planned, PublishSteps
  <2> QED BY <1>2, <2>1 DEF Sound, Expected
<1>6. refresh' = refresh \/ MarkRollingBack(p) \/ WriteCommitted(p) \/ DropRefresh(p) \/ WriteRefresh(p)
  BY RefreshStays
<1>7. MarkRollingBack(p) \/ WriteCommitted(p) => refresh # None
  BY <1>1 DEF MarkRollingBack, WriteCommitted, HandIsFull
<1> QED BY <1>3, <1>4, <1>5, <1>6, <1>7 DEF MarkRollingBack, WriteCommitted, DropRefresh

-----------------------------------------------------------------------------
(* What an update left behind, and the entries that are looked at.         *)

LEMMA TellsOfFewer ==
    ASSUME NEW reg, NEW e, NEW f, NEW names, NEW more, names \subseteq more,
           \A n \in names : e[n] = f[n], TellsOf(reg, f, more)
    PROVE  TellsOf(reg, e, names)
  BY DEF TellsOf

LEMMA DroppingIsRepairing ==
    ASSUME LocksAreHeld, \A q \in Procs : StepOfOp(q), Dropping
    PROVE  repairing # None /\ updating = None /\ repairing \in Procs
           /\ pc[repairing] = "drop-update" /\ HoldsRepair(repairing)
  BY DEF Dropping, LocksAreHeld, StepOfOp, HoldsRepair

LEMMA UpdatingStays ==
    ASSUME NEW p \in Procs, Step(p)
    PROVE  UNCHANGED updating \/ Return(p) \/ CommitUpdate(p) \/ (TakeUpdate(p) /\ ~Return(p))
<1>1. CASE Publishing(p)
  BY <1>1 DEF Publishing, TakeShims, MarkRollingBack, PublishEntry, WriteCommitted,
     DropRefresh, Plan, KeepPlan, Stage, WriteRefresh, WriteRegistry, CheckLive, Published, locks
<1>2. CASE Updating(p)
  BY <1>2 DEF Updating, WritePrepared, Swap, locks
<1>3. CASE Repairing(p)
  BY <1>3 DEF Repairing, TakeRepair, Undo, Undone, DropUpdate, locks
<1> QED BY <1>1, <1>2, <1>3 DEF Start, Fails, Die, locks

\* An update begins.
LEMMA TookUpdate ==
    ASSUME TypeOK, NEW p \in Procs, TakeUpdate(p), ~Return(p)
    PROVE  /\ update = None /\ updating = None /\ updating' = p /\ pc'[p] = "prepared"
           /\ UNCHANGED <<files, registry, refresh, repairing, publishing>>
           /\ hand[p].place \in Places /\ PairAt(hand[p].place) \in TwoFiles
           /\ update'.dest = hand[p].place /\ update'.phase = "preparing"
           /\ update'.backup = PairAt(hand[p].place) /\ update' \in Update /\ update' # None
<1>1. hand[p].place \in Places
  BY PartsType DEF Hand
<1>2. /\ update' = [dest |-> hand[p].place, phase |-> "preparing", backup |-> PairAt(hand[p].place)]
      /\ PairAt(hand[p].place) \in TwoFiles
      /\ update = None /\ updating = None /\ updating' = p /\ pc'[p] = "prepared"
      /\ UNCHANGED <<files, registry, refresh, repairing, publishing>>
  BY DEF TakeUpdate, Goto, TypeOK
<1>3. update' \in Update
  BY <1>1, <1>2 DEF Update
<1> QED BY <1>1, <1>2, <1>3, NoneIsNoJournal

\* The journal of an update stays for the same pair and with the same backup.
LEMMA BackupStays ==
    ASSUME TypeOK, NEW p \in Procs, Step(p), UpdateIsKnown(p), update # None
    PROVE  \/ UNCHANGED update
           \/ /\ update' \in Update /\ update'.dest = update.dest /\ update'.backup = update.backup
              /\ \/ WritePrepared(p) /\ update'.phase = "prepared"
                 \/ CommitUpdate(p) /\ update'.phase = "committed"
                 \/ Undone(p) /\ hand[p].op = "repair" /\ update'.phase = "committed"
           \/ /\ update' = None
              /\ \/ Undone(p) /\ hand[p].op # "repair"
                 \/ DropUpdate(p)
                 \/ Fails(p) /\ pc[p] = "prepared"
<1>1. update \in Update
  BY PartsType
<1>2. \A x \in {"preparing", "prepared", "committed"} :
        /\ [update EXCEPT !.phase = x] \in Update
        /\ [update EXCEPT !.phase = x].dest = update.dest
        /\ [update EXCEPT !.phase = x].backup = update.backup
        /\ [update EXCEPT !.phase = x].phase = x
  BY <1>1 DEF Update
<1>3. CASE TakeUpdate(p)
  BY <1>3 DEF TakeUpdate
<1>4. CASE WritePrepared(p) \/ CommitUpdate(p) \/ Undone(p)
  BY <1>2, <1>4 DEF WritePrepared, CommitUpdate, Undone
<1>5. CASE DropUpdate(p) \/ (Fails(p) /\ pc[p] = "prepared")
  BY <1>5 DEF DropUpdate, Fails, At
<1> QED BY <1>3, <1>4, <1>5, UpdateStays

\* Only the one who publishes has the entries looked at that an update left behind.
LEMMA LeftStays ==
    ASSUME IInv, NEW p \in Procs, Step(p), pc[p] \notin PublishSteps, LeftBehind
    PROVE  LeftBehind' /\ update'.dest = update.dest
<1>1. /\ TypeOK /\ LocksAreHeld /\ HandIsFull(p) /\ UpdateIsKnown(p)
      /\ \A q \in Procs : StepOfOp(q)
  BY DEF IInv, UpdatesAreKnown
<1>2. update # None /\ updating = None /\ ~Dropping /\ update \in Update
  BY <1>1, PartsType DEF LeftBehind
<1>3. pc[p] # "drop-update" /\ pc'[p] # "drop-update"
  BY <1>1, <1>2, ToDropUpdate DEF Dropping
<1>4. ~Dropping'
  BY <1>1, <1>2, <1>3, OthersStay DEF Dropping
<1>5. CASE Undone(p)
  <2>1. hand[p].op = "repair"
    BY <1>1, <1>2, <1>5, LockOfAction
  <2>2. update' = [update EXCEPT !.phase = "committed"] /\ UNCHANGED updating
    BY <1>5, <2>1 DEF Undone, locks
  <2>3. update' \in Update /\ update'.dest = update.dest
    BY <1>2, <2>2 DEF Update
  <2> QED BY <1>2, <1>4, <2>2, <2>3, NoneIsNoJournal DEF LeftBehind
<1>6. CASE ~Undone(p)
  <2>1. UNCHANGED update
    <3>1. TakeUpdate(p) => UNCHANGED update
      BY <1>2 DEF TakeUpdate
    <3>2. ~WritePrepared(p) /\ ~CommitUpdate(p) /\ ~(Fails(p) /\ pc[p] = "prepared")
      BY <1>1, <1>2, LockOfAction
    <3>3. ~DropUpdate(p)
      BY <1>3 DEF DropUpdate, At
    <3> QED BY <1>6, <3>1, <3>2, <3>3, UpdateStays
  <2>2. updating' = None
    BY <1>1, <1>2, <2>1, TookUpdate, UpdatingStays DEF Return, Unlock, CommitUpdate
  <2> QED BY <1>2, <1>4, <2>1, <2>2 DEF LeftBehind
<1> QED BY <1>5, <1>6

\* Outside of publishing, the entries stay what they count as.
LEMMA EntryStays ==
    ASSUME IInv, NEW p \in Procs, Step(p), from' = from, pc[p] \notin PublishSteps
    PROVE  Looked' \subseteq Looked /\ \A n \in Looked' : Entry(n)' = Entry(n)
<1>1. /\ TypeOK /\ LocksAreHeld /\ HandIsFull(p) /\ UpdateIsKnown(p)
      /\ \A q \in Procs : StepOfOp(q)
  BY DEF IInv, UpdatesAreKnown
<1>2. /\ Looked' \subseteq Looked
      /\ \A n \in Looked' \cap Pair :
            /\ ~(LeftBehind' /\ update'.dest = "bin")
            /\ ~(LeftBehind /\ update.dest = "bin")
  BY LeftStays DEF Looked, Names
<1>3. ~PublishEntry(p)
  BY DEF PublishEntry, At, PublishSteps
<1>4. \A n \in Commands : bin'[n] = bin[n]
  <2>1. CASE Swap(p)
    BY <1>1, <2>1, FileSwapped, PutPair
  <2>2. CASE Undo(p)
    BY <1>1, <2>2, FileUndone, PutPair DEF files
  <2> QED BY <1>3, <2>1, <2>2, FilesStay DEF files
<1>5. ASSUME NEW n \in Looked' \cap Pair
      PROVE  Entry(n)' = Entry(n)
  <2>1. /\ ~(LeftBehind' /\ update'.dest = "bin")
        /\ ~(LeftBehind /\ update.dest = "bin") /\ n \in Pair
    BY <1>2, <1>5
  <2>2. CASE Swap(p)
    <3>1. updating = p /\ UNCHANGED <<update, updating>>
      BY <1>1, <2>2, LockOfAction DEF Swap, journals, locks
    <3>2. update.dest # "bin" => bin' = bin
      BY <1>1, <2>2, FileSwapped, PutPair
    <3> QED BY <1>1, <2>1, <3>1, <3>2 DEF Entry, TypeOK
  <2>3. CASE Undo(p)
    <3>1. UNCHANGED <<update, updating>>
      BY <2>3 DEF Undo, journals, locks
    <3>2. update.dest # "bin" => bin' = bin
      BY <1>1, <2>3, FileUndone, PutPair DEF files
    <3>3. updating # None \/ update.dest # "bin"
      <4>1. hand[p].op = "update" => updating = p
        BY <1>1, <2>3, LockOfAction
      <4>2. CASE hand[p].op = "repair"
        <5>1. repairing = p /\ pc[p] = "undo" /\ update # None
          BY <1>1, <2>3, <4>2, LockOfAction DEF Undo, At, UpdateIsKnown, UndoSteps
        <5>2. updating = None => LeftBehind
          BY <1>1, <5>1, DroppingIsRepairing DEF LeftBehind
        <5> QED BY <2>1, <5>2
      <4> QED BY <1>1, <2>3, <4>1, <4>2, LockOfAction DEF TypeOK
    <3> QED BY <2>1, <3>1, <3>2, <3>3 DEF Entry
  <2>4. CASE ~Swap(p) /\ ~Undo(p)
    <3>1. UNCHANGED <<bin, package>>
      BY <1>3, <2>4, FilesStay DEF files
    <3>2. CASE updating' # None /\ updating = None
      <4>1. TakeUpdate(p) /\ ~Return(p)
        BY <3>2, UpdatingStays DEF Return, Unlock, CommitUpdate
      <4>2. update'.dest = "bin" => update'.backup[n] = bin[n]
        BY <1>1, <2>1, <4>1, TookUpdate DEF PairAt
      <4> QED BY <3>1, <3>2, <4>2 DEF Entry
    <3>3. CASE updating' = None /\ updating # None
      <4>1. updating = p /\ repairing = None
        BY <1>1, <3>3, UpdaterAlone DEF LocksAreHeld
      <4>2. pc[p] \in SwapSteps \cup UndoSteps /\ hand[p].op = "update" /\ update # None
        BY <1>1, <4>1 DEF LocksAreHeld, HoldsUpdate, StepOfOp, UpdateIsKnown
      <4>3. CASE update' = None
        <5>1. ~DropUpdate(p)
          BY <4>2 DEF DropUpdate, At, SwapSteps, UndoSteps
        <5>2. PairAt(update.dest) = update.backup
          BY <1>1, <4>2, <4>3, <5>1, BackupStays DEF UpdateIsKnown, Undone, At
        <5> QED BY <2>1, <3>1, <3>3, <4>3, <5>2 DEF Entry, PairAt
      <4>4. CASE update' # None
        <5>1. update'.dest = update.dest
          BY <1>1, <4>2, <4>4, BackupStays
        <5>2. ~Dropping /\ pc[p] # "drop-update"
          BY <1>1, <4>1, <4>2, DroppingIsRepairing DEF SwapSteps, UndoSteps
        <5>3. ~Dropping'
          BY <1>1, <5>2, ToDropUpdate, OthersStay DEF Dropping
        <5>4. LeftBehind'
          BY <3>3, <4>4, <5>3 DEF LeftBehind
        <5> QED BY <2>1, <3>1, <3>3, <5>1, <5>4 DEF Entry
      <4> QED BY <4>3, <4>4
    <3>4. CASE updating' = None /\ updating = None
      BY <3>1, <3>4 DEF Entry
    <3>5. CASE updating' # None /\ updating # None
      <4>1. CASE updating # p
        BY <1>1, <3>1, <3>5, <4>1, UpdaterAlone DEF Entry, journals
      <4>2. CASE updating = p
        <5>1. ~Return(p) /\ ~CommitUpdate(p)
          BY <3>5, <4>2 DEF Return, Unlock, CommitUpdate
        <5>2. update # None /\ hand[p].op = "update" /\ pc[p] # "drop-update"
          BY <1>1, <4>2 DEF LocksAreHeld, HoldsUpdate, StepOfOp, UpdateIsKnown, SwapSteps, UndoSteps
        <5>3. ~(Undone(p) /\ hand[p].op # "repair") /\ ~DropUpdate(p)
              /\ ~(Fails(p) /\ pc[p] = "prepared")
          BY <5>1, <5>2 DEF Undone, DropUpdate, Fails, At
        <5>4. update' = update \/ (update'.dest = update.dest /\ update'.backup = update.backup)
          BY <1>1, <5>2, <5>3, BackupStays
        <5> QED BY <3>1, <3>5, <5>4 DEF Entry
      <4> QED BY <4>1, <4>2
    <3> QED BY <3>2, <3>3, <3>4, <3>5
  <2> QED BY <2>2, <2>3, <2>4
<1>6. \A n \in Commands : Entry(n)' = Entry(n)
  BY <1>4 DEF Entry
<1> QED BY <1>2, <1>5, <1>6 DEF Looked, Names

-----------------------------------------------------------------------------
(* The entries, while nothing is published and while something is.         *)

LEMMA PublishingFrame ==
    ASSUME IInv, NEW p \in Procs, Step(p), pc[p] \in PublishSteps
    PROVE  /\ publishing = p /\ updating = None /\ updating' = None /\ UNCHANGED update
           /\ \A n : Entry(n) = bin[n] /\ Entry(n)' = bin'[n]
           /\ pc'[p] # "drop-update" => Looked' = Looked /\ (LeftBehind' <=> LeftBehind)
           /\ Looked \subseteq LookedBy(p) /\ LookedBy(p) \subseteq Names
<1>1. /\ TypeOK /\ LocksAreHeld /\ StepOfOp(p) /\ HandIsFull(p) /\ UpdateIsKnown(p)
  BY DEF IInv, UpdatesAreKnown
<1>2. publishing = p /\ updating = None
  BY <1>1 DEF LocksAreHeld
<1>3. ~TakeUpdate(p) /\ ~CommitUpdate(p) /\ ~WritePrepared(p) /\ ~Undone(p) /\ ~DropUpdate(p)
      /\ pc[p] # "prepared" /\ pc[p] # "drop-update"
  BY DEF TakeUpdate, CommitUpdate, WritePrepared, Undone, DropUpdate, At, PublishSteps
<1>4. updating' = None /\ UNCHANGED update
  BY <1>2, <1>3, UpdatingStays, UpdateStays DEF Return, Unlock
<1>5. \A n : Entry(n) = bin[n] /\ Entry(n)' = bin'[n]
  BY <1>2, <1>4 DEF Entry
<1>6. ASSUME pc'[p] # "drop-update"
      PROVE  Looked' = Looked /\ (LeftBehind' <=> LeftBehind)
  <2>1. Dropping' <=> Dropping
    BY <1>1, <1>3, <1>6, OthersStay DEF Dropping
  <2>2. LeftBehind' <=> LeftBehind
    BY <1>2, <1>4, <2>1 DEF LeftBehind
  <2> QED BY <1>4, <2>2 DEF Looked
<1>7. Looked \subseteq LookedBy(p) /\ LookedBy(p) \subseteq Names
  BY DEF LookedBy, Looked, Names
<1> QED BY <1>2, <1>4, <1>5, <1>6, <1>7

\* Entries that are as expected are the ones that the new registry tells of.
LEMMA ExpectedTells ==
    ASSUME NEW r, r.after \in Registry, NEW e, NEW names,
           \A n \in names \cap DOMAIN Expected(r) : e[n] = Expected(r)[n]
    PROVE  TellsOf(r.after, e, names)
<1>1. /\ DOMAIN Expected(r) = Pair \cup r.after.commands
      /\ \A n \in Pair \cup r.after.commands :
            Expected(r)[n] = IF n = "pinset" THEN r.after.cli ELSE r.after.shim
  BY DEF Expected
<1>2. "pinset" \notin r.after.commands
  BY DEF Registry, Pair
<1> QED BY <1>1, <1>2 DEF TellsOf, Pair

\* A step that changes no more of a refresh than its phase.
LEMMA EntriesStayKnown ==
    ASSUME EntriesAreKnown, UNCHANGED registry,
           \/ UNCHANGED refresh
           \/ /\ refresh # None /\ refresh' # None
              /\ refresh'.before = refresh.before /\ refresh'.after = refresh.after
              /\ refresh'.entries = refresh.entries,
           Looked' \subseteq Looked, \A n \in Looked' : Entry(n)' = Entry(n)
    PROVE  EntriesAreKnown'
<1>1. Looked \subseteq Names /\ Looked' \subseteq Names
  BY DEF Looked, Names
<1>2. CASE refresh = None
  <2>1. refresh' = None
    BY <1>2
  <2>2. \A n \in Looked' : [m \in Names |-> Entry(m)'][n] = [m \in Names |-> Entry(m)][n]
    BY <1>1
  <2>3. TellsOf(registry, [m \in Names |-> Entry(m)], Looked)
    BY <1>2 DEF EntriesAreKnown
  <2>4. TellsOf(registry, [m \in Names |-> Entry(m)'], Looked')
    BY <2>2, <2>3, TellsOfFewer
  <2> QED BY <2>1, <2>4 DEF EntriesAreKnown
<1>3. CASE refresh # None
  <2>1. /\ refresh' # None /\ refresh'.before = refresh.before
        /\ refresh'.after = refresh.after /\ refresh'.entries = refresh.entries
    BY <1>3
  <2>2. Expected(refresh)' = Expected(refresh)
    BY <2>1 DEF Expected
  <2>3. \A n \in Looked' : Before(refresh)'[n] = Before(refresh)[n]
    BY <1>1, <2>1 DEF Before
  <2>4. TellsOf(refresh.before, Before(refresh), Looked)
    BY <1>3 DEF EntriesAreKnown
  <2>5. TellsOf(refresh.before, Before(refresh)', Looked')
    BY <2>3, <2>4, TellsOfFewer
  <2> QED BY <1>3, <2>1, <2>2, <2>5 DEF EntriesAreKnown
<1> QED BY <1>2, <1>3

\* What is there when the journal of a refresh is dropped.
LEMMA DroppedTells ==
    ASSUME IInv, NEW p \in Procs, DropRefresh(p)
    PROVE  /\ refresh \in Refresh /\ Sound(refresh)
           /\ \/ /\ ~hand[p].rollback /\ registry = refresh.after
                 /\ \A n \in LookedBy(p) \cap DOMAIN refresh.entries : bin[n] = Expected(refresh)[n]
                 /\ \A n \in Looked \cap DOMAIN Expected(refresh) : bin[n] = Expected(refresh)[n]
                 /\ hand[p].plan # None =>
                      \A n \in LookedBy(p) \cap DOMAIN Expected(refresh) : bin[n] = Expected(refresh)[n]
              \/ /\ hand[p].rollback /\ registry = refresh.before /\ hand[p].plan = None
                 /\ \A n \in Looked : bin[n] = Before(refresh)[n]
           /\ TellsOf(registry, bin, Looked)
           /\ hand[p].plan # None => TellsOf(registry, bin, LookedBy(p))
<1>1. /\ TypeOK /\ HandIsFull(p) /\ PlanIsKnown(p) /\ PublishedIsKnown(p)
      /\ EntriesAreKnown /\ (refresh # None => Sound(refresh)) /\ pc[p] = "drop"
  BY DEF IInv, DropRefresh, At
<1>2. refresh \in Refresh /\ Sound(refresh) /\ refresh # None
  BY <1>1, PartsType DEF HandIsFull
<1>3. Looked \subseteq LookedBy(p) /\ Looked \subseteq Names /\ \A n : Entry(n) = bin[n]
  <2>1. updating = None
    BY <1>1 DEF IInv, LocksAreHeld, PublishSteps
  <2> QED BY <2>1 DEF LookedBy, Looked, Names, Entry
<1>4. /\ \A n \in LookedBy(p) \cap DOMAIN refresh.entries : bin[n] = Desired(p, n)
      /\ registry = IF hand[p].rollback THEN refresh.before ELSE refresh.after
  BY <1>1 DEF PublishedIsKnown
<1>5. CASE ~hand[p].rollback
  <2>1. \A n \in LookedBy(p) \cap DOMAIN refresh.entries : bin[n] = Expected(refresh)[n]
    BY <1>4, <1>5 DEF Desired
  <2>2. \A n \in Looked \cap DOMAIN Expected(refresh) : bin[n] = Expected(refresh)[n]
    BY <1>1, <1>2, <1>3, <2>1 DEF EntriesAreKnown
  <2>3. ASSUME hand[p].plan # None
        PROVE  \A n \in LookedBy(p) \cap DOMAIN Expected(refresh) : bin[n] = Expected(refresh)[n]
    <3>1. hand[p].plan \in Refresh /\ refresh = [hand[p].plan EXCEPT !.phase = refresh.phase]
      BY <1>1, <2>3, PartsType DEF HandIsFull
    <3>2. refresh.entries = hand[p].plan.entries /\ Expected(refresh) = Expected(hand[p].plan)
      BY <3>1 DEF Refresh, Expected
    <3>3. \A n \in LookedBy(p) \cap DOMAIN Expected(refresh) :
            n \notin DOMAIN refresh.entries => bin[n] = Expected(refresh)[n]
      BY <1>1, <2>3, <3>2 DEF PlanIsKnown, Planned, PublishSteps
    <3> QED BY <2>1, <3>3
  <2>4. refresh.after \in Registry /\ registry = refresh.after
    BY <1>2, <1>4, <1>5, JournalType
  <2> QED BY <1>2, <1>5, <2>1, <2>2, <2>3, <2>4, ExpectedTells
<1>6. CASE hand[p].rollback
  <2>1. hand[p].plan = None /\ registry = refresh.before
    BY <1>1, <1>4, <1>6 DEF HandIsFull
  <2>2. \A n \in Looked : bin[n] = Before(refresh)[n]
    BY <1>3, <1>4, <1>6 DEF Desired, Before
  <2>3. TellsOf(refresh.before, Before(refresh), Looked)
    BY <1>1, <1>2 DEF EntriesAreKnown
  <2>4. TellsOf(registry, bin, Looked)
    BY <2>1, <2>2, <2>3, TellsOfFewer
  <2> QED BY <1>2, <1>6, <2>1, <2>2, <2>4
<1> QED BY <1>5, <1>6

\* When nothing is left to do, every entry is as expected.
LEMMA NothingTells ==
    ASSUME TypeOK, NEW p \in Procs, HandIsFull(p), pc[p] = "plan",
           NEW commands \in SUBSET Commands, NothingToDo(NewPlan(p, commands))
    PROVE  /\ registry.cli = hand[p].seen["pinset"] /\ registry.shim = hand[p].seen["pinset-shim"]
           /\ bin["pinset"] = registry.cli /\ bin["pinset-shim"] = registry.shim
           /\ TellsOf(registry, bin, Names)
<1> DEFINE r == NewPlan(p, commands)
<1>1. r.after = NewRegistry(p, commands)
      /\ DOMAIN r.entries = {n \in DOMAIN Expected(r) : bin[n] # Expected(r)[n]}
  BY PlanSays
<1>2. NewRegistry(p, commands) \in Registry
  BY DEF NewRegistry, Registry, TwoFiles, TypeOK, Pair, HandIsFull, PublishSteps
<1> HIDE DEF r
<1>3. registry = r.after /\ r.after \in Registry /\ \A n \in DOMAIN Expected(r) : bin[n] = Expected(r)[n]
  BY <1>1, <1>2 DEF NothingToDo, r
<1>4. bin["pinset"] = registry.cli /\ bin["pinset-shim"] = registry.shim
  BY <1>3 DEF Expected, Pair
<1>5. TellsOf(registry, bin, Names)
  BY <1>3, ExpectedTells
<1> QED BY <1>1, <1>3, <1>4, <1>5 DEF NewRegistry

LEMMA EntriesKept ==
    ASSUME IInv, NEW p \in Procs, Step(p), from' = from
    PROVE  EntriesAreKnown'
<1> USE DEF At
<1>1. /\ TypeOK /\ LocksAreHeld /\ StepOfOp(p) /\ HandIsFull(p) /\ PlanIsKnown(p)
      /\ EntriesAreKnown /\ (refresh # None => Sound(refresh))
  BY DEF IInv
<1>2. CASE pc[p] \notin PublishSteps
  BY <1>1, <1>2, EntryStays, EntriesStayKnown, RefreshIsLocked
<1>3. CASE pc'[p] = "drop-update" /\ pc[p] \in PublishSteps
  <2>1. pc[p] # "drop-update"
    BY <1>3 DEF PublishSteps
  <2>2. \A n : Entry(n) = bin[n] /\ Entry(n)' = bin'[n]
    BY <1>3, PublishingFrame
  <2>3. UNCHANGED <<bin, registry>> /\ hand[p].op = "repair"
    BY <1>1, <1>3, <2>1, ToDropUpdate DEF files
  <2>4. Looked' \subseteq Names /\ LookedBy(p) = Names
    BY <2>3 DEF Looked, Names, LookedBy
  <2>5. refresh' = None /\ TellsOf(registry, bin, Names)
    <3>1. CASE Plan(p) /\ \E commands \in SUBSET Commands : NothingToDo(NewPlan(p, commands))
      <4>1. refresh' = None /\ pc[p] = "plan"
        BY <1>1, <3>1 DEF Plan, journals, HandIsFull
      <4> QED BY <1>1, <3>1, <4>1, NothingTells
    <3>2. CASE DropRefresh(p) /\ hand[p].plan # None
      BY <2>4, <3>2, DroppedTells DEF DropRefresh
    <3> QED BY <1>1, <1>3, <2>1, <3>1, <3>2, ToDropUpdate
  <2>6. \A n \in Looked' : [m \in Names |-> Entry(m)'][n] = bin[n]
    BY <2>2, <2>3, <2>4
  <2>7. TellsOf(registry, [m \in Names |-> Entry(m)'], Looked')
    BY <2>4, <2>5, <2>6, TellsOfFewer
  <2> QED BY <2>3, <2>5, <2>7 DEF EntriesAreKnown
<1>4. CASE pc'[p] # "drop-update" /\ pc[p] \in PublishSteps
  <2>1. /\ publishing = p /\ Looked' = Looked /\ Looked \subseteq LookedBy(p) /\ Looked \subseteq Names
        /\ \A n : Entry(n) = bin[n] /\ Entry(n)' = bin'[n]
    BY <1>4, PublishingFrame
  <2>2. ~Swap(p) /\ ~Undo(p)
    BY <1>4 DEF Swap, Undo, PublishSteps
  <2>3. CASE UNCHANGED <<bin, registry, refresh>>
    BY <1>1, <2>1, <2>3, EntriesStayKnown
  <2>4. CASE MarkRollingBack(p) \/ WriteCommitted(p)
    <3>1. UNCHANGED <<bin, registry>> /\ refresh \in Refresh
      BY <1>1, <2>4, PartsType DEF MarkRollingBack, WriteCommitted, HandIsFull, files
    <3>2. /\ refresh'.before = refresh.before /\ refresh'.after = refresh.after
          /\ refresh'.entries = refresh.entries /\ refresh' # None
      <4>1. PICK x \in {"rolling-back", "committed"} : refresh' = [refresh EXCEPT !.phase = x]
        BY <2>4 DEF MarkRollingBack, WriteCommitted
      <4>2. refresh' \in Refresh
        BY <3>1, <4>1, JournalType
      <4> QED BY <3>1, <4>1, <4>2, NoneIsNoJournal DEF Refresh
    <3>3. refresh # None
      BY <3>1, NoneIsNoJournal
    <3> QED BY <1>1, <2>1, <3>1, <3>2, <3>3, EntriesStayKnown
  <2>5. CASE PublishEntry(p)
    <3>1. /\ refresh \in Refresh /\ Sound(refresh) /\ UNCHANGED <<registry, refresh>>
          /\ \A n \in DOMAIN refresh.entries :
                Desired(p, n) \in {refresh.entries[n], Expected(refresh)[n]}
          /\ \A n \in Names :
                \/ bin'[n] = bin[n]
                \/ n \in DOMAIN refresh.entries /\ bin'[n] = Desired(p, n)
      BY <1>1, <2>5, EntryPublished DEF journals
    <3>2. refresh # None
      BY <3>1, NoneIsNoJournal
    <3>3. TellsOf(refresh.before, Before(refresh), Looked)
      BY <1>1, <3>2 DEF EntriesAreKnown
    <3>4. \A n \in Looked : Before(refresh)'[n] = Before(refresh)[n]
      BY <2>1, <3>1 DEF Before
    <3>5. TellsOf(refresh.before, Before(refresh)', Looked)
      BY <3>3, <3>4, TellsOfFewer
    <3>6. \A n \in Looked \cap DOMAIN Expected(refresh) :
            IF n \in DOMAIN refresh.entries
            THEN bin'[n] \in {refresh.entries[n], Expected(refresh)[n]}
            ELSE bin'[n] = Expected(refresh)[n]
      BY <1>1, <2>1, <3>1, <3>2 DEF EntriesAreKnown
    <3>7. Expected(refresh)' = Expected(refresh)
      BY <3>1 DEF Expected
    <3> QED BY <1>1, <2>1, <3>1, <3>2, <3>5, <3>6, <3>7 DEF EntriesAreKnown
  <2>6. CASE WriteRegistry(p)
    <3>1. /\ refresh # None /\ UNCHANGED <<bin, refresh>>
          /\ registry' \in {refresh.before, refresh.after}
      BY <1>1, <2>6 DEF WriteRegistry, HandIsFull, files
    <3>2. Before(refresh)' = Before(refresh) /\ Expected(refresh)' = Expected(refresh)
      BY <2>1, <3>1 DEF Before, Expected
    <3> QED BY <1>1, <2>1, <3>1, <3>2 DEF EntriesAreKnown
  <2>7. CASE DropRefresh(p)
    <3>1. refresh' = None /\ UNCHANGED <<bin, registry>>
      BY <2>7 DEF DropRefresh, files
    <3>2. \A n \in Looked' : [m \in Names |-> Entry(m)'][n] = bin[n]
      BY <2>1, <3>1
    <3>3. TellsOf(registry, bin, Looked)
      BY <2>7, DroppedTells
    <3>4. TellsOf(registry, [m \in Names |-> Entry(m)'], Looked')
      BY <2>1, <3>2, <3>3, TellsOfFewer
    <3> QED BY <3>1, <3>4 DEF EntriesAreKnown
  <2>8. CASE WriteRefresh(p)
    <3> DEFINE r == hand[p].plan
    <3>1. /\ pc[p] = "journal" /\ refresh = None /\ refresh' = r /\ r # None
          /\ UNCHANGED <<bin, registry>>
      BY <1>1, <2>8 DEF WriteRefresh, HandIsFull, files
    <3>2. /\ registry = r.before
          /\ \A n \in Looked \cap DOMAIN Expected(r) :
                n \notin DOMAIN r.entries => bin[n] = Expected(r)[n]
          /\ \A n \in Looked \cap DOMAIN r.entries : bin[n] = r.entries[n]
      BY <1>1, <2>1, <3>1 DEF PlanIsKnown, Planned, PublishSteps
    <3>3. Expected(refresh)' = Expected(r)
      BY <3>1 DEF Expected
    <3>4. \A n \in Looked : Before(refresh)'[n] = [m \in Names |-> Entry(m)][n]
      BY <2>1, <3>1, <3>2 DEF Before
    <3>5. TellsOf(registry, [m \in Names |-> Entry(m)], Looked)
      BY <1>1, <3>1 DEF EntriesAreKnown
    <3>6. TellsOf(r.before, Before(refresh)', Looked)
      BY <3>2, <3>4, <3>5, TellsOfFewer
    <3> QED BY <2>1, <3>1, <3>2, <3>3, <3>6 DEF EntriesAreKnown
  <2> QED BY <2>2, <2>3, <2>4, <2>5, <2>6, <2>7, <2>8, FilesStay, RefreshStays DEF files
<1> QED BY <1>2, <1>3, <1>4

-----------------------------------------------------------------------------
(* What the one who publishes knows of the entries.                        *)

\* While someone publishes, the others leave the entries alone that it knows.
LEMMA KnownStays ==
    ASSUME IInv, NEW p \in Procs, Step(p), from' = from, NEW q \in Procs \ {p}, pc[q] \in PublishSteps
    PROVE  /\ UNCHANGED <<registry, refresh>> /\ pc'[q] = pc[q] /\ hand'[q] = hand[q]
           /\ LookedBy(q)' \subseteq LookedBy(q)
           /\ \A n \in LookedBy(q)' : bin'[n] = bin[n]
<1>1. /\ TypeOK /\ LocksAreHeld /\ HandIsFull(p) /\ UpdateIsKnown(p) /\ \A s \in Procs : StepOfOp(s)
  BY DEF IInv, UpdatesAreKnown
<1>2. publishing = q /\ publishing # None /\ publishing # p
  BY <1>1 DEF LocksAreHeld
<1>3. /\ UNCHANGED <<registry, refresh>>
      /\ LeftBehind => LeftBehind' /\ update' # None /\ update'.dest = update.dest
      /\ bin' = bin \/ (Undo(p) /\ repairing = p /\ LeftBehind)
  BY <1>1, <1>2, PublisherAlone
<1>4. pc'[q] = pc[q] /\ hand'[q] = hand[q]
  BY <1>1, OthersStay
<1>5. LookedBy(q)' \subseteq LookedBy(q)
  BY <1>3, <1>4 DEF LookedBy, Looked, Names
<1>6. ASSUME NEW n \in LookedBy(q)' PROVE bin'[n] = bin[n]
  <2>1. CASE Undo(p) /\ repairing = p /\ LeftBehind
    <3>1. hand[q].op # "repair"
      BY <1>1, <2>1 DEF LocksAreHeld, HoldsRepair
    <3>2. update \in Update /\ update.dest \in Places
      BY <1>1, <2>1, FileUndone
    <3>3. update.dest = "bin" => n \in Commands
      BY <1>3, <1>4, <1>6, <2>1, <3>1 DEF LookedBy, Looked
    <3> QED BY <1>1, <2>1, <3>2, <3>3, FileUndone, PutPair DEF files
  <2> QED BY <1>3, <2>1
<1> QED BY <1>3, <1>4, <1>5, <1>6

LEMMA PlanOfOthers ==
    ASSUME IInv, NEW p \in Procs, Step(p), from' = from, NEW q \in Procs \ {p}
    PROVE  PlanIsKnown(q)' /\ PublishedIsKnown(q)'
<1>1. TypeOK /\ PlanIsKnown(q) /\ PublishedIsKnown(q) /\ HandIsFull(q)
  BY DEF IInv
<1>2. pc'[q] = pc[q] /\ hand'[q] = hand[q]
  BY <1>1, OthersStay
<1>3. CASE pc[q] \notin PublishSteps
  BY <1>2, <1>3 DEF PlanIsKnown, PublishedIsKnown, Planned, PublishSteps
<1>4. CASE pc[q] \in PublishSteps
  <2>1. /\ UNCHANGED <<registry, refresh>> /\ LookedBy(q)' \subseteq LookedBy(q)
        /\ \A n \in LookedBy(q)' : bin'[n] = bin[n]
    BY <1>4, KnownStays
  <2>2. Planned(q) => Sound(hand[q].plan)'
    <3> SUFFICES ASSUME Planned(q) PROVE Sound(hand[q].plan)'
      OBVIOUS
    <3>1. Sound(hand[q].plan) /\ hand[q].plan \in Refresh
      BY <1>1, PartsType DEF PlanIsKnown, Planned
    <3> QED BY <1>2, <3>1, JournalType, ForeignStays DEF Sound, Expected
  <2>3. Planned(q)' = Planned(q) /\ Expected(hand[q].plan)' = Expected(hand[q].plan)
    BY <1>2 DEF Planned, Expected
  <2>4. PlanIsKnown(q)'
    BY <1>1, <1>2, <2>1, <2>2, <2>3 DEF PlanIsKnown
  <2>5. \A n : Desired(q, n)' = Desired(q, n)
    BY <1>2, <2>1 DEF Desired, Expected
  <2> QED BY <1>1, <1>2, <2>1, <2>4, <2>5 DEF PublishedIsKnown
<1> QED BY <1>3, <1>4

\* Publishing begins with its lock.
LEMMA EntersPublishing ==
    ASSUME TypeOK, NEW p \in Procs, Step(p), pc[p] \notin PublishSteps, pc'[p] \in PublishSteps
    PROVE  TakeShims(p) /\ ~Return(p)
<1> USE DEF At, Goto
<1>1. ~Return(p) /\ pc \in [Procs -> Steps]
  BY Idle DEF PublishSteps, TypeOK
<1>2. ~Start(p) /\ ~Fails(p) /\ ~Die(p)
  BY <1>1 DEF Start, Fails, Die, PublishSteps
<1>3. ~Updating(p)
  BY <1>1 DEF Updating, TakeUpdate, WritePrepared, Swap, CommitUpdate, PublishSteps
<1>4. ~Repairing(p)
  BY <1>1 DEF Repairing, TakeRepair, Undo, Undone, DropUpdate, PublishSteps
<1> QED BY <1>1, <1>2, <1>3, <1>4 DEF Publishing, MarkRollingBack, PublishEntry, WriteRegistry,
        WriteCommitted, DropRefresh, Plan, Stage, WriteRefresh, CheckLive, PublishSteps

LEMMA PlanOfOwn ==
    ASSUME IInv, NEW p \in Procs, Step(p), from' = from
    PROVE  PlanIsKnown(p)' /\ PublishedIsKnown(p)'
<1> USE DEF At, Goto
<1>1. /\ TypeOK /\ LocksAreHeld /\ StepOfOp(p) /\ HandIsFull(p) /\ PlanIsKnown(p)
      /\ PublishedIsKnown(p) /\ (refresh # None => Sound(refresh))
  BY DEF IInv
<1>2. pc \in [Procs -> Steps] /\ hand \in [Procs -> Hand]
  BY <1>1 DEF TypeOK
<1>3. CASE pc'[p] \notin PublishSteps
  BY <1>3 DEF PlanIsKnown, PublishedIsKnown, Planned, PublishSteps
<1>4. ASSUME pc'[p] \in PublishSteps, pc[p] \notin PublishSteps
      PROVE  PlanIsKnown(p)' /\ PublishedIsKnown(p)'
  <2>1. TakeShims(p)
    BY <1>1, <1>4, EntersPublishing
  <2>2. hand'[p].plan = hand[p].plan /\ pc[p] = "shims" /\ pc'[p] \in {"plan", "mark", "entries"}
    <3>1. ~Return(p)
      BY <1>1, <1>4, Idle DEF PublishSteps
    <3> QED BY <1>2, <2>1, <3>1 DEF TakeShims, Hand
  <2>3. hand'[p].plan = None
    BY <1>1, <2>2 DEF HandIsFull, PublishSteps
  <2> QED BY <2>2, <2>3 DEF PlanIsKnown, PublishedIsKnown, Planned
<1>5. ASSUME pc[p] \in PublishSteps, pc'[p] \in PublishSteps
      PROVE  PlanIsKnown(p)' /\ PublishedIsKnown(p)'
  <2>1. /\ Looked' = Looked /\ LookedBy(p) \subseteq Names /\ ~Return(p) /\ ~Published(p)
    BY <1>1, <1>2, <1>5, PublishingFrame, Idle DEF PublishSteps, Published
  <2>2. hand[p].plan # None => Planned(p) /\ hand[p].plan \in Refresh /\ Sound(hand[p].plan)
    BY <1>1, <1>5, PartsType DEF Planned, PlanIsKnown
  <2>3. ASSUME hand' = hand, UNCHANGED bin, pc'[p] \notin {"stage", "journal"}
        PROVE  PlanIsKnown(p)'
    <3>1. Sound(hand[p].plan)' = Sound(hand[p].plan) /\ Expected(hand[p].plan)' = Expected(hand[p].plan)
      BY <2>3 DEF Sound, Expected
    <3>2. LookedBy(p)' = LookedBy(p)
      BY <2>1, <2>3 DEF LookedBy
    <3> QED BY <1>1, <1>5, <2>2, <2>3, <3>1, <3>2 DEF PlanIsKnown, Planned
  <2>4. CASE MarkRollingBack(p) \/ CheckLive(p) \/ WriteRefresh(p)
    <3>1. hand' = hand /\ UNCHANGED <<bin, registry>> /\ pc'[p] \in {"entries", "live"}
      BY <1>2, <2>1, <2>4 DEF MarkRollingBack, CheckLive, WriteRefresh, files, journals
    <3>2. PlanIsKnown(p)'
      BY <2>3, <3>1
    <3> QED BY <3>1, <3>2 DEF PublishedIsKnown
  <2>5. CASE PublishEntry(p)
    <3>1. /\ pc[p] = "entries" /\ refresh \in Refresh /\ hand' = hand
          /\ UNCHANGED <<registry, refresh>>
          /\ \A n \in Names : bin'[n] = bin[n] \/ n \in DOMAIN refresh.entries
          /\ \/ pc'[p] = "entries"
             \/ /\ pc'[p] = "registry" /\ bin' = bin
                /\ \A n \in DOMAIN refresh.entries : bin[n] = Desired(p, n)
      BY <1>1, <2>5, EntryPublished DEF journals
    <3>2. LookedBy(p)' = LookedBy(p) /\ \A n : Desired(p, n)' = Desired(p, n)
      BY <2>1, <3>1 DEF LookedBy, Desired, Expected
    <3>3. ASSUME hand[p].plan # None
          PROVE  /\ Sound(hand[p].plan)'
                 /\ \A n \in LookedBy(p) \cap DOMAIN Expected(hand[p].plan) :
                      n \notin DOMAIN hand[p].plan.entries => bin'[n] = Expected(hand[p].plan)[n]
      <4> DEFINE r == hand[p].plan
      <4>1. r \in Refresh /\ Sound(r) /\ refresh = [r EXCEPT !.phase = refresh.phase] /\ Planned(p)
        BY <1>1, <2>2, <3>1, <3>3 DEF HandIsFull
      <4>2. refresh.entries = r.entries
        BY <4>1 DEF Refresh
      <4>3. Sound(r)'
        BY <3>1, <4>1, JournalType, ForeignStays DEF Sound, Expected
      <4> QED BY <1>1, <2>1, <3>1, <4>1, <4>2, <4>3 DEF PlanIsKnown
    <3>4. Expected(hand[p].plan)' = Expected(hand[p].plan)
      BY <3>1 DEF Expected
    <3> QED BY <3>1, <3>2, <3>3, <3>4 DEF PlanIsKnown, PublishedIsKnown, Planned
  <2>6. CASE WriteRegistry(p)
    <3>1. /\ pc[p] = "registry" /\ pc'[p] = "committed" /\ hand' = hand /\ UNCHANGED <<bin, refresh>>
          /\ registry' = IF hand[p].rollback THEN refresh.before ELSE refresh.after
      BY <1>2, <2>6 DEF WriteRegistry, files
    <3>2. LookedBy(p)' = LookedBy(p) /\ \A n : Desired(p, n)' = Desired(p, n)
      BY <2>1, <3>1 DEF LookedBy, Desired, Expected
    <3>3. PlanIsKnown(p)'
      BY <2>3, <3>1
    <3> QED BY <1>1, <3>1, <3>2, <3>3 DEF PublishedIsKnown
  <2>7. CASE WriteCommitted(p)
    <3>1. /\ pc[p] = "committed" /\ pc'[p] = "drop" /\ hand' = hand /\ UNCHANGED <<bin, registry>>
          /\ refresh' = [refresh EXCEPT !.phase = "committed"] /\ refresh \in Refresh
      BY <1>1, <1>2, <2>7, PartsType DEF WriteCommitted, files, HandIsFull
    <3>2. /\ refresh'.entries = refresh.entries /\ refresh'.before = refresh.before
          /\ refresh'.after = refresh.after
      BY <3>1 DEF Refresh
    <3>3. LookedBy(p)' = LookedBy(p) /\ \A n : Desired(p, n)' = Desired(p, n)
      BY <2>1, <3>1, <3>2 DEF LookedBy, Desired, Expected
    <3>4. PlanIsKnown(p)'
      BY <2>3, <3>1
    <3> QED BY <1>1, <3>1, <3>2, <3>3, <3>4 DEF PublishedIsKnown
  <2>8. CASE DropRefresh(p)
    <3>1. pc'[p] = "plan" /\ hand'[p].plan = None
      BY <1>2, <2>1, <2>8 DEF DropRefresh
    <3> QED BY <3>1 DEF PlanIsKnown, PublishedIsKnown, Planned
  <2>9. CASE Plan(p)
    <3>1. PICK commands \in SUBSET Commands :
            LET r == NewPlan(p, commands) IN
            /\ r \in Refresh
            /\ \A n \in DOMAIN r.entries : n \in Names /\ bin[n] \in Releases \cup {None}
            /\ KeepPlan(p, r)
      BY <1>1, <2>1, <2>9, PlanCases
    <3> DEFINE r == NewPlan(p, commands)
    <3>2. /\ r.before = registry /\ r.after = NewRegistry(p, commands)
          /\ DOMAIN r.entries = {n \in DOMAIN Expected(r) : bin[n] # Expected(r)[n]}
          /\ \A n \in DOMAIN r.entries : r.entries[n] = bin[n]
      BY PlanSays
    <3>3. /\ NewRegistry(p, commands).cli = hand[p].seen["pinset"]
          /\ registry # None => registry.commands \subseteq NewRegistry(p, commands).commands
      BY DEF NewRegistry
    <3>4. hand[p].seen["pinset"] # None
      BY <1>1, <2>9 DEF HandIsFull, Plan, TwoFiles, PublishSteps, Pair
    <3> HIDE DEF r
    <3>5. r \in Refresh /\ KeepPlan(p, r)
          /\ \A n \in DOMAIN r.entries : n \in Names /\ bin[n] \in Releases \cup {None}
      BY <3>1 DEF r
    <3>6. Sound(r)
      BY <3>2, <3>3, <3>4, <3>5 DEF Sound
    <3>7. /\ hand'[p] = [hand[p] EXCEPT !.rollback = FALSE, !.plan = r] /\ pc'[p] = "stage"
          /\ UNCHANGED <<bin, registry>>
      BY <1>2, <2>9, <3>5 DEF KeepPlan, Plan, files, journals
    <3>8. hand'[p].plan = r
      BY <1>2, <3>7 DEF Hand
    <3>9. Sound(hand[p].plan)' /\ Expected(hand[p].plan)' = Expected(r)
      BY <3>6, <3>7, <3>8 DEF Sound, Expected
    <3> QED BY <3>2, <3>7, <3>8, <3>9 DEF PlanIsKnown, PublishedIsKnown, Planned
  <2>10. CASE Stage(p)
    <3>1. /\ pc[p] = "stage" /\ pc'[p] = "journal" /\ UNCHANGED <<bin, registry>>
      BY <1>2, <2>10 DEF Stage, files, journals
    <3>2. LET old == hand[p].plan
              r == hand'[p].plan IN
           /\ r.before = old.before /\ r.after = old.after
           /\ r.entries = old.entries /\ Expected(r) = Expected(old)
           /\ hand'[p] = [hand[p] EXCEPT !.plan = r]
      BY <1>1, <2>10, StageSays
    <3>3. hand'[p].op = hand[p].op /\ hand[p].plan # None
      BY <1>1, <1>2, <3>1, <3>2 DEF Hand, HandIsFull
    <3>4. Sound(hand[p].plan)' /\ Expected(hand[p].plan)' = Expected(hand[p].plan)
      BY <2>2, <3>1, <3>2, <3>3 DEF Sound, Expected
    <3>5. LookedBy(p)' = LookedBy(p)
      BY <2>1, <3>3 DEF LookedBy
    <3> QED BY <1>1, <1>5, <3>1, <3>2, <3>3, <3>4, <3>5 DEF PlanIsKnown, PublishedIsKnown, Planned
  <2>11. pc[p] \notin {"shims", "idle", "want-update", "prepared", "swap", "commit-update",
                      "repair", "undo", "undone", "drop-update"}
    BY <1>5 DEF PublishSteps
  <2> QED BY <2>1, <2>4, <2>5, <2>6, <2>7, <2>8, <2>9, <2>10, <2>11 DEF Publishing, Updating, Repairing,
        Start, TakeShims, TakeUpdate, WritePrepared, Swap, CommitUpdate, TakeRepair, Undo, Undone,
        DropUpdate, Fails, Die
<1> QED BY <1>3, <1>4, <1>5

\* A plan is made and staged, and after that stays what it is.
LEMMA PlanStays ==
    ASSUME TypeOK, NEW p \in Procs, HandIsFull(p), Step(p), ~Plan(p), ~Stage(p), Planned(p)'
    PROVE  hand'[p].plan = hand[p].plan /\ Planned(p)
<1> USE DEF At, Goto
<1>1. ~Return(p) /\ ~Published(p)
  BY Idle DEF Planned, Published, PublishSteps, TypeOK
<1>2. hand'[p].plan = hand[p].plan
  <2>1. CASE Publishing(p)
    BY <1>1, <2>1 DEF Publishing, TakeShims, MarkRollingBack, PublishEntry,
       WriteRegistry, WriteCommitted, DropRefresh, WriteRefresh, CheckLive, TypeOK, Hand
  <2>2. CASE ~Publishing(p)
    <3>1. ~Start(p) /\ ~Updating(p) /\ ~Repairing(p)
      BY <1>1 DEF Planned, PublishSteps, TypeOK, Start, Updating, TakeUpdate,
         WritePrepared, Swap, CommitUpdate, Repairing, TakeRepair, Undo, Undone, DropUpdate
    <3>2. ~Fails(p) /\ ~Die(p)
      BY <1>1 DEF Planned, PublishSteps, TypeOK, Fails, Die
    <3> QED BY <2>2, <3>1, <3>2
  <2> QED BY <2>1, <2>2
<1>3. hand[p].plan # None /\ pc'[p] # "drop-update"
  BY <1>2 DEF Planned, PublishSteps
<1>4. pc[p] # "drop-update"
  BY Idle DEF Planned, PublishSteps, TypeOK, Fails, Die, Publishing, TakeShims,
     MarkRollingBack, PublishEntry, WriteRegistry, WriteCommitted, DropRefresh, Plan, Stage,
     WriteRefresh, CheckLive, Start, Updating, TakeUpdate, WritePrepared, Swap, CommitUpdate,
     Repairing, TakeRepair, Undo, Undone, DropUpdate
<1> QED BY <1>2, <1>3, <1>4 DEF HandIsFull, Planned

\* Where the step that is next came from.
LEMMA CameFrom ==
    ASSUME TypeOK, NEW p \in Procs, Step(p)
    PROVE  /\ pc'[p] = "journal" => Stage(p)
           /\ pc'[p] = "mark" => TakeShims(p) /\ refresh # None /\ Valid(refresh)
           /\ pc'[p] = "entries" =>
                \/ TakeShims(p) /\ refresh # None /\ Valid(refresh)
                \/ MarkRollingBack(p) \/ PublishEntry(p)
                \/ CheckLive(p) /\ Valid(refresh)
<1> USE DEF At, Goto
<1>1. CASE pc'[p] \in {"journal", "mark", "entries"}
  <2>1. ~Return(p) /\ ~Published(p)
    BY <1>1, Idle DEF Published, TypeOK
  <2>2. ~Start(p) /\ ~Updating(p) /\ ~Repairing(p) /\ ~Fails(p) /\ ~Die(p)
    BY <1>1, <2>1 DEF TypeOK, Start, Updating, TakeUpdate, WritePrepared, Swap, CommitUpdate,
       Repairing, TakeRepair, Undo, Undone, DropUpdate, Fails, Die
  <2>3. TakeShims(p) => refresh = None \/ Valid(refresh)
    BY <2>1 DEF TakeShims
  <2>4. TakeShims(p) /\ refresh = None => pc'[p] = "plan"
    BY <2>1 DEF TakeShims, TypeOK
  <2> QED BY <1>1, <2>1, <2>2, <2>3, <2>4 DEF Publishing, MarkRollingBack, PublishEntry,
       WriteRegistry, WriteCommitted, DropRefresh, WriteRefresh, CheckLive, Plan, KeepPlan, Stage,
       TakeShims, TypeOK
<1> QED BY <1>1

-----------------------------------------------------------------------------
(* A command line that the registry does not record, run from elsewhere.   *)

LEMMA UnrecordedKept ==
    ASSUME IInv, NEW p \in Procs, Step(p), from' = from
    PROVE  UnrecordedStays'
<1> USE DEF At, Goto
<1>1. /\ TypeOK /\ LocksAreHeld /\ HandIsFull(p) /\ PlanIsKnown(p) /\ UpdateIsKnown(p)
      /\ PublishedIsKnown(p) /\ EntriesAreKnown /\ (refresh # None => Sound(refresh))
      /\ StepOfOp(p)
  BY DEF IInv, UpdatesAreKnown
<1> SUFFICES ASSUME "bin" \notin from PROVE UnrecordedStays'
  BY DEF UnrecordedStays
<1>2. /\ registry # None /\ (refresh # None => refresh.before # None) => bin["pinset"] # None
      /\ refresh # None => RecordsItsCli(refresh)
      /\ \A q \in Procs : Planned(q) => RecordsItsCli(hand[q].plan)
  BY DEF IInv, UnrecordedStays
<1>3. \A q \in Procs \ {p} : pc'[q] = pc[q] /\ hand'[q] = hand[q]
  BY <1>1, OthersStay
<1>4. \A q \in Procs \ {p} : Planned(q)' => RecordsItsCli(hand[q].plan)'
  BY <1>2, <1>3 DEF Planned, RecordsItsCli
\* The entries change by publishing only.
<1>5. ~PublishEntry(p) => UNCHANGED bin
  <2>1. update # None => update.dest # "bin"
    BY DEF IInv, UpdatesAreKnown
  <2>2. CASE Swap(p)
    BY <1>1, <2>1, <2>2, FileSwapped, PutPair, NoneIsNoJournal
  <2>3. CASE Undo(p)
    BY <1>1, <2>1, <2>3, FileUndone, PutPair, NoneIsNoJournal DEF files
  <2> QED BY <2>2, <2>3, FilesStay DEF files
<1>6. Planned(p)' => RecordsItsCli(hand[p].plan)'
  <2>1. CASE Plan(p)
    <3>1. CASE KeepPlan(p, hand'[p].plan) /\ \E commands \in SUBSET Commands :
                 /\ hand'[p].plan = NewPlan(p, commands)
                 /\ \A n \in DOMAIN NewPlan(p, commands).entries : bin[n] # None => Owned(n)
      <4>1. PICK commands \in SUBSET Commands :
                 /\ hand'[p].plan = NewPlan(p, commands)
                 /\ \A n \in DOMAIN NewPlan(p, commands).entries : bin[n] # None => Owned(n)
        BY <3>1
      <4> DEFINE r == NewPlan(p, commands)
      <4>2. r.before = registry /\ \A n \in DOMAIN r.entries : r.entries[n] = bin[n]
        BY PlanSays
      <4>3. refresh = None
        BY <1>1, <2>1 DEF Plan, HandIsFull
      <4>4. RecordsItsCli(r)
        BY <1>2, <4>1, <4>2, <4>3 DEF RecordsItsCli, Owned
      <4> QED BY <4>1, <4>4 DEF RecordsItsCli
    <3>2. CASE Return(p) \/ Published(p)
      <4>1. pc'[p] \notin PublishSteps
        BY <1>1, <3>2, Idle DEF Published, PublishSteps, TypeOK
      <4> QED BY <4>1 DEF Planned
    <3>3. ASSUME NEW r \in Refresh, KeepPlan(p, r) PROVE hand'[p].plan = r
      BY <1>1, <3>3 DEF KeepPlan, TypeOK, Hand
    <3> QED BY <1>1, <2>1, <3>1, <3>2, <3>3, PlanCases
  <2>2. CASE Stage(p)
    <3>1. Planned(p)
      BY <1>1, <2>2 DEF Stage, HandIsFull, Planned, PublishSteps
    <3>2. hand'[p].plan.before = hand[p].plan.before /\ hand'[p].plan.entries = hand[p].plan.entries
      BY <1>1, <2>2, StageSays
    <3> QED BY <1>2, <3>1, <3>2 DEF RecordsItsCli
  <2>3. CASE ~Plan(p) /\ ~Stage(p)
    BY <1>1, <1>2, <2>3, PlanStays DEF RecordsItsCli
  <2> QED BY <2>1, <2>2, <2>3
<1>7. refresh' # None => RecordsItsCli(refresh)'
  <2>1. CASE UNCHANGED refresh
    BY <1>2, <2>1 DEF RecordsItsCli
  <2>2. CASE MarkRollingBack(p) \/ WriteCommitted(p)
    <3>1. refresh \in Refresh /\ refresh # None
      BY <1>1, <2>2, PartsType DEF MarkRollingBack, WriteCommitted, HandIsFull
    <3>2. refresh'.before = refresh.before /\ refresh'.entries = refresh.entries
      BY <2>2, <3>1 DEF MarkRollingBack, WriteCommitted, Refresh
    <3> QED BY <1>2, <3>1, <3>2 DEF RecordsItsCli
  <2>3. CASE WriteRefresh(p)
    <3>1. Planned(p) /\ refresh' = hand[p].plan
      BY <1>1, <2>3 DEF WriteRefresh, HandIsFull, Planned, PublishSteps
    <3> QED BY <1>2, <3>1 DEF RecordsItsCli
  <2> QED BY <2>1, <2>2, <2>3, RefreshStays DEF DropRefresh
<1>8. registry' # None /\ (refresh' # None => refresh'.before # None) => bin'["pinset"] # None
  <2> SUFFICES ASSUME registry' # None, refresh' # None => refresh'.before # None
               PROVE  bin'["pinset"] # None
    OBVIOUS
  <2>1. CASE PublishEntry(p)
    <3>1. /\ refresh \in Refresh /\ Sound(refresh) /\ UNCHANGED <<registry, refresh>>
          /\ \A n \in DOMAIN refresh.entries :
               Desired(p, n) = IF refresh.phase = "rolling-back" THEN refresh.entries[n]
                               ELSE Expected(refresh)[n]
          /\ \A n \in Names :
                \/ bin'[n] = bin[n]
                \/ n \in DOMAIN refresh.entries /\ bin'[n] = Desired(p, n)
      BY <1>1, <2>1, EntryPublished DEF journals
    <3>2. refresh # None /\ "pinset" \in Names
      BY <3>1, NoneIsNoJournal DEF Names, Pair
    <3>3. CASE bin'["pinset"] = bin["pinset"]
      BY <1>2, <3>1, <3>3
    <3>4. CASE "pinset" \in DOMAIN refresh.entries /\ bin'["pinset"] = Desired(p, "pinset")
      <4>1. RecordsItsCli(refresh) /\ refresh.before # None
        BY <1>2, <3>1, <3>2
      <4>2. Expected(refresh)["pinset"] # None
        BY <3>1 DEF Sound, Expected, Pair
      <4> QED BY <3>1, <3>4, <4>1, <4>2 DEF RecordsItsCli
    <3> QED BY <3>1, <3>2, <3>3, <3>4
  <2>2. CASE WriteRegistry(p)
    <3>1. refresh # None /\ UNCHANGED <<refresh, bin>>
      BY <1>1, <2>2 DEF WriteRegistry, HandIsFull, files
    <3>2. registry # None
      <4>1. refresh \in Refresh /\ refresh.before # None /\ refresh.after # None
        BY <1>1, <3>1, PartsType, JournalType, NoneIsNoJournal
      <4> QED BY <1>1, <3>1, <4>1 DEF EntriesAreKnown
    <3> QED BY <1>2, <3>1, <3>2
  <2>3. CASE DropRefresh(p)
    <3>1. UNCHANGED <<registry, bin>> /\ refresh # None /\ pc[p] = "drop"
      BY <1>1, <2>3 DEF DropRefresh, HandIsFull, files
    <3>2. CASE refresh.before # None
      BY <1>2, <3>1, <3>2
    <3>3. CASE refresh.before = None
      <4>1. registry = refresh.after /\ refresh \in Refresh /\ Sound(refresh)
            /\ \A n \in Looked \cap DOMAIN Expected(refresh) : bin[n] = Expected(refresh)[n]
        BY <2>3, <3>1, <3>3, DroppedTells
      <4>2. "pinset" \in Looked
        BY DEF IInv, UpdatesAreKnown, Looked, LeftBehind, Names, Pair
      <4>3. "pinset" \in DOMAIN Expected(refresh) /\ Expected(refresh)["pinset"] = refresh.after.cli
        BY DEF Expected, Pair
      <4> QED BY <3>1, <4>1, <4>2, <4>3 DEF Sound
    <3> QED BY <3>2, <3>3
  <2>4. CASE MarkRollingBack(p) \/ WriteCommitted(p)
    <3>1. refresh \in Refresh /\ refresh # None /\ UNCHANGED <<registry, bin>>
      BY <1>1, <2>4, PartsType DEF MarkRollingBack, WriteCommitted, HandIsFull, files
    <3>2. refresh'.before = refresh.before /\ refresh' # None
      <4>1. PICK x \in {"rolling-back", "committed"} : refresh' = [refresh EXCEPT !.phase = x]
        BY <2>4 DEF MarkRollingBack, WriteCommitted
      <4>2. refresh' \in Refresh
        BY <3>1, <4>1, JournalType
      <4> QED BY <3>1, <4>1, <4>2, NoneIsNoJournal DEF Refresh
    <3> QED BY <1>2, <3>1, <3>2
  <2>5. CASE WriteRefresh(p)
    <3>1. refresh = None /\ UNCHANGED <<registry, bin>>
      BY <1>1, <2>5 DEF WriteRefresh, HandIsFull, files
    <3> QED BY <1>2, <3>1
  <2>6. CASE UNCHANGED <<refresh, registry, bin>>
    BY <1>2, <2>6
  <2> QED BY <1>5, <2>1, <2>2, <2>3, <2>4, <2>5, <2>6, RefreshStays
<1> QED BY <1>4, <1>6, <1>7, <1>8 DEF UnrecordedStays

-----------------------------------------------------------------------------
(* The pair of executables.                                                *)

\* Where only updates change the pair, an update leaves it known.
LEMMA PairKept ==
    ASSUME IInv, NEW p \in Procs, Step(p), from' = from, from # Places, NEW place \in Places,
           PairIsKnown(place), PublishEntry(p) => PairAt(place)' = PairAt(place)
    PROVE  PairIsKnown(place)'
<1> USE DEF At
<1>1. /\ TypeOK /\ HandIsFull(p) /\ UpdateIsKnown(p) /\ StepOfOp(p) /\ LocksAreHeld
  BY DEF IInv, UpdatesAreKnown
<1>2. UNCHANGED files => \A x \in Places : PairAt(x)' = PairAt(x)
  BY DEF PairAt, files
\* One file of the pair is changed only while the journal says prepared.
<1>3. CASE Swap(p) \/ Undo(p)
  <2>1. /\ update \in Update /\ update.dest \in Places /\ update.phase = "prepared"
        /\ UNCHANGED update /\ update # None
        /\ \/ UNCHANGED files
           \/ \E n \in Pair, release \in Releases : Put(update.dest, n, release)
    BY <1>1, <1>3, FileSwapped, FileUndone, NoneIsNoJournal
       DEF journals, UpdateIsKnown, SwapSteps, UndoSteps
  <2>2. CASE update.dest = place
    BY <2>1, <2>2 DEF PairIsKnown
  <2>3. CASE update.dest # place
    <3>1. PairAt(place)' = PairAt(place)
      BY <1>1, <1>2, <2>1, <2>3, PutPair
    <3> QED BY <2>1, <2>3, <3>1 DEF PairIsKnown
  <2> QED BY <2>2, <2>3
<1>4. CASE ~Swap(p) /\ ~Undo(p)
  <2>1. PairAt(place)' = PairAt(place)
    BY <1>2, <1>4, FilesStay
  <2>2. CASE UNCHANGED update
    BY <2>1, <2>2 DEF PairIsKnown
  <2>3. CASE update = None /\ ~UNCHANGED update
    <3>1. TakeUpdate(p) /\ ~Return(p)
      <4>1. TakeUpdate(p)
        BY <1>1, <2>3, UpdateStays DEF WritePrepared, CommitUpdate, Undone, DropUpdate,
           UpdateIsKnown, SwapSteps, UndoSteps
      <4>2. pc'[p] = "prepared"
        BY <1>1, <2>3, <4>1 DEF TakeUpdate, Goto, TypeOK
      <4> QED BY <1>1, <4>1, <4>2, Idle
    <3>2. Matched(PairAt(place))
      BY <2>3 DEF PairIsKnown
    <3>3. /\ update'.dest = hand[p].place /\ update'.phase = "preparing" /\ update' # None
          /\ update'.backup = PairAt(hand[p].place)
      BY <1>1, <3>1, TookUpdate
    <3> QED BY <2>1, <3>2, <3>3 DEF PairIsKnown
  <2>4. CASE update # None /\ update' # None /\ ~UNCHANGED update
    <3>1. update'.dest = update.dest /\ update'.backup = update.backup
      BY <1>1, <2>4, BackupStays
    <3>2. CASE WritePrepared(p) /\ update'.phase = "prepared"
      BY <2>1, <2>4, <3>1, <3>2 DEF PairIsKnown
    <3>3. CASE CommitUpdate(p) /\ update'.phase = "committed"
      <4>1. \A n \in Pair : PairAt(update.dest)[n] = hand[p].next
        BY <1>1, <3>3 DEF CommitUpdate, UpdateIsKnown
      <4>2. Matched(PairAt(update.dest))
        BY <4>1 DEF Matched, Pair
      <4> QED BY <2>1, <2>4, <3>1, <3>3, <4>2 DEF PairIsKnown
    <3>4. CASE Undone(p) /\ update'.phase = "committed"
      <4>1. PairAt(update.dest) = update.backup
        BY <1>1, <3>4 DEF Undone, UpdateIsKnown
      <4> QED BY <2>1, <2>4, <3>1, <3>4, <4>1 DEF PairIsKnown
    <3> QED BY <1>1, <2>4, <3>2, <3>3, <3>4, BackupStays
  <2>5. CASE update # None /\ update' = None
    <3>1. update \in Update
      BY <1>1, <2>5, PartsType
    <3>2. CASE Undone(p) \/ (Fails(p) /\ pc[p] = "prepared")
      <4>1. PairAt(update.dest) = update.backup
        BY <1>1, <3>2 DEF Undone, UpdateIsKnown
      <4> QED BY <2>1, <2>5, <4>1 DEF PairIsKnown
    <3>3. CASE DropUpdate(p)
      <4>1. update.phase # "prepared"
        BY <1>1, <2>5, <3>3 DEF DropUpdate, UpdateIsKnown, HoldsRepair, StepOfOp, UndoSteps
      <4>2. Matched(PairAt(place))
        BY <2>5, <3>1, <4>1 DEF PairIsKnown, Update
      <4> QED BY <2>1, <2>5, <4>2 DEF PairIsKnown
    <3> QED BY <1>1, <2>5, <3>2, <3>3, BackupStays DEF Undone
  <2> QED BY <2>2, <2>3, <2>4, <2>5
<1> QED BY <1>3, <1>4

\* A refresh of the pair in bin from itself replaces other entries only.
LEMMA NoPairPublished ==
    ASSUME IInv, NEW p \in Procs, PublishEntry(p), "package" \notin from
    PROVE  PairAt("bin")' = PairAt("bin")
<1>1. TypeOK /\ HandIsFull(p) /\ (refresh # None => Sound(refresh)) /\ BinIsKnown
  BY DEF IInv, PairsAreKnown
<1>2. refresh # None /\ Valid(refresh)
  BY <1>1 DEF PublishEntry, At, HandIsFull, BinIsKnown
<1>3. \A n \in Pair : n \notin DOMAIN refresh.entries
  BY <1>1, <1>2 DEF BinIsKnown
<1>4. \A n \in Pair : bin'[n] = bin[n]
  BY <1>1, <1>3, EntryPublished DEF Names
<1> QED BY <1>4 DEF PairAt

LEMMA BinKept ==
    ASSUME IInv, NEW p \in Procs, Step(p), from' = from, "package" \notin from
    PROVE  BinIsKnown'
<1> USE DEF At, Goto
<1>1. /\ TypeOK /\ LocksAreHeld /\ HandIsFull(p) /\ PlanIsKnown(p) /\ UpdateIsKnown(p)
      /\ StepOfOp(p) /\ (refresh # None => Sound(refresh)) /\ BinIsKnown
      /\ \A q \in Procs : HandIsFull(q)
  BY DEF IInv, UpdatesAreKnown, PairsAreKnown
<1>2. pc \in [Procs -> Steps] /\ hand \in [Procs -> Hand]
  BY <1>1 DEF TypeOK
<1>3. \A q \in Procs \ {p} : pc'[q] = pc[q] /\ hand'[q] = hand[q]
  BY <1>1, OthersStay
<1>4. PairAt("bin")' \in TwoFiles
  <2>1. PairAt("bin") \in TwoFiles
    BY <1>1 DEF BinIsKnown
  <2>2. CASE Swap(p) \/ Undo(p)
    <3>1. \A n \in Pair : PairAt("bin")'[n] \in Releases
      <4>1. UNCHANGED files => PairAt("bin")' = PairAt("bin")
        BY DEF files, PairAt
      <4> QED BY <1>1, <2>1, <2>2, <4>1, FileSwapped, FileUndone, PutPair DEF TwoFiles, Places
    <3> QED BY <3>1 DEF PairAt, TwoFiles
  <2>3. CASE PublishEntry(p)
    BY <2>1, <2>3, NoPairPublished
  <2> QED BY <2>1, <2>2, <2>3, FilesStay DEF PairAt, files
<1>5. refresh' # None /\ Valid(refresh)' => DOMAIN refresh'.entries \cap Pair = {}
  <2>1. CASE UNCHANGED refresh
    BY <1>1, <2>1 DEF BinIsKnown, Valid, Expected
  <2>2. CASE MarkRollingBack(p) \/ WriteCommitted(p)
    <3>1. refresh \in Refresh /\ refresh # None
      BY <1>1, <2>2, PartsType DEF MarkRollingBack, WriteCommitted, HandIsFull
    <3>2. PICK x \in {"rolling-back", "committed"} : refresh' = [refresh EXCEPT !.phase = x]
      BY <2>2 DEF MarkRollingBack, WriteCommitted
    <3>3. Valid(refresh)' = Valid(refresh)
      <4>1. Valid([refresh EXCEPT !.phase = x]) = Valid(refresh)
        BY <3>1, JournalType
      <4> QED BY <3>2, <4>1 DEF Valid, Expected
    <3>4. refresh'.entries = refresh.entries
      BY <3>1, <3>2 DEF Refresh
    <3> QED BY <1>1, <3>1, <3>3, <3>4 DEF BinIsKnown
  <2>3. CASE WriteRefresh(p)
    <3>1. pc[p] = "journal" /\ refresh' = hand[p].plan
      BY <2>3 DEF WriteRefresh
    <3>2. Valid(refresh)' = Valid(hand[p].plan)
      BY <3>1 DEF Valid, Expected
    <3> QED BY <1>1, <3>1, <3>2 DEF BinIsKnown
  <2> QED BY <2>1, <2>2, <2>3, RefreshStays DEF DropRefresh
<1>6. ASSUME NEW q \in Procs, Planned(q)'
      PROVE  \A n \in Pair \cap DOMAIN hand'[q].plan.entries : hand'[q].plan.entries[n] # None
  <2>1. ASSUME hand'[q].plan.entries = hand[q].plan.entries, Planned(q)
        PROVE  \A n \in Pair \cap DOMAIN hand'[q].plan.entries : hand'[q].plan.entries[n] # None
    BY <1>1, <2>1 DEF BinIsKnown
  <2>2. CASE q # p
    BY <1>3, <1>6, <2>1, <2>2 DEF Planned
  <2>3. CASE q = p /\ ~Plan(p) /\ ~Stage(p)
    BY <1>1, <1>6, <2>1, <2>3, PlanStays
  <2>4. CASE q = p /\ Stage(p)
    <3>1. Planned(p)
      BY <1>1, <2>4 DEF Stage, HandIsFull, Planned, PublishSteps
    <3> QED BY <1>1, <2>1, <2>4, <3>1, StageSays
  <2>5. CASE q = p /\ Plan(p)
    <3>1. ~Return(p) /\ ~Published(p)
      BY <1>1, <1>2, <1>6, <2>5, Idle DEF Published, Planned, PublishSteps
    <3>2. PICK commands \in SUBSET Commands :
            NewPlan(p, commands) \in Refresh /\ KeepPlan(p, NewPlan(p, commands))
      BY <1>1, <2>5, <3>1, PlanCases
    <3> DEFINE r == NewPlan(p, commands)
    <3>3. \A n \in DOMAIN r.entries : r.entries[n] = bin[n]
      BY PlanSays
    <3>4. hand'[p].plan = r
      <4> HIDE DEF r
      <4> QED BY <1>2, <3>2 DEF KeepPlan, Hand, r
    <3>5. \A n \in Pair : bin[n] \in Releases
      BY <1>1 DEF BinIsKnown, PairAt, TwoFiles
    <3> HIDE DEF r
    <3> QED BY <2>5, <3>3, <3>4, <3>5
  <2> QED BY <2>2, <2>3, <2>4, <2>5
<1>7. ASSUME NEW q \in Procs, pc'[q] = "journal", Valid(hand[q].plan)'
      PROVE  DOMAIN hand'[q].plan.entries \cap Pair = {}
  <2>1. CASE q # p
    <3>1. pc[q] = "journal" /\ hand'[q] = hand[q]
      BY <1>3, <1>7, <2>1
    <3>2. Valid(hand[q].plan)
      BY <1>7, <3>1 DEF Valid, Expected
    <3> QED BY <1>1, <3>1, <3>2 DEF BinIsKnown
  <2>2. CASE q = p
    <3> DEFINE r == hand'[p].plan
               old == hand[p].plan
    <3>1. Stage(p)
      BY <1>1, <1>7, <2>2, CameFrom
    <3>2. hand[p].place = "bin" /\ Planned(p)
      BY <1>1, <3>1 DEF Stage, StepOfOp, HandIsFull, Planned, PublishSteps, TypeOK, Places
    <3>3. /\ r.entries = old.entries /\ Expected(r) = Expected(old)
          /\ r.staged = PairAt(hand[p].place)
          /\ r.old = [n \in DOMAIN old.entries |-> bin[n]]
          /\ old \in Refresh
      BY <1>1, <3>1, StageSays
    <3>4. Sound(old) /\ \A n \in Pair \cap DOMAIN old.entries : old.entries[n] # None
      BY <1>1, <3>2 DEF BinIsKnown, PlanIsKnown
    <3>5. Valid(r)
      BY <1>7, <2>2 DEF Valid, Expected
    <3> SUFFICES ASSUME NEW n \in Pair, n \in DOMAIN old.entries PROVE FALSE
      BY <2>2, <3>3
    <3>6. bin[n] = Expected(old)[n]
      BY <3>2, <3>3, <3>5 DEF Valid, PairAt
    <3>7. bin[n] = old.entries[n]
      BY <3>3, <3>4, <3>5 DEF Valid
    <3> QED BY <3>4, <3>6, <3>7 DEF Sound
  <2> QED BY <2>1, <2>2
<1>8. ASSUME NEW q \in Procs, pc'[q] \in {"mark", "entries"}
      PROVE  Valid(refresh)'
  <2>1. ASSUME UNCHANGED refresh, Valid(refresh) PROVE Valid(refresh)'
    BY <2>1 DEF Valid, Expected
  <2>2. CASE q # p
    <3>1. pc[q] \in {"mark", "entries"}
      BY <1>3, <1>8, <2>2
    <3>2. publishing = q
      BY <1>1, <3>1 DEF LocksAreHeld, PublishSteps
    <3>3. UNCHANGED refresh
      BY <1>1, <2>2, <3>2, RefreshIsLocked DEF LocksAreHeld
    <3> QED BY <1>1, <2>1, <3>1, <3>3 DEF BinIsKnown
  <2>3. CASE q = p
    <3>1. CASE TakeShims(p) /\ Valid(refresh)
      BY <2>1, <3>1 DEF TakeShims, journals
    <3>2. CASE PublishEntry(p)
      BY <1>1, <2>1, <3>2 DEF PublishEntry, journals, BinIsKnown
    <3>3. CASE CheckLive(p) /\ Valid(refresh)
      BY <2>1, <3>3 DEF CheckLive, journals
    <3>4. CASE MarkRollingBack(p)
      <4>1. /\ refresh \in Refresh /\ Valid(refresh)
            /\ refresh' = [refresh EXCEPT !.phase = "rolling-back"]
        BY <1>1, <3>4, PartsType DEF MarkRollingBack, HandIsFull, BinIsKnown
      <4>2. Valid([refresh EXCEPT !.phase = "rolling-back"])
        BY <4>1, JournalType
      <4> QED BY <4>1, <4>2 DEF Valid, Expected
    <3> QED BY <1>1, <1>8, <2>3, <3>1, <3>2, <3>3, <3>4, CameFrom
  <2> QED BY <2>2, <2>3
<1> QED BY <1>4, <1>5, <1>6, <1>7, <1>8 DEF BinIsKnown

LEMMA MatchedAlike ==
    ASSUME NEW e, NEW f, \A n \in Pair : e[n] = f[n], Matched(f)
    PROVE  Matched(e)
  BY DEF Matched, Pair

\* The pair that a command saw when it began to publish.
LEMMA SeenStays ==
    ASSUME IInv, NEW p \in Procs, Step(p), pc[p] \in PublishSteps, pc'[p] \in PublishSteps
    PROVE  hand'[p].seen = hand[p].seen /\ hand'[p].op = hand[p].op
<1> USE DEF At, Goto
<1>1. TypeOK /\ pc \in [Procs -> Steps] /\ hand \in [Procs -> Hand]
  BY DEF IInv, TypeOK
<1>2. ~Return(p) /\ ~Published(p)
  BY <1>1, Idle DEF Published, PublishSteps
<1>3. CASE Publishing(p)
  <2>1. CASE Plan(p)
    BY <1>1, <1>2, <2>1 DEF Plan, KeepPlan, Hand
  <2>2. CASE Stage(p)
    BY <1>1, <2>2 DEF Stage, Hand
  <2>3. ~TakeShims(p)
    BY DEF TakeShims, PublishSteps
  <2> QED BY <1>2, <1>3, <2>1, <2>2, <2>3 DEF Publishing, MarkRollingBack, PublishEntry,
        WriteRegistry, WriteCommitted, DropRefresh, WriteRefresh, CheckLive
<1>4. CASE ~Publishing(p)
  BY <1>2, <1>4 DEF PublishSteps, Updating, TakeUpdate, WritePrepared, Swap, CommitUpdate,
     Repairing, TakeRepair, Undo, Undone, DropUpdate, Start, Fails, Die
<1> QED BY <1>3, <1>4

LEMMA SeenIsMatched ==
    ASSUME IInv, NEW p \in Procs, Step(p), from' = from, "bin" \notin from, NEW q \in Procs,
           pc'[q] \in PublishSteps, hand'[q].op = "repair" \/ ~LeftBehind'
    PROVE  Matched(hand'[q].seen)
<1> USE DEF At, Goto
<1>1. /\ TypeOK /\ LocksAreHeld /\ HandIsFull(p) /\ UpdateIsKnown(p)
      /\ \A s \in Procs : StepOfOp(s) /\ UpdateIsKnown(s)
      /\ PublishedIsMatched /\ from # Places
  BY DEF IInv, UpdatesAreKnown, PairsAreKnown, Places
<1>2. CASE q # p
  <2>1. pc'[q] = pc[q] /\ hand'[q] = hand[q]
    BY <1>1, <1>2, OthersStay
  <2>2. publishing = q /\ publishing # None
    BY <1>1, <2>1 DEF LocksAreHeld
  <2>3. LeftBehind => LeftBehind'
    BY <1>1, <1>2, <2>2, PublisherAlone
  <2> QED BY <1>1, <2>1, <2>3 DEF PublishedIsMatched
<1>3. CASE q = p /\ pc[p] \in PublishSteps
  <2>1. hand'[p].seen = hand[p].seen /\ hand'[p].op = hand[p].op
    BY <1>3, SeenStays
  <2>2. LeftBehind' <=> LeftBehind
    BY <1>3, PublishingFrame DEF PublishSteps
  <2> QED BY <1>1, <1>3, <2>1, <2>2 DEF PublishedIsMatched
<1>4. CASE q = p /\ pc[p] \notin PublishSteps
  <2>1. TakeShims(p) /\ ~Return(p)
    BY <1>1, <1>4, EntersPublishing
  <2>2. /\ hand'[p].seen = PairAt(hand[p].place) /\ hand'[p].op = hand[p].op
        /\ pc[p] = "shims" /\ updating = None /\ updating' = None /\ UNCHANGED update
        /\ hand[p].place = "package"
    BY <1>1, <2>1 DEF TakeShims, TypeOK, Hand, journals, StepOfOp, Places
  <2>3. PairIsKnown("package")
    BY <1>1 DEF IInv, PairsAreKnown
  <2>4. CASE update = None
    BY <1>4, <2>2, <2>3, <2>4 DEF PairIsKnown
  <2>5. CASE update # None
    <3>1. update.dest = "package" /\ update \in Update
      BY <1>1, <2>5, PartsType DEF IInv, UpdatesAreKnown, TypeOK, Places
    <3>2. update.phase # "prepared"
      <4>1. CASE hand'[p].op = "repair"
        BY <1>1, <2>2, <2>5, <4>1 DEF UpdateIsKnown, HoldsRepair, UndoSteps
      <4>2. CASE ~LeftBehind'
        <5>1. PICK s \in Procs : pc'[s] = "drop-update"
          BY <2>2, <2>5, <4>2 DEF LeftBehind, Dropping
        <5>2. s # p /\ pc[s] = "drop-update"
          BY <1>1, <1>4, <5>1, OthersStay DEF PublishSteps
        <5> QED BY <1>1, <2>5, <5>2 DEF UpdateIsKnown, HoldsRepair, StepOfOp, UndoSteps
      <4> QED BY <1>4, <4>1, <4>2
    <3>3. Matched(PairAt("package"))
      BY <2>3, <2>5, <3>1, <3>2 DEF PairIsKnown, Update
    <3> QED BY <1>4, <2>2, <3>3
  <2> QED BY <2>4, <2>5
<1> QED BY <1>2, <1>3, <1>4

LEMMA BinIsMatched ==
    ASSUME IInv, NEW p \in Procs, Step(p), from' = from, "bin" \notin from, ~LeftBehind'
    PROVE  /\ refresh' = None => Matched(bin')
           /\ refresh' # None =>
                Matched(Before(refresh)') /\ refresh'.after.cli = refresh'.after.shim
<1> USE DEF At, Goto
<1>1. /\ TypeOK /\ LocksAreHeld /\ HandIsFull(p) /\ PlanIsKnown(p) /\ UpdateIsKnown(p)
      /\ StepOfOp(p) /\ PublishedIsMatched /\ (refresh # None => Sound(refresh))
  BY DEF IInv, UpdatesAreKnown, PairsAreKnown
<1>2. /\ update # None => update.dest # "bin"
      /\ update' # None => update'.dest # "bin"
      /\ Looked = Names /\ Looked' = Names
  <2>1. update # None => update.dest # "bin"
    BY DEF IInv, UpdatesAreKnown
  <2>2. update' # None => update'.dest # "bin"
    BY UpdateThere
  <2> QED BY <2>1, <2>2 DEF Looked, LeftBehind
<1>3. Pair \subseteq Names
  BY DEF Names
<1>4. ~PublishEntry(p) => UNCHANGED bin
  <2>1. CASE Swap(p)
    BY <1>1, <1>2, <2>1, FileSwapped, PutPair, NoneIsNoJournal
  <2>2. CASE Undo(p)
    BY <1>1, <1>2, <2>2, FileUndone, PutPair, NoneIsNoJournal DEF files
  <2> QED BY <2>1, <2>2, FilesStay DEF files
\* Where no more of a refresh changes than its phase.
<1>5. ASSUME ~LeftBehind, UNCHANGED bin, \A n \in Names : Entry(n)' = Entry(n),
             \/ UNCHANGED refresh
             \/ /\ refresh # None /\ refresh' # None /\ refresh'.after = refresh.after
                /\ refresh'.entries = refresh.entries
      PROVE  /\ refresh' = None => Matched(bin')
             /\ refresh' # None =>
                Matched(Before(refresh)') /\ refresh'.after.cli = refresh'.after.shim
  <2>1. CASE refresh' = None
    BY <1>1, <1>5, <2>1 DEF PublishedIsMatched
  <2>2. CASE refresh' # None
    <3>1. refresh # None /\ refresh'.after = refresh.after /\ refresh'.entries = refresh.entries
      BY <1>5, <2>2
    <3>2. Matched(Before(refresh)) /\ refresh.after.cli = refresh.after.shim
      BY <1>1, <1>5, <3>1 DEF PublishedIsMatched
    <3>3. \A n \in Pair : Before(refresh)'[n] = Before(refresh)[n]
      BY <1>3, <1>5, <3>1 DEF Before
    <3> QED BY <2>2, <3>1, <3>2, <3>3, MatchedAlike
  <2> QED BY <2>1, <2>2
<1>6. CASE pc[p] \notin PublishSteps
  <2>1. ~LeftBehind
    BY <1>6, LeftStays
  <2>2. \A n \in Names : Entry(n)' = Entry(n)
    BY <1>2, <1>6, EntryStays
  <2>3. UNCHANGED refresh /\ UNCHANGED bin
    BY <1>1, <1>4, <1>6, RefreshIsLocked DEF PublishEntry, PublishSteps
  <2> QED BY <1>5, <2>1, <2>2, <2>3
<1>7. CASE pc[p] \in PublishSteps /\ pc'[p] = "drop-update"
  <2>1. /\ hand[p].op = "repair" /\ refresh' = None /\ UNCHANGED bin
        /\ Matched(hand[p].seen) /\ hand[p].seen \in TwoFiles
        /\ \/ Plan(p) /\ \E commands \in SUBSET Commands : NothingToDo(NewPlan(p, commands))
           \/ DropRefresh(p) /\ hand[p].plan # None
    <3>1. /\ hand[p].op = "repair" /\ UNCHANGED bin
          /\ \/ Plan(p) /\ \E commands \in SUBSET Commands : NothingToDo(NewPlan(p, commands))
             \/ DropRefresh(p) /\ hand[p].plan # None
      BY <1>1, <1>7, ToDropUpdate DEF PublishSteps, files
    <3>2. Matched(hand[p].seen) /\ hand[p].seen \in TwoFiles
      BY <1>1, <1>7, <3>1 DEF PublishedIsMatched, HandIsFull
    <3>3. refresh' = None
      BY <1>1, <3>1 DEF Plan, DropRefresh, journals, HandIsFull
    <3> QED BY <3>1, <3>2, <3>3
  <2>2. \A n \in Pair : bin[n] = hand[p].seen[n]
    <3>1. CASE Plan(p) /\ \E commands \in SUBSET Commands : NothingToDo(NewPlan(p, commands))
      BY <1>1, <3>1, NothingTells DEF Plan, Pair
    <3>2. CASE DropRefresh(p) /\ hand[p].plan # None
      <4>1. /\ refresh \in Refresh
            /\ \A n \in Names \cap DOMAIN Expected(refresh) : bin[n] = Expected(refresh)[n]
        BY <1>1, <2>1, <3>2, DroppedTells DEF LookedBy, HandIsFull
      <4>2. /\ hand[p].plan \in Refresh /\ refresh = [hand[p].plan EXCEPT !.phase = refresh.phase]
            /\ hand[p].plan.after.cli = hand[p].seen["pinset"]
            /\ hand[p].plan.after.shim = hand[p].seen["pinset-shim"]
        BY <1>1, <3>2, PartsType DEF DropRefresh, HandIsFull, Planned, PublishSteps
      <4>3. refresh.after = hand[p].plan.after
        BY <4>2 DEF Refresh
      <4> QED BY <1>3, <4>1, <4>2, <4>3 DEF Expected, Pair
    <3> QED BY <2>1, <3>1, <3>2
  <2> QED BY <2>1, <2>2, MatchedAlike
<1>8. CASE pc[p] \in PublishSteps /\ pc'[p] # "drop-update"
  <2>1. /\ ~LeftBehind /\ \A n : Entry(n) = bin[n] /\ Entry(n)' = bin'[n]
        /\ LookedBy(p) = Names
    BY <1>2, <1>8, PublishingFrame
  <2>2. CASE UNCHANGED <<bin, refresh>>
    BY <1>5, <2>1, <2>2
  <2>3. CASE MarkRollingBack(p) \/ WriteCommitted(p)
    <3>1. refresh \in Refresh /\ refresh # None /\ UNCHANGED bin
      BY <1>1, <2>3, PartsType DEF MarkRollingBack, WriteCommitted, HandIsFull, files
    <3>2. refresh'.after = refresh.after /\ refresh'.entries = refresh.entries /\ refresh' # None
      <4>1. PICK x \in {"rolling-back", "committed"} : refresh' = [refresh EXCEPT !.phase = x]
        BY <2>3 DEF MarkRollingBack, WriteCommitted
      <4>2. refresh' \in Refresh
        BY <3>1, <4>1, JournalType
      <4> QED BY <3>1, <4>1, <4>2, NoneIsNoJournal DEF Refresh
    <3> QED BY <1>5, <2>1, <3>1, <3>2
  <2>4. CASE PublishEntry(p)
    <3>1. /\ refresh # None /\ UNCHANGED refresh
          /\ \A n \in Names : bin'[n] = bin[n] \/ n \in DOMAIN refresh.entries
      BY <1>1, <2>4, EntryPublished, NoneIsNoJournal DEF journals
    <3>2. \A n \in Pair : Before(refresh)'[n] = Before(refresh)[n]
      BY <1>3, <2>1, <3>1 DEF Before
    <3>3. Matched(Before(refresh)) /\ refresh.after.cli = refresh.after.shim
      BY <1>1, <2>1, <3>1 DEF PublishedIsMatched
    <3> QED BY <3>1, <3>2, <3>3, MatchedAlike
  <2>5. CASE DropRefresh(p)
    <3>1. refresh # None /\ refresh' = None /\ UNCHANGED bin
      BY <1>1, <2>5 DEF DropRefresh, HandIsFull, files
    <3>2. Matched(Before(refresh)) /\ refresh.after.cli = refresh.after.shim
      BY <1>1, <2>1, <3>1 DEF PublishedIsMatched
    <3>3. CASE \A n \in Names \cap DOMAIN Expected(refresh) : bin[n] = Expected(refresh)[n]
      <4>1. bin["pinset"] = refresh.after.cli /\ bin["pinset-shim"] = refresh.after.shim
        BY <1>3, <3>3 DEF Expected, Pair
      <4> QED BY <3>1, <3>2, <4>1 DEF Matched
    <3>4. CASE \A n \in Names : bin[n] = Before(refresh)[n]
      BY <1>3, <3>1, <3>2, <3>4, MatchedAlike
    <3> QED BY <1>2, <2>5, <3>3, <3>4, DroppedTells
  <2>6. CASE WriteRefresh(p)
    <3> DEFINE r == hand[p].plan
    <3>1. /\ pc[p] = "journal" /\ refresh = None /\ refresh' = r /\ r # None /\ UNCHANGED bin
          /\ hand[p].seen \in TwoFiles /\ r.after.cli = hand[p].seen["pinset"]
          /\ r.after.shim = hand[p].seen["pinset-shim"]
      BY <1>1, <2>6 DEF WriteRefresh, HandIsFull, files, Planned, PublishSteps
    <3>2. Matched(hand[p].seen) /\ Matched(bin)
      BY <1>1, <1>8, <2>1, <3>1 DEF PublishedIsMatched
    <3>3. r.after.cli = r.after.shim
      BY <3>1, <3>2 DEF Matched, TwoFiles, Pair
    <3>4. \A n \in Names \cap DOMAIN r.entries : bin[n] = r.entries[n]
      BY <1>1, <2>1, <3>1 DEF PlanIsKnown
    <3>5. \A n \in Pair : Before(refresh)'[n] = bin[n]
      BY <1>3, <2>1, <3>1, <3>4 DEF Before
    <3> QED BY <3>1, <3>2, <3>3, <3>5, MatchedAlike
  <2> QED BY <1>4, <2>2, <2>3, <2>4, <2>5, <2>6, RefreshStays
<1> QED BY <1>6, <1>7, <1>8

LEMMA PairsKept ==
    ASSUME IInv, NEW p \in Procs, Step(p), from' = from
    PROVE  PairsAreKnown'
<1>1. PairsAreKnown /\ TypeOK
  BY DEF IInv
<1>2. from # Places => PairIsKnown("package")'
  <2> SUFFICES ASSUME from # Places PROVE PairIsKnown("package")'
    OBVIOUS
  <2>1. PublishEntry(p) => PairAt("package")' = PairAt("package")
    BY DEF PublishEntry, PairAt
  <2> QED BY <1>1, <2>1, PairKept DEF PairsAreKnown, Places
<1>3. "package" \notin from => PairIsKnown("bin")' /\ BinIsKnown'
  <2> SUFFICES ASSUME "package" \notin from PROVE PairIsKnown("bin")' /\ BinIsKnown'
    OBVIOUS
  <2>1. from # Places
    BY DEF Places
  <2>2. PairIsKnown("bin")'
    BY <1>1, <2>1, PairKept, NoPairPublished DEF PairsAreKnown, Places
  <2> QED BY <2>2, BinKept
<1>4. "bin" \notin from => PublishedIsMatched'
  BY SeenIsMatched, BinIsMatched DEF PublishedIsMatched
<1> QED BY <1>2, <1>3, <1>4 DEF PairsAreKnown

-----------------------------------------------------------------------------
(* The invariant.                                                          *)

LEMMA StepKeeps ==
    ASSUME IInv, NEW p \in Procs, Step(p), from' = from
    PROVE  IInv'
<1>1. /\ TypeOK /\ LocksAreHeld /\ (refresh # None => Sound(refresh))
      /\ \A q \in Procs : StepOfOp(q) /\ HandIsFull(q) /\ PlanIsKnown(q) /\ UpdateIsKnown(q)
  BY DEF IInv, UpdatesAreKnown
<1>2. TypeOK'
  BY <1>1, StartType, PublishingType, UpdatingType, RepairingType, OtherType
<1>3. LocksAreHeld'
  BY <1>1, LocksKept
<1>4. \A q \in Procs : StepOfOp(q)'
  BY <1>1, StepOfOpKept, OthersStay DEF StepOfOp
<1>5. \A q \in Procs : HandIsFull(q)'
  BY <1>1, HandIsFullKept
<1>6. \A q \in Procs : PlanIsKnown(q)' /\ PublishedIsKnown(q)'
  BY PlanOfOthers, PlanOfOwn
<1>7. refresh' # None => Sound(refresh)'
  BY SoundKept
<1> QED BY <1>2, <1>3, <1>4, <1>5, <1>6, <1>7, EntriesKept, UnrecordedKept, UpdatesKept, PairsKept
        DEF IInv

\* The package manager acts while no command runs.
LEMMA UpgradeKeeps ==
    ASSUME IInv, Upgrade, from' = from
    PROVE  IInv'
<1>1. /\ UNCHANGED <<bin, journals, locks, pc, hand>> /\ \A p \in Procs : pc[p] = "idle"
      /\ update # None => update.dest = "bin"
      /\ \E release \in Releases : package' = [n \in Pair |-> release]
  BY DEF Upgrade, At
<1>2. TypeOK /\ TypeOK'
  BY UpgradeType DEF IInv
<1>3. LocksAreHeld'
  BY <1>1 DEF IInv, LocksAreHeld, HoldsUpdate, HoldsRepair, locks
<1>4. \A p \in Procs :
        (StepOfOp(p) /\ HandIsFull(p) /\ PlanIsKnown(p) /\ PublishedIsKnown(p) /\ UpdateIsKnown(p))'
  BY <1>1 DEF IInv, StepOfOp, HandIsFull, PlanIsKnown, PublishedIsKnown, UpdateIsKnown, Planned,
     HoldsRepair, PublishSteps, SwapSteps, UndoSteps
<1>5. /\ LeftBehind' <=> LeftBehind
      /\ Looked' = Looked /\ \A n : Entry(n)' = Entry(n)
  BY <1>1 DEF LeftBehind, Dropping, Looked, Entry, journals, locks
<1>6. (refresh' # None => Sound(refresh)') /\ EntriesAreKnown'
  BY <1>1, <1>5, EntriesStayKnown DEF IInv, Sound, Expected, journals
<1>7. UnrecordedStays'
  BY <1>1 DEF IInv, UnrecordedStays, RecordsItsCli, Planned, journals
<1>8. UpdatesAreKnown'
  BY <1>1, <1>4 DEF IInv, UpdatesAreKnown, journals
<1>9. PairsAreKnown'
  <2>1. PairsAreKnown
    BY DEF IInv
  <2>2. Matched(package')
    BY <1>1 DEF Matched, Pair
  <2>3. PairAt("package")' = package'
    BY <1>2, PairAtType DEF PairAt, TypeOK, TwoFiles
  <2>4. PairIsKnown("package")'
    BY <1>1, <2>2, <2>3 DEF PairIsKnown, journals
  <2>5. PairAt("bin")' = PairAt("bin") /\ UNCHANGED <<update, refresh>>
    BY <1>1 DEF PairAt, journals
  <2>6. PairIsKnown("bin") => PairIsKnown("bin")'
    BY <2>5 DEF PairIsKnown
  <2>7. BinIsKnown => BinIsKnown'
    <3>1. Valid(refresh)' = Valid(refresh)
      BY <2>5 DEF Valid, Expected
    <3> QED BY <1>1, <2>5, <3>1 DEF BinIsKnown, Planned, PublishSteps
  <2>8. PublishedIsMatched => PublishedIsMatched'
    <3>1. Before(refresh)' = Before(refresh)
      BY <1>5, <2>5 DEF Before
    <3> QED BY <1>1, <1>5, <2>5, <3>1 DEF PublishedIsMatched, PublishSteps
  <2> QED BY <2>1, <2>4, <2>6, <2>7, <2>8 DEF PairsAreKnown
<1> QED BY <1>2, <1>3, <1>4, <1>6, <1>7, <1>8, <1>9 DEF IInv

LEMMA NextKeeps ==
    ASSUME IInv, [Next]_vars
    PROVE  IInv'
<1>1. CASE UNCHANGED vars
  <2>1. UNCHANGED <<bin, package, from, registry, refresh, update, updating, repairing, publishing,
                    pc, hand, deaths, upgrades>>
    BY <1>1 DEF vars, files, journals, locks
  <2> USE <2>1
  <2>2. TypeOK' /\ LocksAreHeld'
    BY DEF IInv, TypeOK, LocksAreHeld, HoldsUpdate, HoldsRepair
  <2>3. \A p \in Procs : StepOfOp(p)' /\ HandIsFull(p)'
    BY DEF IInv, StepOfOp, HandIsFull, Planned
  <2>4. refresh' # None => Sound(refresh)'
    BY DEF IInv, Sound, Expected
  <2>5. LeftBehind' = LeftBehind /\ Looked' = Looked /\ \A n : Entry(n)' = Entry(n)
    BY DEF LeftBehind, Dropping, Looked, Entry
  <2>6. \A p \in Procs : PlanIsKnown(p)' /\ PublishedIsKnown(p)'
    <3> TAKE p \in Procs
    <3>1. PlanIsKnown(p) /\ PublishedIsKnown(p)
      BY DEF IInv
    <3>2. LookedBy(p)' = LookedBy(p) /\ Planned(p)' = Planned(p)
      BY <2>5 DEF LookedBy, Planned
    <3>3. \A n : Desired(p, n)' = Desired(p, n)
      BY DEF Desired, Expected
    <3>4. PlanIsKnown(p)'
      BY <3>1, <3>2 DEF PlanIsKnown, Sound, Expected
    <3>5. PublishedIsKnown(p)'
      BY <3>1, <3>2, <3>3 DEF PublishedIsKnown
    <3> QED BY <3>4, <3>5
  <2>7. EntriesAreKnown' /\ UnrecordedStays'
    BY <2>5, EntriesStayKnown DEF IInv, UnrecordedStays, RecordsItsCli, Planned, Sound, Expected
  <2>8. UpdatesAreKnown'
    BY DEF IInv, UpdatesAreKnown, UpdateIsKnown, PairAt, HoldsRepair
  <2>9. PairsAreKnown'
    <3>1. \A place : PairIsKnown(place)' = PairIsKnown(place)
      BY DEF PairIsKnown, PairAt
    <3>2. BinIsKnown' = BinIsKnown
      BY DEF BinIsKnown, PairAt, Planned, Valid, Expected
    <3>3. PublishedIsMatched' = PublishedIsMatched
      BY <2>5 DEF PublishedIsMatched, Before
    <3> QED BY <3>1, <3>2, <3>3 DEF IInv, PairsAreKnown
  <2> QED BY <2>2, <2>3, <2>4, <2>6, <2>7, <2>8, <2>9 DEF IInv
<1> QED BY <1>1, StepKeeps, UpgradeKeeps DEF Next

\* shims.rs and self_update.rs: what every step of a refresh and of an update knows of the files
\* holds in every state, with any number of commands killed before it.
THEOREM PublicationInvariantHolds == Spec => []IInv
<1>1. Init => IInv
  BY InitInv
<1>2. IInv /\ [Next]_vars => IInv'
  BY NextKeeps
<1> QED BY <1>1, <1>2, PTL DEF Spec

\* architecture.md and shims.rs: with no journal left, the entries are the ones that the
\* registry tells of, wherever the commands before were killed.
THEOREM PublishedEntriesAreWhole == Spec => []PublishedIsWhole
<1>1. IInv => PublishedIsWhole
  <2> SUFFICES ASSUME IInv, refresh = None, update = None PROVE TellsOf(registry, bin, Names)
    BY DEF PublishedIsWhole
  <2>1. updating = None
    BY DEF IInv, TypeOK, LocksAreHeld, HoldsUpdate, UpdatesAreKnown, UpdateIsKnown
  <2>2. Looked = Names /\ \A n : Entry(n) = bin[n]
    BY <2>1 DEF Looked, LeftBehind, Entry
  <2>3. TellsOf(registry, [n \in Names |-> Entry(n)], Looked)
    BY DEF IInv, EntriesAreKnown
  <2> QED BY <2>2, <2>3, TellsOfFewer
<1> QED BY <1>1, PublicationInvariantHolds, PTL

\* architecture.md: replacement never unlinks an old entry first.
THEOREM EntriesAreNeverUnlinked == Spec => EntriesStay
<1> DEFINE Stays == \A n \in Names : bin[n] # None /\ bin'[n] = None =>
                        refresh.phase = "rolling-back" /\ refresh.entries[n] = None
<1>1. IInv /\ [Next]_vars => [Stays]_vars
  <2> SUFFICES ASSUME IInv, Next, NEW n \in Names, bin[n] # None, bin'[n] = None
               PROVE  refresh.phase = "rolling-back" /\ refresh.entries[n] = None
    OBVIOUS
  <2>1. PICK p \in Procs : Step(p)
    BY DEF Next, Upgrade
  <2>2. TypeOK /\ HandIsFull(p) /\ UpdateIsKnown(p) /\ (refresh # None => Sound(refresh))
    BY DEF IInv, UpdatesAreKnown
  <2>3. ~Swap(p) /\ ~Undo(p)
    <3>1. CASE Swap(p)
      BY <2>2, <3>1, FileSwapped, PutPair
    <3>2. CASE Undo(p)
      BY <2>2, <3>2, FileUndone, PutPair DEF files
    <3> QED BY <3>1, <3>2
  <2>4. PublishEntry(p)
    BY <2>1, <2>3, FilesStay DEF files
  <2>5. /\ refresh \in Refresh /\ Sound(refresh) /\ n \in DOMAIN refresh.entries
        /\ bin'[n] = IF refresh.phase = "rolling-back" THEN refresh.entries[n]
                     ELSE Expected(refresh)[n]
    BY <2>2, <2>4, EntryPublished
  <2>6. Expected(refresh)[n] # None
    BY <2>5, JournalType DEF Sound, Registry
  <2> QED BY <2>5, <2>6
<1> QED BY <1>1, PublicationInvariantHolds, PTL DEF Spec, EntriesStay

-----------------------------------------------------------------------------
(* The other properties.                                                   *)

\* Which file of the pair a step changes, and to what.
LEMMA FileOfStep ==
    ASSUME IInv, NEW p \in Procs, Step(p), ~PublishEntry(p)
    PROVE  \/ UNCHANGED bin
           \/ /\ update # None /\ update \in Update /\ update.dest = "bin"
              /\ \E n \in Pair : \A m \in Names : m # n => bin'[m] = bin[m]
<1>1. TypeOK /\ UpdateIsKnown(p)
  BY DEF IInv, UpdatesAreKnown
<1>2. CASE Swap(p)
  <2>1. update \in Update /\ hand[p].next \in Releases /\ update # None
    BY <1>1, <1>2, FileSwapped DEF UpdateIsKnown, SwapSteps
  <2>2. PICK n \in Pair : Put(update.dest, n, hand[p].next)
    BY <1>1, <1>2, FileSwapped
  <2>3. update.dest \in Places
    BY <2>1 DEF Update
  <2> QED BY <1>1, <2>1, <2>2, <2>3, PutType DEF Places
<1>3. CASE Undo(p)
  <2>1. update \in Update /\ update.dest \in Places /\ update # None
    BY <1>1, <1>3, FileUndone DEF UpdateIsKnown, UndoSteps
  <2>2. CASE UNCHANGED files
    BY <2>2 DEF files
  <2>3. CASE ~UNCHANGED files
    <3>1. PICK n \in Pair : update.backup[n] \in Releases /\ Put(update.dest, n, update.backup[n])
      BY <1>1, <1>3, <2>3, FileUndone
    <3> QED BY <1>1, <2>1, <3>1, PutType DEF Places
  <2> QED BY <2>2, <2>3
<1>4. CASE ~Swap(p) /\ ~Undo(p)
  BY <1>4, FilesStay DEF files
<1> QED BY <1>2, <1>3, <1>4

\* A file that is not Pinset's is in no journal.
LEMMA ExternalStays ==
    ASSUME IInv, NEW p \in Procs, Step(p), NEW n \in Names, bin[n] = External
    PROVE  bin'[n] = External
<1>1. TypeOK /\ HandIsFull(p) /\ (refresh # None => Sound(refresh))
  BY DEF IInv
<1>2. CASE PublishEntry(p)
  BY <1>1, <1>2, EntryPublished DEF Sound
<1>3. CASE ~PublishEntry(p)
  <2>1. n \in Pair => ~(update # None /\ update.dest = "bin")
    BY DEF IInv, UpdatesAreKnown
  <2> QED BY <1>3, <2>1, FileOfStep
<1> QED BY <1>2, <1>3

\* A CLI that the registry does not record is not replaced from elsewhere.
LEMMA UnrecordedCliStays ==
    ASSUME IInv, NEW p \in Procs, Step(p), registry # None, registry.cli = None,
           from = {"package"}
    PROVE  bin'["pinset"] = bin["pinset"]
<1>1. TypeOK /\ HandIsFull(p) /\ (refresh # None => Sound(refresh)) /\ "pinset" \in Names
  BY DEF IInv, Names, Pair
<1>2. CASE PublishEntry(p)
  <2>1. refresh \in Refresh /\ Sound(refresh) /\ refresh # None
    BY <1>1, <1>2, EntryPublished, NoneIsNoJournal
  <2>2. registry \in {refresh.before, refresh.after} /\ RecordsItsCli(refresh)
    BY <2>1 DEF IInv, EntriesAreKnown, UnrecordedStays
  <2>3. "pinset" \notin DOMAIN refresh.entries
    BY <2>1, <2>2 DEF RecordsItsCli, Sound
  <2> QED BY <1>1, <1>2, <2>3, EntryPublished
<1>3. CASE ~PublishEntry(p)
  <2>1. ~(update # None /\ update.dest = "bin")
    BY DEF IInv, UpdatesAreKnown
  <2> QED BY <1>3, <2>1, FileOfStep
<1> QED BY <1>2, <1>3

\* architecture.md: a file that is not Pinset's, and a CLI that the registry does not record,
\* are never replaced, whatever was interrupted before.
THEOREM UnownedEntriesStay == Spec => NotOwnedStays
<1> DEFINE Stays == /\ \A n \in Names : bin[n] = External => bin'[n] = External
                    /\ registry # None /\ registry.cli = None /\ from = {"package"}
                         /\ bin["pinset"] # package["pinset"] => bin'["pinset"] = bin["pinset"]
<1>1. IInv /\ [Next]_vars => [Stays]_vars
  <2> SUFFICES ASSUME IInv, Next PROVE Stays
    OBVIOUS
  <2>1. CASE \E p \in Procs : Step(p)
    BY <2>1, ExternalStays, UnrecordedCliStays
  <2>2. CASE Upgrade
    BY <2>2 DEF Upgrade
  <2> QED BY <2>1, <2>2 DEF Next
<1> QED BY <1>1, PublicationInvariantHolds, PTL DEF Spec, NotOwnedStays

\* With every command started from one place, the pair there and the pair in bin match.
LEMMA PairsMatchHere ==
    ASSUME IInv, from # Places
    PROVE  PairsMatch
<1>1. TypeOK /\ from \subseteq Places
  BY DEF IInv, TypeOK
<1>2. update = None => Matched(package)
  BY <1>1, PairAtType DEF IInv, PairsAreKnown, PairIsKnown, Places
<1>3. ASSUME update = None, refresh = None PROVE Matched(bin)
  <2>1. CASE "package" \notin from
    <3>1. Matched(PairAt("bin"))
      BY <1>3, <2>1 DEF IInv, PairsAreKnown, PairIsKnown
    <3> QED BY <3>1 DEF Matched, PairAt, Pair
  <2>2. CASE "bin" \notin from
    BY <1>3, <2>2 DEF IInv, PairsAreKnown, PublishedIsMatched, LeftBehind
  <2> QED BY <1>1, <2>1, <2>2 DEF Places
<1> QED BY <1>2, <1>3 DEF PairsMatch

\* self_update.rs: whatever updates were interrupted, a CLI and a router that no journal will see
\* to are of one release, where every command is started from the same place.
THEOREM PairsStayMatched ==
    ASSUME \A s \in InitialStates : s.from # Places
    PROVE  Spec => []PairsMatch
<1>1. Init => from # Places
  BY DEF Init
<1>2. from # Places /\ [Next]_vars => (from # Places)'
  BY DEF Next, vars
<1>3. IInv /\ from # Places => PairsMatch
  BY PairsMatchHere
<1> QED BY <1>1, <1>2, <1>3, PublicationInvariantHolds, PTL DEF Spec
=============================================================================
