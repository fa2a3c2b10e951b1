------------------------- MODULE TransactionsProofs -------------------------
(***************************************************************************)
(* The proof that the journal protocol of Transactions is correct for      *)
(* every value of its constants: IInv is inductive (one lemma per action), *)
(* and under it every step is a step of AtomicPair or a stutter.  The rest *)
(* of FullInv is inductive relative to it: what readers without a lock     *)
(* accept, and what edits keep and bind.                                   *)
(***************************************************************************)
EXTENDS Transactions, TLAPS

USE NoneAssumption, NoneIsNoValue, TransactionsAssumption
USE DEF GuardedSteps, WriterSteps, RestoreSteps

\* The empty selection is a configuration and a lock.
LEMMA EmptyIsSelection ==
    /\ NoTools \in Config /\ NoTools \in Lock
    /\ NoTools # None
  BY DEF NoTools, Config, Lock

\* Two sets of files with the same configuration, lock and profile are the same.
LEMMA FilesEqual ==
    ASSUME NEW f \in Files, NEW g \in Files,
           f.config = g.config, f.lock = g.lock, f.profile = g.profile
    PROVE  f = g
<1>1. /\ f = [config |-> f.config, lock |-> f.lock, profile |-> f.profile]
      /\ g = [config |-> g.config, lock |-> g.lock, profile |-> g.profile]
  BY DEF Files
<1>2. QED BY <1>1

\* What load_for_edit returns always has a configuration and a lock.
LEMMA LoadedType ==
    ASSUME IInv
    PROVE  /\ Loaded \in Files
           /\ Loaded.config \in Config /\ Loaded.config # None
           /\ Loaded.lock \in Lock /\ Loaded.lock # None
  BY EmptyIsSelection DEF IInv, TypeOK, Loaded, LockOrEmpty, Files

\* Whatever use and remove start from is a configuration and a lock.
LEMMA EditBaseType ==
    ASSUME IInv, NEW p \in Procs, pc[p] = "edit",
           hand[p].op \in {"use", "remove"}
    PROVE  /\ EditBase(p).config \in Config
           /\ EditBase(p).lock \in Lock
  BY LoadedType DEF IInv, TypeOK, HandIsFull, EditBase, Hand, Files

\* Settling the next files changes what the command holds and nothing else.
LEMMA SettledHand ==
    ASSUME IInv, NEW p \in Procs, NEW names \in SUBSET Tools,
           NEW next \in Files, Settle(p, names, next)
    PROVE  /\ hand' \in [Procs -> Hand]
           /\ hand'[p].next = next
           /\ hand'[p].op = hand[p].op
           /\ \A q \in Procs \ {p} : hand'[q] = hand[q]
  BY DEF IInv, TypeOK, Settle, Hand

\* pinset init creates the configuration without breaking the invariant: there
\* is no marker and no process in the middle of a transaction yet.
LEMMA InitProjectInv ==
    ASSUME IInv, NEW p \in Procs, InitProject(p)
    PROVE  IInv'
<1> USE DEF InitProject, Start, At, Goto, bindings
<1>1. TypeOK'
  BY DEF IInv, TypeOK, Files, Journal, Hand, Steps, HandIsFull, Written,
     Begun, LockedTool, Lock, Config, LockOrEmpty, NoTools, Ops, Phases
<1>2. GuardIsHeld'
  BY DEF IInv, TypeOK, GuardIsHeld
<1>3. ASSUME NEW q \in Procs PROVE HandIsFull(q)'
  BY <1>3 DEF IInv, TypeOK, HandIsFull, GuardIsHeld, Begun
<1>4. ASSUME NEW q \in Procs PROVE Written(q)'
  BY <1>4 DEF IInv, TypeOK, Written, NotYetCreated
<1>5. JournalsFit'
  BY DEF IInv, JournalsFit, Begun
<1>6. NotYetCreated'
  BY EmptyIsSelection DEF IInv, TypeOK, NotYetCreated, Files
<1>7. MarkedFilesAreJournaled'
  BY DEF IInv, MarkedFilesAreJournaled, TypeOK, Written, Begun, Files,
     Journal, NotYetCreated
<1> QED BY <1>1, <1>2, <1>3, <1>4, <1>5, <1>6, <1>7 DEF IInv

\* Registering after init keeps the invariant.
LEMMA InitRegisterInv ==
    ASSUME IInv, NEW p \in Procs, InitRegister(p)
    PROVE  IInv'
<1> USE DEF InitRegister, Return, EmptyHand, At, Goto, bindings
<1>1. TypeOK'
  BY DEF IInv, TypeOK, Steps, Hand, Ops
<1>2. GuardIsHeld'
  BY DEF IInv, TypeOK, GuardIsHeld
<1>3. ASSUME NEW q \in Procs PROVE HandIsFull(q)'
  BY <1>3 DEF IInv, TypeOK, HandIsFull, GuardIsHeld, Begun
<1>4. ASSUME NEW q \in Procs PROVE Written(q)'
  BY <1>4 DEF IInv, TypeOK, Written, HandIsFull, GuardIsHeld, Begun
<1>5. JournalsFit'
  BY DEF IInv, JournalsFit, Begun
<1>6. NotYetCreated'
  BY DEF IInv, NotYetCreated
<1>7. MarkedFilesAreJournaled'
  BY DEF IInv, MarkedFilesAreJournaled
<1> QED BY <1>1, <1>2, <1>3, <1>4, <1>5, <1>6, <1>7 DEF IInv

\* Planning an import keeps the invariant: the plan fits.
LEMMA StartImportInv ==
    ASSUME IInv, NEW p \in Procs, StartImport(p)
    PROVE  IInv'
<1> DEFINE cfg(names, selector) ==
             [t \in Tools |-> IF t \in names THEN selector[t] ELSE Loaded.config[t]]
           lck(config, version) ==
             [t \in Tools |->
                IF config[t] # None /\ Loaded.lock[t] = None
                THEN [requested |-> config[t], version |-> version[t]]
                ELSE Loaded.lock[t]]
           plan(names, config, lock) ==
             [op |-> "import", bind |-> FALSE, names |-> names,
              next |-> [config |-> config, lock |-> lock,
                        profile |-> files.profile],
              seen |-> files, id |-> None]
<1>a. ~Global /\ (files.lock # None => Fits(Loaded.config, files.lock))
      /\ pc[p] = "idle" /\ pc' = [pc EXCEPT ![p] = "wait"]
      /\ UNCHANGED <<files, marker, journals, guard, bindings, deaths>>
  BY DEF StartImport, At, Goto
<1>b. PICK names \in SUBSET {t \in Tools : Loaded.config[t] = None} :
        \E selector \in [names -> Selectors], version \in [Tools -> Versions] :
          /\ names # {} \/ (files.config # None /\ files.lock = None)
          /\ hand' = [hand EXCEPT ![p] =
                        plan(names, cfg(names, selector),
                             lck(cfg(names, selector), version))]
  BY Zenon DEF StartImport
<1>c. PICK selector \in [names -> Selectors], version \in [Tools -> Versions] :
        hand' = [hand EXCEPT ![p] =
                   plan(names, cfg(names, selector),
                        lck(cfg(names, selector), version))]
  BY <1>b
<1> DEFINE config == cfg(names, selector)
           lock == lck(config, version)
<1>d. config \in Config
  BY LoadedType DEF Config
<1>e. lock \in Lock
  BY <1>d, LoadedType DEF Config, Lock, LockedTool
<1>f. Fits(Loaded.config, Loaded.lock) \/ Loaded.lock = NoTools
  BY <1>a DEF Loaded, LockOrEmpty
<1>g. Loadable(config, lock)
  <2>1. config # None /\ lock # None
    BY <1>d, <1>e
  <2>2. ASSUME NEW t \in Tools
        PROVE  \/ config[t] = None /\ lock[t] = None
               \/ lock[t] # None /\ lock[t].requested = config[t]
    <3>1. CASE t \in names
      <4>1. config[t] \in Selectors /\ config[t] # None
        BY <3>1
      <4>2. Loaded.lock[t] = None
        BY <1>f, <3>1, LoadedType DEF Fits, NoTools, Lock, LockedTool
      <4>3. lock[t] = [requested |-> config[t], version |-> version[t]]
        BY <4>1, <4>2
      <4>4. QED BY <4>1, <4>3, <1>e DEF Lock, LockedTool
    <3>2. CASE t \notin names
      <4>1. config[t] = Loaded.config[t]
        BY <3>2
      <4>2. CASE config[t] # None /\ Loaded.lock[t] = None
        <5>1. lock[t] = [requested |-> config[t], version |-> version[t]]
          BY <4>2
        <5>2. config[t] \in Selectors
          BY <1>d, <4>2 DEF Config
        <5>3. QED BY <5>1, <5>2 DEF LockedTool
      <4>3. CASE ~(config[t] # None /\ Loaded.lock[t] = None)
        <5>1. lock[t] = Loaded.lock[t]
          BY <4>3
        <5>2. QED BY <4>1, <4>3, <5>1, <1>f DEF Fits, NoTools
      <4>4. QED BY <4>2, <4>3
    <3>3. QED BY <3>1, <3>2
  <2>3. QED BY <2>1, <2>2 DEF Loadable, Fits, LockOrEmpty
<1> DEFINE h == plan(names, config, lock)
<1> HIDE DEF cfg, lck, config, lock
<1>h. /\ h \in Hand /\ h.op = "import" /\ h.next # None
      /\ h.next.config = config /\ h.next.lock = lock /\ h.next.lock # None
  <2>1. h.next \in Files
    BY <1>d, <1>e DEF IInv, TypeOK, Files
  <2>2. QED BY <2>1, <1>e DEF Hand, Ops, IInv, TypeOK
<1>i. hand' = [hand EXCEPT ![p] = h]
  BY <1>c DEF config, lock
<1> HIDE DEF h
<1>1. TypeOK'
  BY <1>a, <1>h, <1>i DEF IInv, TypeOK, Steps, bindings
<1>2. GuardIsHeld'
  BY <1>a DEF IInv, TypeOK, GuardIsHeld
<1>3. ASSUME NEW q \in Procs PROVE HandIsFull(q)'
  BY <1>3, <1>a, <1>g, <1>h, <1>i DEF IInv, TypeOK, HandIsFull, Begun
<1>4. ASSUME NEW q \in Procs PROVE Written(q)'
  BY <1>4, <1>a, <1>i DEF IInv, TypeOK, Written, Begun
<1>5. JournalsFit'
  BY <1>a DEF IInv, JournalsFit, Begun
<1>6. NotYetCreated'
  BY <1>a, <1>h, <1>i DEF IInv, TypeOK, NotYetCreated
<1>7. MarkedFilesAreJournaled'
  BY <1>a DEF IInv, MarkedFilesAreJournaled
<1> QED BY <1>1, <1>2, <1>3, <1>4, <1>5, <1>6, <1>7 DEF IInv

\* Applying an import plan keeps the invariant: the plan still fits.
LEMMA ApplyImportInv ==
    ASSUME IInv, NEW p \in Procs, ApplyImport(p)
    PROVE  IInv'
<1> DEFINE next == [config |-> hand[p].next.config, lock |-> hand[p].next.lock,
                    profile |-> files.profile]
<1>a. /\ pc[p] = "edit" /\ hand[p].op = "import" /\ guard = p /\ ~Global
      /\ hand[p].next # None /\ hand[p].next.lock # None
      /\ Loadable(hand[p].next.config, hand[p].next.lock)
  BY DEF ApplyImport, At, IInv, HandIsFull, GuardIsHeld
<1>b. \E step \in {"create", "begin"} :
        /\ pc' = [pc EXCEPT ![p] = step]
        /\ step = "create" <=> files.config = None
  BY DEF ApplyImport, Goto
<1>c. /\ marker = None
      /\ Settle(p, hand[p].names, next)
      /\ UNCHANGED <<files, marker, journals, guard, bindings, deaths>>
  BY DEF ApplyImport
<1>d. hand[p].names \in SUBSET Tools /\ next \in Files
  BY <1>a DEF IInv, TypeOK, Hand, Files
<1>e. /\ next # None /\ next.lock # None /\ next.profile = files.profile
      /\ Loadable(next.config, next.lock)
  BY <1>a, <1>d
<1> HIDE DEF next
<1>f. /\ hand' \in [Procs -> Hand]
      /\ hand'[p].next = next /\ hand'[p].op = "import"
      /\ \A q \in Procs \ {p} : hand'[q] = hand[q]
  BY <1>a, <1>c, <1>d, SettledHand
<1>1. TypeOK'
  BY <1>b, <1>c, <1>f DEF IInv, TypeOK, Steps, bindings
<1>2. GuardIsHeld'
  BY <1>a, <1>b, <1>c DEF IInv, TypeOK, GuardIsHeld
<1>3. ASSUME NEW q \in Procs PROVE HandIsFull(q)'
  <2>1. CASE q = p
    BY <1>a, <1>b, <1>c, <1>e, <1>f, <2>1 DEF IInv, TypeOK, HandIsFull
  <2>2. CASE q # p
    BY <1>b, <1>c, <1>f, <1>3, <2>2 DEF IInv, TypeOK, HandIsFull, Begun
  <2>3. QED BY <2>1, <2>2
<1>4. ASSUME NEW q \in Procs PROVE Written(q)'
  BY <1>4, <1>a, <1>b, <1>c, <1>f DEF IInv, TypeOK, Written, GuardIsHeld
<1>5. JournalsFit'
  BY <1>c DEF IInv, JournalsFit, Begun
<1>6. NotYetCreated'
  BY <1>b, <1>c, <1>f DEF IInv, NotYetCreated, TypeOK
<1>7. MarkedFilesAreJournaled'
  BY <1>c DEF IInv, MarkedFilesAreJournaled
<1> QED BY <1>1, <1>2, <1>3, <1>4, <1>5, <1>6, <1>7 DEF IInv

\* The empty configuration of an imported project keeps the invariant.
LEMMA ImportCreateInv ==
    ASSUME IInv, NEW p \in Procs, ImportCreate(p)
    PROVE  IInv'
<1>a. /\ pc[p] = "create" /\ guard = p /\ ~Global /\ files.config = None
      /\ marker = None /\ pc' = [pc EXCEPT ![p] = "begin"]
      /\ UNCHANGED <<marker, journals, guard, bindings, hand, deaths>>
  BY DEF ImportCreate, At, Goto, IInv, HandIsFull, GuardIsHeld, NotYetCreated
<1>b. /\ files' \in Files /\ files'.config # None
      /\ files'.profile = files.profile
  BY EmptyIsSelection DEF ImportCreate, IInv, TypeOK, Files
<1>1. TypeOK'
  BY <1>a, <1>b DEF IInv, TypeOK, Steps, bindings
<1>2. GuardIsHeld'
  BY <1>a DEF IInv, TypeOK, GuardIsHeld
<1>3. ASSUME NEW q \in Procs PROVE HandIsFull(q)'
  BY <1>3, <1>a, <1>b DEF IInv, TypeOK, HandIsFull, GuardIsHeld, Begun
<1>4. ASSUME NEW q \in Procs PROVE Written(q)'
  BY <1>4, <1>a DEF IInv, TypeOK, Written, GuardIsHeld
<1>5. JournalsFit'
  BY <1>a DEF IInv, JournalsFit, Begun
<1>6. NotYetCreated'
  BY <1>b DEF NotYetCreated
<1>7. MarkedFilesAreJournaled'
  BY <1>a DEF IInv, MarkedFilesAreJournaled
<1> QED BY <1>1, <1>2, <1>3, <1>4, <1>5, <1>6, <1>7 DEF IInv

\* Starting use or remove keeps the invariant.
LEMMA StartEditInv ==
    ASSUME IInv, NEW p \in Procs, StartEdit(p)
    PROVE  IInv'
<1> USE DEF StartEdit, At, Goto, bindings
<1>a. PICK op \in {"use", "remove"}, bind \in BOOLEAN :
        Start(p, "wait", op, bind, Loaded, None)
  OBVIOUS
<1> HIDE DEF StartEdit
<1>b. UNCHANGED <<files, marker, journals, guard, bindings, deaths>>
  BY DEF StartEdit
<1>1. TypeOK'
  BY <1>a, <1>b, LoadedType DEF IInv, TypeOK, Hand, Ops, Steps, Start
<1>2. GuardIsHeld'
  BY <1>a, <1>b DEF IInv, TypeOK, GuardIsHeld, Start
<1>3. ASSUME NEW q \in Procs PROVE HandIsFull(q)'
  BY <1>3, <1>a, <1>b, LoadedType DEF IInv, TypeOK, HandIsFull, Begun, Start
<1>4. ASSUME NEW q \in Procs PROVE Written(q)'
  BY <1>4, <1>a, <1>b DEF IInv, TypeOK, Written, Begun, Start
<1>5. JournalsFit'
  BY <1>b DEF IInv, JournalsFit, Begun
<1>6. NotYetCreated'
  <2>1. Global \/ files.config # None
    BY DEF StartEdit
  <2>2. QED BY <2>1, <1>b DEF IInv, NotYetCreated
<1>7. MarkedFilesAreJournaled'
  BY <1>b DEF IInv, MarkedFilesAreJournaled
<1> QED BY <1>1, <1>2, <1>3, <1>4, <1>5, <1>6, <1>7 DEF IInv

\* Starting a profile edit keeps the invariant.
LEMMA StartProfileInv ==
    ASSUME IInv, NEW p \in Procs, StartProfile(p)
    PROVE  IInv'
<1> USE DEF StartProfile, Start, At, Goto, bindings
<1>1. TypeOK'
  BY DEF IInv, TypeOK, Steps, Hand, Ops
<1>2. GuardIsHeld'
  BY DEF IInv, TypeOK, GuardIsHeld
<1>3. ASSUME NEW q \in Procs PROVE HandIsFull(q)'
  BY <1>3 DEF IInv, TypeOK, HandIsFull, GuardIsHeld, Begun
<1>4. ASSUME NEW q \in Procs PROVE Written(q)'
  BY <1>4 DEF IInv, TypeOK, Written, HandIsFull, GuardIsHeld, Begun
<1>5. JournalsFit'
  BY DEF IInv, JournalsFit, Begun
<1>6. NotYetCreated'
  BY DEF IInv, NotYetCreated
<1>7. MarkedFilesAreJournaled'
  BY DEF IInv, MarkedFilesAreJournaled
<1> QED BY <1>1, <1>2, <1>3, <1>4, <1>5, <1>6, <1>7 DEF IInv

\* Starting install keeps the invariant.
LEMMA StartInstallInv ==
    ASSUME IInv, NEW p \in Procs, StartInstall(p)
    PROVE  IInv'
<1> USE DEF StartInstall, Start, At, Goto, bindings
<1>1. TypeOK'
  BY DEF IInv, TypeOK, Steps, Hand, Ops
<1>2. GuardIsHeld'
  BY DEF IInv, TypeOK, GuardIsHeld
<1>3. ASSUME NEW q \in Procs PROVE HandIsFull(q)'
  BY <1>3 DEF IInv, TypeOK, HandIsFull, GuardIsHeld, Begun
<1>4. ASSUME NEW q \in Procs PROVE Written(q)'
  BY <1>4 DEF IInv, TypeOK, Written, HandIsFull, GuardIsHeld, Begun
<1>5. JournalsFit'
  BY DEF IInv, JournalsFit, Begun
<1>6. NotYetCreated'
  BY DEF IInv, TypeOK, NotYetCreated, Written, JournalsFit, Begun, Loadable,
     HandIsFull
<1>7. MarkedFilesAreJournaled'
  BY DEF IInv, MarkedFilesAreJournaled
<1> QED BY <1>1, <1>2, <1>3, <1>4, <1>5, <1>6, <1>7 DEF IInv

\* Starting repair keeps the invariant: the journal it read exists.
LEMMA StartRepairInv ==
    ASSUME IInv, NEW p \in Procs, StartRepair(p)
    PROVE  IInv'
<1> USE DEF StartRepair, Start, At, Goto, bindings
<1>1. TypeOK'
  BY DEF IInv, TypeOK, Steps, Hand, Ops
<1>2. GuardIsHeld'
  BY DEF IInv, TypeOK, GuardIsHeld
<1>3. ASSUME NEW q \in Procs PROVE HandIsFull(q)'
  BY <1>3 DEF IInv, TypeOK, HandIsFull, GuardIsHeld, Begun
<1>4. ASSUME NEW q \in Procs PROVE Written(q)'
  BY <1>4 DEF IInv, TypeOK, Written, HandIsFull, GuardIsHeld, Begun
<1>5. JournalsFit'
  BY DEF IInv, JournalsFit, Begun
<1>6. NotYetCreated'
  BY DEF IInv, NotYetCreated
<1>7. MarkedFilesAreJournaled'
  BY DEF IInv, MarkedFilesAreJournaled
<1> QED BY <1>1, <1>2, <1>3, <1>4, <1>5, <1>6, <1>7 DEF IInv

\* Taking the guard keeps the invariant: nobody else was under it.
LEMMA GuardInv ==
    ASSUME IInv, NEW p \in Procs, Guard(p)
    PROVE  IInv'
<1> USE DEF Guard, At, Goto, bindings
<1>1. TypeOK'
  BY DEF IInv, TypeOK, Steps
<1>2. GuardIsHeld'
  BY DEF IInv, TypeOK, GuardIsHeld
<1>3. ASSUME NEW q \in Procs PROVE HandIsFull(q)'
  BY <1>3 DEF IInv, TypeOK, HandIsFull, GuardIsHeld, Begun
<1>4. ASSUME NEW q \in Procs PROVE Written(q)'
  BY <1>4 DEF IInv, TypeOK, Written, GuardIsHeld
<1>5. JournalsFit'
  BY DEF IInv, JournalsFit, Begun
<1>6. NotYetCreated'
  BY DEF IInv, NotYetCreated
<1>7. MarkedFilesAreJournaled'
  BY DEF IInv, MarkedFilesAreJournaled
<1> QED BY <1>1, <1>2, <1>3, <1>4, <1>5, <1>6, <1>7 DEF IInv

\* Resolving the tools of `use` keeps the invariant: the next pair fits.
LEMMA UseToolsInv ==
    ASSUME IInv, NEW p \in Procs, UseTools(p)
    PROVE  IInv'
<1> USE DEF UseTools, EditBase, Reloadable, At, Goto, bindings
<1>a. PICK config \in Config, lock \in Lock, names \in SUBSET Tools :
        /\ Fits(config, lock)
        /\ Settle(p, names, [config |-> config, lock |-> lock,
                             profile |-> files.profile])
  <2> DEFINE base == EditBase(p)
             cfg(names, selector) ==
               [t \in Tools |-> IF t \in names THEN selector[t] ELSE base.config[t]]
             lck(names, selector, version) ==
               [t \in Tools |->
                  IF t \in names
                  THEN [requested |-> selector[t], version |-> version[t]]
                  ELSE base.lock[t]]
  <2>1. base.config \in Config /\ base.lock \in Lock
    BY EditBaseType
  <2>2. PICK names \in (SUBSET Tools) \ {{}} : \E selector \in [names -> Selectors],
          version \in [names -> Versions] :
            /\ Fits(cfg(names, selector), lck(names, selector, version))
            /\ Settle(p, names, [config |-> cfg(names, selector),
                                 lock |-> lck(names, selector, version),
                                 profile |-> files.profile])
    OBVIOUS
  <2>3. PICK selector \in [names -> Selectors], version \in [names -> Versions] :
            /\ Fits(cfg(names, selector), lck(names, selector, version))
            /\ Settle(p, names, [config |-> cfg(names, selector),
                                 lock |-> lck(names, selector, version),
                                 profile |-> files.profile])
    BY <2>2
  <2>4. cfg(names, selector) \in Config
    BY <2>1 DEF Config
  <2>5. lck(names, selector, version) \in Lock
    BY <2>1 DEF Lock, LockedTool
  <2> HIDE DEF cfg, lck
  <2>6. QED BY <2>3, <2>4, <2>5
<1>b. pc[p] = "edit" /\ hand[p].op = "use" /\ \E step \in {"sdk", "begin"} : pc' = [pc EXCEPT ![p] = step]
  OBVIOUS
<1>c. guard = p /\ UNCHANGED <<files, marker, journals, guard, bindings, deaths>>
  BY DEF IInv, GuardIsHeld
<1> HIDE DEF UseTools
<1>1. TypeOK'
  <2>1. [config |-> config, lock |-> lock, profile |-> files.profile] \in Files
    BY <1>a DEF IInv, TypeOK, Files
  <2>2. hand' \in [Procs -> Hand]
    BY <1>a, <2>1, SettledHand
  <2>3. QED BY <1>b, <1>c, <2>2 DEF IInv, TypeOK, Steps
<1>2. GuardIsHeld'
  BY <1>b, <1>c DEF IInv, TypeOK, GuardIsHeld
<1>3. ASSUME NEW q \in Procs PROVE HandIsFull(q)'
  <2>1. CASE q = p
    <3> DEFINE next == [config |-> config, lock |-> lock, profile |-> files.profile]
    <3>1. next \in Files
      BY <1>a DEF IInv, TypeOK, Files
    <3>2. hand'[p].next = next
      BY <1>a, <3>1, SettledHand
    <3>3. next # None /\ next.lock # None /\ Loadable(next.config, next.lock)
      BY <1>a, <3>1 DEF Loadable, LockOrEmpty
    <3>4. QED BY <1>b, <1>c, <2>1, <3>2, <3>3 DEF IInv, TypeOK, HandIsFull
  <2>2. CASE q # p
    BY <1>a, <1>b, <1>c, <1>3, <2>2 DEF IInv, TypeOK, HandIsFull, GuardIsHeld,
       Begun, Settle
  <2>3. QED BY <2>1, <2>2
<1>4. ASSUME NEW q \in Procs PROVE Written(q)'
  BY <1>a, <1>b, <1>c, <1>4 DEF IInv, TypeOK, Written, GuardIsHeld
<1>5. JournalsFit'
  BY <1>c DEF IInv, JournalsFit, Begun
<1>6. NotYetCreated'
  BY <1>b, <1>c DEF IInv, NotYetCreated, TypeOK
<1>7. MarkedFilesAreJournaled'
  BY <1>c DEF IInv, MarkedFilesAreJournaled
<1> QED BY <1>1, <1>2, <1>3, <1>4, <1>5, <1>6, <1>7 DEF IInv

\* Removing tools keeps the invariant: the next pair fits.
LEMMA RemoveInv ==
    ASSUME IInv, NEW p \in Procs, Remove(p)
    PROVE  IInv'
<1> USE DEF Remove, EditBase, Reloadable, At, Goto, bindings
<1>a. PICK config \in Config, lock \in Lock, names \in SUBSET Tools :
        /\ Fits(config, lock)
        /\ Settle(p, names, [config |-> config, lock |-> lock,
                             profile |-> files.profile])
  <2> DEFINE base == EditBase(p)
             cfg(names) == [t \in Tools |-> IF t \in names THEN None ELSE base.config[t]]
             lck(names) == [t \in Tools |-> IF t \in names THEN None ELSE base.lock[t]]
  <2>1. base.config \in Config /\ base.lock \in Lock
    BY EditBaseType
  <2>2. PICK names \in (SUBSET Tools) \ {{}} :
            /\ Fits(cfg(names), lck(names))
            /\ Settle(p, names, [config |-> cfg(names), lock |-> lck(names),
                                 profile |-> files.profile])
    OBVIOUS
  <2>3. cfg(names) \in Config /\ lck(names) \in Lock
    BY <2>1 DEF Config, Lock
  <2> HIDE DEF cfg, lck
  <2>4. QED BY <2>2, <2>3
<1>b. pc[p] = "edit" /\ hand[p].op = "remove" /\ \E step \in {"sdk", "begin"} : pc' = [pc EXCEPT ![p] = step]
  OBVIOUS
<1>c. guard = p /\ UNCHANGED <<files, marker, journals, guard, bindings, deaths>>
  BY DEF IInv, GuardIsHeld
<1> HIDE DEF Remove
<1>1. TypeOK'
  <2>1. [config |-> config, lock |-> lock, profile |-> files.profile] \in Files
    BY <1>a DEF IInv, TypeOK, Files
  <2>2. hand' \in [Procs -> Hand]
    BY <1>a, <2>1, SettledHand
  <2>3. QED BY <1>b, <1>c, <2>2 DEF IInv, TypeOK, Steps
<1>2. GuardIsHeld'
  BY <1>b, <1>c DEF IInv, TypeOK, GuardIsHeld
<1>3. ASSUME NEW q \in Procs PROVE HandIsFull(q)'
  <2>1. CASE q = p
    <3> DEFINE next == [config |-> config, lock |-> lock, profile |-> files.profile]
    <3>1. next \in Files
      BY <1>a DEF IInv, TypeOK, Files
    <3>2. hand'[p].next = next
      BY <1>a, <3>1, SettledHand
    <3>3. next # None /\ next.lock # None /\ Loadable(next.config, next.lock)
      BY <1>a, <3>1 DEF Loadable, LockOrEmpty
    <3>4. QED BY <1>b, <1>c, <2>1, <3>2, <3>3 DEF IInv, TypeOK, HandIsFull
  <2>2. CASE q # p
    BY <1>a, <1>b, <1>c, <1>3, <2>2 DEF IInv, TypeOK, HandIsFull, GuardIsHeld,
       Begun, Settle
  <2>3. QED BY <2>1, <2>2
<1>4. ASSUME NEW q \in Procs PROVE Written(q)'
  BY <1>a, <1>b, <1>c, <1>4 DEF IInv, TypeOK, Written, GuardIsHeld
<1>5. JournalsFit'
  BY <1>c DEF IInv, JournalsFit, Begun
<1>6. NotYetCreated'
  BY <1>b, <1>c DEF IInv, NotYetCreated, TypeOK
<1>7. MarkedFilesAreJournaled'
  BY <1>c DEF IInv, MarkedFilesAreJournaled
<1> QED BY <1>1, <1>2, <1>3, <1>4, <1>5, <1>6, <1>7 DEF IInv

\* A profile edit keeps the invariant: it journals the pair it loaded.
LEMMA EditProfileInv ==
    ASSUME IInv, NEW p \in Procs, EditProfile(p)
    PROVE  IInv'
<1> USE DEF EditProfile, At, Goto, bindings
<1>a. PICK profile \in Profiles \cup {None} :
        Settle(p, {}, [config |-> Loaded.config, lock |-> Loaded.lock,
                    profile |-> profile])
  OBVIOUS
<1> DEFINE next == [config |-> Loaded.config, lock |-> Loaded.lock,
                    profile |-> profile]
<1>b. next \in Files /\ next.config = Loaded.config /\ next.lock = Loaded.lock
      /\ next # None /\ next.lock # None
  BY LoadedType DEF Files
<1>c. guard = p /\ pc[p] = "edit" /\ hand[p].op = "profile"
  BY DEF IInv, GuardIsHeld
<1>d. Loadable(next.config, next.lock)
  BY <1>b DEF Loadable, LockOrEmpty, Loaded
<1> HIDE DEF next
<1>1. TypeOK'
  BY <1>a, <1>b, SettledHand DEF IInv, TypeOK, Steps, next
<1>2. GuardIsHeld'
  BY DEF IInv, TypeOK, GuardIsHeld
<1>3. ASSUME NEW q \in Procs PROVE HandIsFull(q)'
  <2>1. hand'[p].next = next /\ hand'[p].op = "profile"
    BY <1>a, <1>b, <1>c, SettledHand DEF next
  <2>2. CASE q = p
    BY <1>b, <1>d, <2>1, <2>2 DEF IInv, TypeOK, HandIsFull
  <2>3. CASE q # p
    BY <1>3, <1>a, <1>c, <2>3 DEF IInv, TypeOK, HandIsFull, GuardIsHeld,
       Begun, Settle
  <2>4. QED BY <2>2, <2>3
<1>4. ASSUME NEW q \in Procs PROVE Written(q)'
  BY <1>4, <1>a, <1>c DEF IInv, TypeOK, Written, GuardIsHeld
<1>5. JournalsFit'
  BY DEF IInv, JournalsFit, Begun
<1>6. NotYetCreated'
  BY DEF IInv, NotYetCreated
<1>7. MarkedFilesAreJournaled'
  BY DEF IInv, MarkedFilesAreJournaled
<1> QED BY <1>1, <1>2, <1>3, <1>4, <1>5, <1>6, <1>7 DEF IInv

\* Installing before the transaction keeps the invariant.
LEMMA InstallSdkInv ==
    ASSUME IInv, NEW p \in Procs, InstallSdk(p)
    PROVE  IInv'
<1> USE DEF InstallSdk, Payloads, LockedIn, At, Goto, bindings
<1>1. TypeOK'
  BY DEF IInv, TypeOK, Files, Journal, Hand, Steps, HandIsFull, Written,
     Begun, LockedTool, Lock, Config, LockOrEmpty, NoTools, Ops, Phases
<1>2. GuardIsHeld'
  BY DEF IInv, TypeOK, GuardIsHeld
<1>3. ASSUME NEW q \in Procs PROVE HandIsFull(q)'
  BY <1>3 DEF IInv, TypeOK, HandIsFull, GuardIsHeld, Begun
<1>4. ASSUME NEW q \in Procs PROVE Written(q)'
  BY <1>4 DEF IInv, TypeOK, Written, GuardIsHeld
<1>5. JournalsFit'
  BY DEF IInv, JournalsFit, Begun
<1>6. NotYetCreated'
  BY DEF IInv, NotYetCreated
<1>7. MarkedFilesAreJournaled'
  BY DEF IInv, MarkedFilesAreJournaled
<1> QED BY <1>1, <1>2, <1>3, <1>4, <1>5, <1>6, <1>7 DEF IInv

\* Writing the journal keeps the invariant: its id is fresh and the files it
\* saves are those on disk.
LEMMA WriteJournalInv ==
    ASSUME IInv, NEW p \in Procs, WriteJournal(p)
    PROVE  IInv'
<1> USE DEF WriteJournal, At, Goto, bindings
<1> DEFINE journal == [phase |-> "prepared", old |-> files, new |-> hand[p].next]
<1>a. PICK id \in Ids : /\ journals[id] = None
                        /\ journals' = [journals EXCEPT ![id] = journal]
                        /\ hand' = [hand EXCEPT ![p].id = id]
  OBVIOUS
<1>b. guard = p /\ hand[p].next # None
  BY DEF IInv, GuardIsHeld, HandIsFull
<1>c. journal \in Journal
  BY <1>b DEF IInv, TypeOK, Hand, Journal, Phases
<1>d. journal # None
  BY <1>c, NoneIsNoJournal
<1>1. TypeOK'
  BY <1>a, <1>c DEF IInv, TypeOK, Hand, Steps
<1>2. GuardIsHeld'
  BY DEF IInv, TypeOK, GuardIsHeld
<1>3. ASSUME NEW q \in Procs PROVE HandIsFull(q)'
  BY <1>3, <1>a, <1>b, <1>d DEF IInv, TypeOK, HandIsFull, GuardIsHeld, Begun
<1>4. ASSUME NEW q \in Procs PROVE Written(q)'
  <2>1. CASE q = p
    BY <1>a, <1>b, <1>d, <2>1 DEF IInv, TypeOK, Written, HandIsFull, Begun,
       Hand
  <2>2. CASE q # p
    BY <1>a, <1>b, <1>4, <2>2 DEF IInv, TypeOK, Written, GuardIsHeld
  <2>3. QED BY <2>1, <2>2
<1>5. JournalsFit'
  BY <1>a, <1>b DEF IInv, TypeOK, JournalsFit, Begun, HandIsFull,
     NotYetCreated
<1>6. NotYetCreated'
  BY DEF IInv, NotYetCreated, TypeOK
<1>7. MarkedFilesAreJournaled'
  BY <1>a DEF IInv, MarkedFilesAreJournaled, TypeOK
<1> QED BY <1>1, <1>2, <1>3, <1>4, <1>5, <1>6, <1>7 DEF IInv

\* Writing the marker keeps the invariant: the files are still the old ones.
LEMMA WriteMarkerInv ==
    ASSUME IInv, NEW p \in Procs, WriteMarker(p)
    PROVE  IInv'
<1> USE DEF WriteMarker, At, Goto, bindings
<1>1. TypeOK'
  BY DEF IInv, TypeOK, Steps, Hand, Ops
<1>2. GuardIsHeld'
  BY DEF IInv, TypeOK, GuardIsHeld
<1>3. ASSUME NEW q \in Procs PROVE HandIsFull(q)'
  BY <1>3 DEF IInv, TypeOK, HandIsFull, GuardIsHeld, Begun
<1>4. ASSUME NEW q \in Procs PROVE Written(q)'
  BY <1>4 DEF IInv, TypeOK, Written, HandIsFull, GuardIsHeld, Begun
<1>5. JournalsFit'
  BY DEF IInv, JournalsFit, Begun
<1>6. NotYetCreated'
  BY DEF IInv, NotYetCreated
<1>7. MarkedFilesAreJournaled'
  BY DEF IInv, TypeOK, MarkedFilesAreJournaled, Written, Begun
<1> QED BY <1>1, <1>2, <1>3, <1>4, <1>5, <1>6, <1>7 DEF IInv

\* Replacing the configuration keeps the invariant.
LEMMA WriteConfigInv ==
    ASSUME IInv, NEW p \in Procs, WriteConfig(p)
    PROVE  IInv'
<1> USE DEF WriteConfig, At, Goto, bindings
<1>1. TypeOK'
  BY DEF IInv, TypeOK, Steps, Hand, Ops, Files, Journal, Phases, HandIsFull,
     Written, Begun
<1>2. GuardIsHeld'
  BY DEF IInv, TypeOK, GuardIsHeld
<1>3. ASSUME NEW q \in Procs PROVE HandIsFull(q)'
  BY <1>3 DEF IInv, TypeOK, HandIsFull, GuardIsHeld, Begun
<1>4. ASSUME NEW q \in Procs PROVE Written(q)'
  BY <1>4 DEF IInv, TypeOK, Written, HandIsFull, GuardIsHeld, Begun
<1>5. JournalsFit'
  BY DEF IInv, JournalsFit, Begun
<1>6. NotYetCreated'
  BY DEF IInv, TypeOK, NotYetCreated, Written, JournalsFit, Begun, Loadable,
     HandIsFull
<1>7. MarkedFilesAreJournaled'
  BY DEF IInv, TypeOK, MarkedFilesAreJournaled, Written, Begun
<1> QED BY <1>1, <1>2, <1>3, <1>4, <1>5, <1>6, <1>7 DEF IInv

\* Replacing the lock keeps the invariant.
LEMMA WriteLockInv ==
    ASSUME IInv, NEW p \in Procs, WriteLock(p)
    PROVE  IInv'
<1> USE DEF WriteLock, At, Goto, bindings
<1>1. TypeOK'
  <2>1. journals[hand[p].id] \in Journal
    BY DEF IInv, TypeOK, Written, Begun
  <2>2. files' \in Files
    BY <2>1 DEF IInv, TypeOK, Files, Journal
  <2>3. pc' \in [Procs -> Steps]
    BY DEF IInv, TypeOK, Steps
  <2>4. QED BY <2>2, <2>3 DEF IInv, TypeOK
<1>2. GuardIsHeld'
  BY DEF IInv, TypeOK, GuardIsHeld
<1>3. ASSUME NEW q \in Procs PROVE HandIsFull(q)'
  BY <1>3 DEF IInv, TypeOK, HandIsFull, GuardIsHeld, Begun
<1>4. ASSUME NEW q \in Procs PROVE Written(q)'
  BY <1>4 DEF IInv, TypeOK, Written, HandIsFull, GuardIsHeld, Begun, Files,
     Journal
<1>5. JournalsFit'
  BY DEF IInv, JournalsFit, Begun
<1>6. NotYetCreated'
  BY DEF IInv, NotYetCreated
<1>7. MarkedFilesAreJournaled'
  BY DEF IInv, TypeOK, MarkedFilesAreJournaled, Written, Begun
<1> QED BY <1>1, <1>2, <1>3, <1>4, <1>5, <1>6, <1>7 DEF IInv

\* Replacing the encrypted profile keeps the invariant.
LEMMA WriteProfileInv ==
    ASSUME IInv, NEW p \in Procs, WriteProfile(p)
    PROVE  IInv'
<1> USE DEF WriteProfile, At, Goto, bindings
<1>1. TypeOK'
  BY DEF IInv, TypeOK, Steps, Hand, Ops, Files, Journal, Phases, HandIsFull,
     Written, Begun
<1>2. GuardIsHeld'
  BY DEF IInv, TypeOK, GuardIsHeld
<1>3. ASSUME NEW q \in Procs PROVE HandIsFull(q)'
  BY <1>3 DEF IInv, TypeOK, HandIsFull, GuardIsHeld, Begun
<1>4. ASSUME NEW q \in Procs PROVE Written(q)'
  BY <1>4 DEF IInv, TypeOK, Written, HandIsFull, GuardIsHeld, Begun, Files,
     Journal
<1>5. JournalsFit'
  BY DEF IInv, JournalsFit, Begun
<1>6. NotYetCreated'
  BY DEF IInv, NotYetCreated
<1>7. MarkedFilesAreJournaled'
  BY DEF IInv, TypeOK, MarkedFilesAreJournaled, Written, Begun
<1> QED BY <1>1, <1>2, <1>3, <1>4, <1>5, <1>6, <1>7 DEF IInv

\* Binding the project keeps the invariant.
LEMMA CommitBindInv ==
    ASSUME IInv, NEW p \in Procs, CommitBind(p)
    PROVE  IInv'
<1> USE DEF CommitBind, BindLocal, LockedIn, At, Goto, bindings
<1>1. TypeOK'
  BY DEF IInv, TypeOK, Files, Journal, Hand, Steps, HandIsFull, Written,
     Begun, LockedTool, Lock, Config, LockOrEmpty, NoTools, Ops, Phases
<1>2. GuardIsHeld'
  BY DEF IInv, TypeOK, GuardIsHeld
<1>3. ASSUME NEW q \in Procs PROVE HandIsFull(q)'
  BY <1>3 DEF IInv, TypeOK, HandIsFull, GuardIsHeld, Begun
<1>4. ASSUME NEW q \in Procs PROVE Written(q)'
  BY <1>4 DEF IInv, TypeOK, Written, HandIsFull, GuardIsHeld, Begun
<1>5. JournalsFit'
  BY DEF IInv, JournalsFit, Begun
<1>6. NotYetCreated'
  BY DEF IInv, NotYetCreated
<1>7. MarkedFilesAreJournaled'
  BY DEF IInv, MarkedFilesAreJournaled
<1> QED BY <1>1, <1>2, <1>3, <1>4, <1>5, <1>6, <1>7 DEF IInv

\* Registering the project keeps the invariant.
LEMMA CommitRegisterInv ==
    ASSUME IInv, NEW p \in Procs, CommitRegister(p)
    PROVE  IInv'
<1> USE DEF CommitRegister, At, Goto, bindings
<1>1. TypeOK'
  BY DEF IInv, TypeOK, Steps
<1>2. GuardIsHeld'
  BY DEF IInv, TypeOK, GuardIsHeld
<1>3. ASSUME NEW q \in Procs PROVE HandIsFull(q)'
  BY <1>3 DEF IInv, TypeOK, HandIsFull, GuardIsHeld, Begun
<1>4. ASSUME NEW q \in Procs PROVE Written(q)'
  BY <1>4 DEF IInv, TypeOK, Written, HandIsFull, GuardIsHeld, Begun
<1>5. JournalsFit'
  BY DEF IInv, JournalsFit, Begun
<1>6. NotYetCreated'
  BY DEF IInv, NotYetCreated
<1>7. MarkedFilesAreJournaled'
  BY DEF IInv, MarkedFilesAreJournaled
<1> QED BY <1>1, <1>2, <1>3, <1>4, <1>5, <1>6, <1>7 DEF IInv

\* The commit point keeps the invariant: all the files are the new ones.
LEMMA CommitJournalInv ==
    ASSUME IInv, NEW p \in Procs, CommitJournal(p)
    PROVE  IInv'
<1> USE DEF CommitJournal, At, Goto, bindings
<1> DEFINE id == hand[p].id
<1>a. /\ id \in Ids /\ journals[id] \in Journal /\ journals[id].phase = "prepared"
      /\ marker = id /\ guard = p
  BY DEF IInv, TypeOK, Written, HandIsFull, Begun, GuardIsHeld
<1>b. PICK journal \in Journal :
        /\ journal.phase = "committed"
        /\ journal.old = journals[id].old /\ journal.new = journals[id].new
        /\ journals' = [journals EXCEPT ![id] = journal]
  BY <1>a DEF IInv, TypeOK, Journal, Phases
<1>c. journal # None
  BY NoneIsNoJournal
<1>d. pc[p] = "commit" /\ pc' = [pc EXCEPT ![p] = "clear"]
  OBVIOUS
<1>e. UNCHANGED <<files, marker, guard, bindings, hand, deaths>>
  OBVIOUS
<1> HIDE DEF CommitJournal
<1>1. TypeOK'
  BY <1>a, <1>b, <1>d, <1>e DEF IInv, TypeOK, Steps
<1>2. GuardIsHeld'
  BY <1>a, <1>d, <1>e DEF IInv, TypeOK, GuardIsHeld
<1>3. ASSUME NEW q \in Procs PROVE HandIsFull(q)'
  BY <1>3, <1>a, <1>b, <1>c, <1>d, <1>e DEF IInv, TypeOK, HandIsFull,
     GuardIsHeld, Begun
<1>4. ASSUME NEW q \in Procs PROVE Written(q)'
  BY <1>4, <1>a, <1>b, <1>d, <1>e DEF IInv, TypeOK, Written, GuardIsHeld
<1>5. JournalsFit'
  BY <1>a, <1>b, <1>e, NoneIsNoJournal DEF IInv, TypeOK, JournalsFit, Begun
<1>6. NotYetCreated'
  BY <1>a, <1>d, <1>e DEF IInv, NotYetCreated, TypeOK
<1>7. MarkedFilesAreJournaled'
  BY <1>a, <1>b, <1>c, <1>d, <1>e DEF IInv, TypeOK, MarkedFilesAreJournaled,
     Written, Begun
<1> QED BY <1>1, <1>2, <1>3, <1>4, <1>5, <1>6, <1>7 DEF IInv

\* Removing the marker of a finished journal keeps the invariant.
LEMMA ClearMarkerInv ==
    ASSUME IInv, NEW p \in Procs, ClearMarker(p)
    PROVE  IInv'
<1> USE DEF ClearMarker, Return, EmptyHand, At, Goto, bindings
<1>1. TypeOK'
  BY DEF IInv, TypeOK, Steps, Hand, Ops
<1>2. GuardIsHeld'
  BY DEF IInv, TypeOK, GuardIsHeld
<1>3. ASSUME NEW q \in Procs PROVE HandIsFull(q)'
  BY <1>3 DEF IInv, TypeOK, HandIsFull, GuardIsHeld, Begun
<1>4. ASSUME NEW q \in Procs PROVE Written(q)'
  BY <1>4 DEF IInv, TypeOK, Written, GuardIsHeld
<1>5. JournalsFit'
  BY DEF IInv, JournalsFit, Begun
<1>6. NotYetCreated'
  BY DEF IInv, NotYetCreated
<1>7. MarkedFilesAreJournaled'
  BY DEF IInv, MarkedFilesAreJournaled
<1> QED BY <1>1, <1>2, <1>3, <1>4, <1>5, <1>6, <1>7 DEF IInv

\* Loading and installing keeps the invariant.
LEMMA InstallLoadInv ==
    ASSUME IInv, NEW p \in Procs, InstallLoad(p)
    PROVE  IInv'
<1> USE DEF InstallLoad, At, Goto, bindings
<1>a. PICK names \in SUBSET Tools :
        /\ Settle(p, names, Loaded)
        /\ installed' = installed \cup Payloads(Loaded.lock, names)
  OBVIOUS
<1>1. TypeOK'
  <2>1. Payloads(Loaded.lock, names) \subseteq Tools \X Versions
    BY LoadedType DEF Lock, LockedTool, Payloads, LockedIn
  <2>2. hand' \in [Procs -> Hand]
    BY <1>a, LoadedType, SettledHand
  <2>3. QED BY <1>a, <2>1, <2>2 DEF IInv, TypeOK, Steps
<1>2. GuardIsHeld'
  BY DEF IInv, TypeOK, GuardIsHeld
<1>3. ASSUME NEW q \in Procs PROVE HandIsFull(q)'
  BY <1>3, <1>a, LoadedType DEF IInv, TypeOK, HandIsFull, GuardIsHeld, Begun,
     Settle
<1>4. ASSUME NEW q \in Procs PROVE Written(q)'
  BY <1>4, <1>a DEF IInv, TypeOK, Written, GuardIsHeld
<1>5. JournalsFit'
  BY DEF IInv, JournalsFit, Begun
<1>6. NotYetCreated'
  BY DEF IInv, NotYetCreated
<1>7. MarkedFilesAreJournaled'
  BY DEF IInv, MarkedFilesAreJournaled
<1> QED BY <1>1, <1>2, <1>3, <1>4, <1>5, <1>6, <1>7 DEF IInv

\* Binding after install keeps the invariant.
LEMMA InstallBindInv ==
    ASSUME IInv, NEW p \in Procs, InstallBind(p)
    PROVE  IInv'
<1> USE DEF InstallBind, LockedIn, At, Goto, bindings
<1>1. TypeOK'
  BY DEF IInv, TypeOK, Files, Journal, Hand, Steps, HandIsFull, Written,
     Begun, LockedTool, Lock, Config, LockOrEmpty, NoTools, Ops, Phases
<1>2. GuardIsHeld'
  BY DEF IInv, TypeOK, GuardIsHeld
<1>3. ASSUME NEW q \in Procs PROVE HandIsFull(q)'
  BY <1>3 DEF IInv, TypeOK, HandIsFull, GuardIsHeld, Begun
<1>4. ASSUME NEW q \in Procs PROVE Written(q)'
  BY <1>4 DEF IInv, TypeOK, Written, GuardIsHeld
<1>5. JournalsFit'
  BY DEF IInv, JournalsFit, Begun
<1>6. NotYetCreated'
  BY DEF IInv, NotYetCreated
<1>7. MarkedFilesAreJournaled'
  BY DEF IInv, MarkedFilesAreJournaled
<1> QED BY <1>1, <1>2, <1>3, <1>4, <1>5, <1>6, <1>7 DEF IInv

\* Registering after install keeps the invariant.
LEMMA InstallRegisterInv ==
    ASSUME IInv, NEW p \in Procs, InstallRegister(p)
    PROVE  IInv'
<1> USE DEF InstallRegister, Return, EmptyHand, At, Goto, bindings
<1>1. TypeOK'
  BY DEF IInv, TypeOK, Steps, Hand, Ops
<1>2. GuardIsHeld'
  BY DEF IInv, TypeOK, GuardIsHeld
<1>3. ASSUME NEW q \in Procs PROVE HandIsFull(q)'
  BY <1>3 DEF IInv, TypeOK, HandIsFull, GuardIsHeld, Begun
<1>4. ASSUME NEW q \in Procs PROVE Written(q)'
  BY <1>4 DEF IInv, TypeOK, Written, GuardIsHeld
<1>5. JournalsFit'
  BY DEF IInv, JournalsFit, Begun
<1>6. NotYetCreated'
  BY DEF IInv, NotYetCreated
<1>7. MarkedFilesAreJournaled'
  BY DEF IInv, MarkedFilesAreJournaled
<1> QED BY <1>1, <1>2, <1>3, <1>4, <1>5, <1>6, <1>7 DEF IInv

\* The second look of repair, under the guard, keeps the invariant: nobody
\* else is writing, so a prepared journal is an abandoned one.
LEMMA RecheckInv ==
    ASSUME IInv, NEW p \in Procs, Recheck(p)
    PROVE  IInv'
<1> USE DEF Recheck, RepairRefused, Restorable, At, Goto, bindings
<1>1. TypeOK'
  BY DEF IInv, TypeOK, Steps
<1>2. GuardIsHeld'
  BY DEF IInv, TypeOK, GuardIsHeld
<1>3. ASSUME NEW q \in Procs PROVE HandIsFull(q)'
  BY <1>3 DEF IInv, TypeOK, HandIsFull, GuardIsHeld, Begun
<1>4. ASSUME NEW q \in Procs PROVE Written(q)'
  BY <1>4 DEF IInv, TypeOK, Written, GuardIsHeld
<1>5. JournalsFit'
  BY DEF IInv, JournalsFit, Begun
<1>6. NotYetCreated'
  BY DEF IInv, NotYetCreated
<1>7. MarkedFilesAreJournaled'
  BY DEF IInv, MarkedFilesAreJournaled
<1> QED BY <1>1, <1>2, <1>3, <1>4, <1>5, <1>6, <1>7 DEF IInv

\* Restoring the configuration keeps the invariant.
LEMMA RestoreConfigInv ==
    ASSUME IInv, NEW p \in Procs, RestoreConfig(p)
    PROVE  IInv'
<1> USE DEF RestoreConfig, At, Goto, bindings
<1>1. TypeOK'
  <2>1. journals[hand[p].id] \in Journal
    BY DEF IInv, TypeOK, HandIsFull, Begun
  <2>2. files' \in Files
    BY <2>1 DEF IInv, TypeOK, Files, Journal
  <2>3. QED BY <2>2 DEF IInv, TypeOK, Steps
<1>2. GuardIsHeld'
  BY DEF IInv, TypeOK, GuardIsHeld
<1>3. ASSUME NEW q \in Procs PROVE HandIsFull(q)'
  BY <1>3 DEF IInv, TypeOK, HandIsFull, GuardIsHeld, Begun
<1>4. ASSUME NEW q \in Procs PROVE Written(q)'
  BY <1>4 DEF IInv, TypeOK, Written, GuardIsHeld
<1>5. JournalsFit'
  BY DEF IInv, JournalsFit, Begun
<1>6. NotYetCreated'
  BY DEF IInv, TypeOK, NotYetCreated, Written, JournalsFit, Begun, Loadable,
     HandIsFull
<1>7. MarkedFilesAreJournaled'
  BY DEF IInv, TypeOK, MarkedFilesAreJournaled, Written, Begun
<1> QED BY <1>1, <1>2, <1>3, <1>4, <1>5, <1>6, <1>7 DEF IInv

\* Restoring the encrypted profile keeps the invariant.
LEMMA RestoreProfileInv ==
    ASSUME IInv, NEW p \in Procs, RestoreProfile(p)
    PROVE  IInv'
<1> USE DEF RestoreProfile, At, Goto, bindings
<1>1. TypeOK'
  BY DEF IInv, TypeOK, Steps, Files, Journal, Phases, HandIsFull, Begun
<1>2. GuardIsHeld'
  BY DEF IInv, TypeOK, GuardIsHeld
<1>3. ASSUME NEW q \in Procs PROVE HandIsFull(q)'
  BY <1>3 DEF IInv, TypeOK, HandIsFull, GuardIsHeld, Begun
<1>4. ASSUME NEW q \in Procs PROVE Written(q)'
  BY <1>4 DEF IInv, TypeOK, Written, GuardIsHeld
<1>5. JournalsFit'
  BY DEF IInv, JournalsFit, Begun
<1>6. NotYetCreated'
  BY DEF IInv, NotYetCreated
<1>7. MarkedFilesAreJournaled'
  BY DEF IInv, TypeOK, MarkedFilesAreJournaled, Written, Begun
<1> QED BY <1>1, <1>2, <1>3, <1>4, <1>5, <1>6, <1>7 DEF IInv

\* Restoring the lock keeps the invariant.
LEMMA RestoreLockInv ==
    ASSUME IInv, NEW p \in Procs, RestoreLock(p)
    PROVE  IInv'
<1> USE DEF RestoreLock, At, Goto, bindings
<1>1. TypeOK'
  BY DEF IInv, TypeOK, Steps, Files, Journal, Phases, HandIsFull, Begun
<1>2. GuardIsHeld'
  BY DEF IInv, TypeOK, GuardIsHeld
<1>3. ASSUME NEW q \in Procs PROVE HandIsFull(q)'
  BY <1>3 DEF IInv, TypeOK, HandIsFull, GuardIsHeld, Begun
<1>4. ASSUME NEW q \in Procs PROVE Written(q)'
  BY <1>4 DEF IInv, TypeOK, Written, GuardIsHeld
<1>5. JournalsFit'
  BY DEF IInv, JournalsFit, Begun
<1>6. NotYetCreated'
  BY DEF IInv, NotYetCreated
<1>7. MarkedFilesAreJournaled'
  BY DEF IInv, TypeOK, MarkedFilesAreJournaled, Written, Begun
<1> QED BY <1>1, <1>2, <1>3, <1>4, <1>5, <1>6, <1>7 DEF IInv

\* Binding to the restored lock keeps the invariant.
LEMMA RestoreBindInv ==
    ASSUME IInv, NEW p \in Procs, RestoreBind(p)
    PROVE  IInv'
<1> USE DEF RestoreBind, BindLocal, LockedIn, At, Goto, bindings
<1>1. TypeOK'
  <2>1. journals[hand[p].id] \in Journal
    BY DEF IInv, TypeOK, HandIsFull, Begun
  <2>2. LockOrEmpty(journals[hand[p].id].old.lock) \in Lock
    BY <2>1, EmptyIsSelection DEF Journal, Files, LockOrEmpty
  <2>3. venv' \in Versions \cup {None}
    BY <2>2 DEF IInv, TypeOK, Lock, LockedTool
  <2>4. QED BY <2>3 DEF IInv, TypeOK, Steps
<1>2. GuardIsHeld'
  BY DEF IInv, TypeOK, GuardIsHeld
<1>3. ASSUME NEW q \in Procs PROVE HandIsFull(q)'
  BY <1>3 DEF IInv, TypeOK, HandIsFull, GuardIsHeld, Begun
<1>4. ASSUME NEW q \in Procs PROVE Written(q)'
  BY <1>4 DEF IInv, TypeOK, Written, GuardIsHeld
<1>5. JournalsFit'
  BY DEF IInv, JournalsFit, Begun
<1>6. NotYetCreated'
  BY DEF IInv, NotYetCreated
<1>7. MarkedFilesAreJournaled'
  BY DEF IInv, MarkedFilesAreJournaled
<1> QED BY <1>1, <1>2, <1>3, <1>4, <1>5, <1>6, <1>7 DEF IInv

\* Closing a recovered journal keeps the invariant: all the files are old.
LEMMA MarkRecoveredInv ==
    ASSUME IInv, NEW p \in Procs, MarkRecovered(p)
    PROVE  IInv'
<1> USE DEF MarkRecovered, At, Goto, bindings
<1> DEFINE id == hand[p].id
<1>a. /\ id \in Ids /\ journals[id] \in Journal /\ journals[id].phase = "prepared"
      /\ marker = id /\ guard = p
  BY DEF IInv, TypeOK, Written, HandIsFull, Begun, GuardIsHeld
<1>b. PICK journal \in Journal :
        /\ journal.phase = "recovered"
        /\ journal.old = journals[id].old /\ journal.new = journals[id].new
        /\ journals' = [journals EXCEPT ![id] = journal]
  BY <1>a DEF IInv, TypeOK, Journal, Phases
<1>c. journal # None
  BY NoneIsNoJournal
<1>d. pc[p] = "recovered" /\ pc' = [pc EXCEPT ![p] = "clear"]
  OBVIOUS
<1>e. UNCHANGED <<files, marker, guard, bindings, hand, deaths>>
  OBVIOUS
<1> HIDE DEF MarkRecovered
<1>1. TypeOK'
  BY <1>a, <1>b, <1>d, <1>e DEF IInv, TypeOK, Steps
<1>2. GuardIsHeld'
  BY <1>a, <1>d, <1>e DEF IInv, TypeOK, GuardIsHeld
<1>3. ASSUME NEW q \in Procs PROVE HandIsFull(q)'
  BY <1>3, <1>a, <1>b, <1>c, <1>d, <1>e DEF IInv, TypeOK, HandIsFull,
     GuardIsHeld, Begun
<1>4. ASSUME NEW q \in Procs PROVE Written(q)'
  BY <1>4, <1>a, <1>b, <1>d, <1>e DEF IInv, TypeOK, Written, GuardIsHeld
<1>5. JournalsFit'
  BY <1>a, <1>b, <1>e, NoneIsNoJournal DEF IInv, TypeOK, JournalsFit, Begun
<1>6. NotYetCreated'
  BY <1>a, <1>d, <1>e DEF IInv, NotYetCreated, TypeOK
<1>7. MarkedFilesAreJournaled'
  <2>1. files = journal.old
    <3>1. files \in Files /\ journal.old \in Files
      BY DEF IInv, TypeOK, Journal
    <3>2. /\ files.config = journal.old.config
          /\ files.lock = journal.old.lock
          /\ files.profile = journal.old.profile
      BY <1>b, <1>d DEF IInv, Written
    <3>3. QED BY <3>1, <3>2, FilesEqual
  <2>2. QED BY <2>1, <1>a, <1>b, <1>c, <1>e DEF IInv, TypeOK,
       MarkedFilesAreJournaled
<1> QED BY <1>1, <1>2, <1>3, <1>4, <1>5, <1>6, <1>7 DEF IInv

\* Starting a reader keeps the invariant.
LEMMA StartReadInv ==
    ASSUME IInv, NEW p \in Procs, StartRead(p)
    PROVE  IInv'
<1> USE DEF StartRead, Start, At, Goto, bindings
<1>1. TypeOK'
  BY DEF IInv, TypeOK, Steps, Hand, Ops
<1>2. GuardIsHeld'
  BY DEF IInv, TypeOK, GuardIsHeld
<1>3. ASSUME NEW q \in Procs PROVE HandIsFull(q)'
  BY <1>3 DEF IInv, TypeOK, HandIsFull, GuardIsHeld, Begun
<1>4. ASSUME NEW q \in Procs PROVE Written(q)'
  BY <1>4 DEF IInv, TypeOK, Written, HandIsFull, GuardIsHeld, Begun
<1>5. JournalsFit'
  BY DEF IInv, JournalsFit, Begun
<1>6. NotYetCreated'
  BY DEF IInv, NotYetCreated
<1>7. MarkedFilesAreJournaled'
  BY DEF IInv, MarkedFilesAreJournaled
<1> QED BY <1>1, <1>2, <1>3, <1>4, <1>5, <1>6, <1>7 DEF IInv

\* Reading the configuration keeps the invariant.
LEMMA ReadConfigInv ==
    ASSUME IInv, NEW p \in Procs, ReadConfig(p)
    PROVE  IInv'
<1> USE DEF ReadConfig, At, Goto, bindings
<1>1. TypeOK'
  <2>1. [config |-> files.config, lock |-> None, profile |-> None] \in Files
    BY DEF IInv, TypeOK, Files
  <2>2. QED BY <2>1 DEF IInv, TypeOK, Hand, Steps
<1>2. GuardIsHeld'
  BY DEF IInv, TypeOK, GuardIsHeld
<1>3. ASSUME NEW q \in Procs PROVE HandIsFull(q)'
  BY <1>3 DEF IInv, TypeOK, HandIsFull, GuardIsHeld, Begun, Hand, Files,
     Loadable
<1>4. ASSUME NEW q \in Procs PROVE Written(q)'
  BY <1>4 DEF IInv, TypeOK, Written, HandIsFull, GuardIsHeld, Begun
<1>5. JournalsFit'
  BY DEF IInv, JournalsFit, Begun
<1>6. NotYetCreated'
  BY DEF IInv, NotYetCreated
<1>7. MarkedFilesAreJournaled'
  BY DEF IInv, MarkedFilesAreJournaled
<1> QED BY <1>1, <1>2, <1>3, <1>4, <1>5, <1>6, <1>7 DEF IInv

\* Reading the lock keeps the invariant.
LEMMA ReadLockInv ==
    ASSUME IInv, NEW p \in Procs, ReadLock(p)
    PROVE  IInv'
<1> USE DEF ReadLock, At, Goto, bindings
<1>1. TypeOK'
  <2>1. hand[p].next \in Files
    BY DEF IInv, TypeOK, HandIsFull, Hand
  <2>2. [hand[p].next EXCEPT !.lock = files.lock] \in Files
    BY <2>1 DEF IInv, TypeOK, Files
  <2>3. QED BY <2>2 DEF IInv, TypeOK, Hand, Steps
<1>2. GuardIsHeld'
  BY DEF IInv, TypeOK, GuardIsHeld
<1>3. ASSUME NEW q \in Procs PROVE HandIsFull(q)'
  BY <1>3 DEF IInv, TypeOK, HandIsFull, GuardIsHeld, Begun, Hand, Files,
     Loadable
<1>4. ASSUME NEW q \in Procs PROVE Written(q)'
  BY <1>4 DEF IInv, TypeOK, Written, HandIsFull, GuardIsHeld, Begun
<1>5. JournalsFit'
  BY DEF IInv, JournalsFit, Begun
<1>6. NotYetCreated'
  BY DEF IInv, NotYetCreated
<1>7. MarkedFilesAreJournaled'
  BY DEF IInv, MarkedFilesAreJournaled
<1> QED BY <1>1, <1>2, <1>3, <1>4, <1>5, <1>6, <1>7 DEF IInv

\* Leaving with an error keeps the invariant.
LEMMA GiveUpInv ==
    ASSUME IInv, NEW p \in Procs, GiveUp(p)
    PROVE  IInv'
<1> USE DEF GiveUp, Return, EmptyHand, At, Goto, bindings
<1>1. TypeOK'
  BY DEF IInv, TypeOK, Steps, Hand, Ops
<1>2. GuardIsHeld'
  BY DEF IInv, TypeOK, GuardIsHeld
<1>3. ASSUME NEW q \in Procs PROVE HandIsFull(q)'
  BY <1>3 DEF IInv, TypeOK, HandIsFull, GuardIsHeld, Begun
<1>4. ASSUME NEW q \in Procs PROVE Written(q)'
  BY <1>4 DEF IInv, TypeOK, Written, HandIsFull, GuardIsHeld, Begun
<1>5. JournalsFit'
  BY DEF IInv, JournalsFit, Begun
<1>6. NotYetCreated'
  BY DEF IInv, TypeOK, NotYetCreated
<1>7. MarkedFilesAreJournaled'
  BY DEF IInv, MarkedFilesAreJournaled
<1> QED BY <1>1, <1>2, <1>3, <1>4, <1>5, <1>6, <1>7 DEF IInv

\* A death at any step keeps the invariant: the marker and the journal it
\* leaves behind still account for every file.
LEMMA DieInv ==
    ASSUME IInv, NEW p \in Procs, Die(p)
    PROVE  IInv'
<1> USE DEF Die, Return, EmptyHand, At, Goto, bindings
<1>1. TypeOK'
  BY DEF IInv, TypeOK, Steps, Hand, Ops
<1>2. GuardIsHeld'
  BY DEF IInv, TypeOK, GuardIsHeld
<1>3. ASSUME NEW q \in Procs PROVE HandIsFull(q)'
  BY <1>3 DEF IInv, TypeOK, HandIsFull, GuardIsHeld, Begun
<1>4. ASSUME NEW q \in Procs PROVE Written(q)'
  BY <1>4 DEF IInv, TypeOK, Written, HandIsFull, GuardIsHeld, Begun
<1>5. JournalsFit'
  BY DEF IInv, JournalsFit, Begun
<1>6. NotYetCreated'
  BY DEF IInv, TypeOK, NotYetCreated
<1>7. MarkedFilesAreJournaled'
  BY DEF IInv, MarkedFilesAreJournaled
<1> QED BY <1>1, <1>2, <1>3, <1>4, <1>5, <1>6, <1>7 DEF IInv

-----------------------------------------------------------------------------
\* The invariant holds before any command runs.
LEMMA InitInv ==
    ASSUME Init
    PROVE  IInv
<1> USE DEF Init
<1>1. TypeOK
  BY DEF TypeOK, EmptyHand, Hand, Ops, Steps
<1>2. Begun = {}
  BY DEF Begun
<1>3. GuardIsHeld
  BY DEF GuardIsHeld
<1>4. ASSUME NEW p \in Procs PROVE HandIsFull(p) /\ Written(p)
  BY DEF HandIsFull, Written
<1>5. JournalsFit /\ NotYetCreated /\ MarkedFilesAreJournaled
  BY <1>2 DEF JournalsFit, NotYetCreated, MarkedFilesAreJournaled
<1>6. QED BY <1>1, <1>3, <1>4, <1>5 DEF IInv

\* The invariant is about the state only.
LEMMA StutterInv ==
    ASSUME IInv, UNCHANGED vars
    PROVE  IInv'
  BY DEF IInv, vars, TypeOK, GuardIsHeld, HandIsFull, Written, JournalsFit,
         NotYetCreated, MarkedFilesAreJournaled, Begun

\* The invariant is inductive.
LEMMA NextInv ==
    ASSUME IInv, [Next]_vars
    PROVE  IInv'
<1>1. CASE UNCHANGED vars
  BY <1>1, StutterInv
<1>2. CASE Next
  <2>1. PICK p \in Procs : StartCommand(p) \/ StartRepair(p) \/ Guard(p)
                           \/ Proceed(p) \/ Die(p)
    BY <1>2 DEF Next
  <2>2. CASE StartCommand(p)
    BY <2>2, InitProjectInv, StartImportInv, StartEditInv, StartProfileInv,
       StartInstallInv,
       StartReadInv DEF StartCommand
  <2>3. CASE StartRepair(p)
    BY <2>3, StartRepairInv
  <2>4. CASE Guard(p)
    BY <2>4, GuardInv
  <2>5. CASE InitRegister(p) \/ GiveUp(p) \/ Read(p)
    BY <2>5, InitRegisterInv, GiveUpInv, ReadConfigInv, ReadLockInv DEF Read
  <2>6. CASE Edit(p)
    BY <2>6, UseToolsInv, RemoveInv, EditProfileInv, InstallSdkInv,
       ApplyImportInv, ImportCreateInv DEF Edit
  <2>7. CASE Commit(p)
    BY <2>7, WriteJournalInv, WriteMarkerInv, WriteConfigInv, WriteLockInv,
       WriteProfileInv, CommitBindInv, CommitRegisterInv, CommitJournalInv,
       ClearMarkerInv DEF Commit
  <2>8. CASE Install(p)
    BY <2>8, InstallLoadInv, InstallBindInv, InstallRegisterInv DEF Install
  <2>9. CASE Restore(p)
    BY <2>9, RecheckInv, RestoreConfigInv, RestoreProfileInv, RestoreLockInv,
       RestoreBindInv, MarkRecoveredInv DEF Restore
  <2>10. CASE Die(p)
    BY <2>10, DieInv
  <2>11. QED
    BY <2>1, <2>2, <2>3, <2>4, <2>5, <2>6, <2>7, <2>8, <2>9, <2>10 DEF Proceed
<1>3. QED BY <1>1, <1>2

-----------------------------------------------------------------------------
\* The inductive invariant of the journal protocol holds in every behaviour,
\* for any number of processes, transactions, tools, selectors, versions and
\* deaths, in a project and in the global selection.
THEOREM InvariantHolds == Spec => []IInv
  BY InitInv, NextInv, PTL DEF Spec

\* Every state is of the type the code gives it; in particular a journal's
\* phase is one recover_transactions knows.
THEOREM TypeCorrect == Spec => []TypeOK
<1>1. IInv => TypeOK
  BY DEF IInv
<1>2. QED BY <1>1, InvariantHolds, PTL

\* A marker always names a journal that accounts for each of the three files,
\* so that recover_transactions can always put back a whole state.
THEOREM MarkedFilesCanBeMadeWhole == Spec => []MarkedFilesAreJournaled
<1>1. IInv => MarkedFilesAreJournaled
  BY DEF IInv
<1>2. QED BY <1>1, InvariantHolds, PTL

-----------------------------------------------------------------------------
\* The action inside OutcomeIsFinal.
OutcomesKept ==
    \A id \in Ids :
        journals[id] # None /\ journals[id].phase # "prepared" =>
            journals'[id] = journals[id]

\* No step changes a journal that is committed or recovered.
LEMMA NextKeepsOutcomes ==
    ASSUME IInv, Next
    PROVE  OutcomesKept
<1>1. PICK p \in Procs : StartCommand(p) \/ StartRepair(p) \/ Guard(p)
                         \/ Proceed(p) \/ Die(p)
  BY DEF Next
<1>2. CASE WriteJournal(p)
  BY <1>2 DEF WriteJournal, OutcomesKept, IInv, TypeOK
<1>3. CASE CommitJournal(p)
  BY <1>3 DEF CommitJournal, OutcomesKept, IInv, TypeOK
<1>4. CASE MarkRecovered(p)
  <2>1. hand[p].id \in Ids /\ journals[hand[p].id].phase = "prepared"
    BY <1>4 DEF MarkRecovered, At, IInv, HandIsFull, Written, Begun
  <2>2. QED BY <1>4, <2>1 DEF MarkRecovered, OutcomesKept, IInv, TypeOK
<1>5. CASE UNCHANGED journals
  BY <1>5 DEF OutcomesKept
<1>6. StartCommand(p) \/ StartRepair(p) \/ Guard(p) \/ Die(p) => UNCHANGED journals
  BY DEF StartCommand, InitProject, StartImport, StartEdit, StartProfile,
         StartInstall, StartRead, StartRepair, Guard, Die
<1>7. Edit(p) \/ Install(p) \/ Read(p) \/ InitRegister(p) \/ GiveUp(p)
        => UNCHANGED journals
  BY DEF Edit, UseTools, Remove, EditProfile, InstallSdk, ApplyImport,
         ImportCreate, Install, InstallLoad, InstallBind, InstallRegister, Read, ReadConfig, ReadLock, InitRegister,
         GiveUp
<1>8. Commit(p) => WriteJournal(p) \/ CommitJournal(p) \/ UNCHANGED journals
  BY DEF Commit, WriteMarker, WriteConfig, WriteLock, WriteProfile,
     CommitBind,
         CommitRegister, ClearMarker
<1>9. Restore(p) => MarkRecovered(p) \/ UNCHANGED journals
  BY DEF Restore, Recheck, RestoreConfig, RestoreProfile, RestoreLock,
     RestoreBind
<1>10. QED
  BY <1>1, <1>2, <1>3, <1>4, <1>5, <1>6, <1>7, <1>8, <1>9 DEF Proceed

\* finish_commit and recover_transactions decide a transaction once: no later
\* repair, retry or crash turns a committed one back or the other way round.
THEOREM OutcomesAreFinal == Spec => OutcomeIsFinal
<1>1. IInv /\ [Next]_vars =>
        [\A id \in Ids :
           journals[id] # None /\ journals[id].phase # "prepared" =>
              journals'[id] = journals[id]]_vars
  BY NextKeepsOutcomes DEF OutcomesKept
<1>2. QED BY <1>1, InvariantHolds, PTL DEF Spec, OutcomeIsFinal

-----------------------------------------------------------------------------
\* The initial states are initial states of AtomicPair.
LEMMA InitRefines ==
    ASSUME Init
    PROVE  Atomic!Init
  BY DEF Init, Atomic!Init, Pending

\* Steps that leave files, marker and journals alone are stutters.
LEMMA SameFilesStutter ==
    ASSUME UNCHANGED <<files, marker, journals>>
    PROVE  UNCHANGED Atomic!vars
  BY DEF Atomic!vars, Pending

\* While a transaction is pending its files may change unseen.
LEMMA WhilePendingStutter ==
    ASSUME Pending, UNCHANGED <<marker, journals>>
    PROVE  UNCHANGED Atomic!vars
  BY DEF Atomic!vars, Pending

\* pinset init is the abstract creation.
LEMMA InitProjectCreates ==
    ASSUME IInv, NEW p \in Procs, InitProject(p)
    PROVE  Atomic!Create
<1>1. marker = None /\ marker' = None
  BY DEF InitProject, IInv, NotYetCreated
<1>2. ~Pending /\ ~Pending'
  BY <1>1 DEF Pending
<1>3. /\ files.config = None
      /\ files' = [files EXCEPT !.config = NoTools]
  BY DEF InitProject
<1>4. NoTools = Atomic!NoTools
  BY DEF NoTools, Atomic!NoTools
<1>5. QED BY <1>2, <1>3, <1>4 DEF Atomic!Create

\* So is the empty configuration an import starts from.
LEMMA ImportCreateCreates ==
    ASSUME IInv, NEW p \in Procs, ImportCreate(p)
    PROVE  Atomic!Create
<1>1. /\ files.config = None /\ marker = None /\ marker' = None
      /\ files' = [files EXCEPT !.config = NoTools]
  BY DEF ImportCreate, At, IInv, HandIsFull, NotYetCreated
<1>2. ~Pending /\ ~Pending'
  BY <1>1 DEF Pending
<1>3. NoTools = Atomic!NoTools
  BY DEF NoTools, Atomic!NoTools
<1>4. QED BY <1>1, <1>2, <1>3 DEF Atomic!Create

\* The marker makes the journaled pair the one being attempted.
LEMMA WriteMarkerProposes ==
    ASSUME IInv, NEW p \in Procs, WriteMarker(p)
    PROVE  Atomic!Propose
<1> DEFINE id == hand[p].id
<1>1. /\ id \in Begun /\ marker = None /\ files = journals[id].old
      /\ journals[id].phase = "prepared"
  BY DEF WriteMarker, At, IInv, Written
<1>2. id \in Ids /\ id # None /\ journals[id] \in Journal
  BY <1>1 DEF Begun, IInv, TypeOK
<1>3. ~Pending /\ Pending'
  BY <1>1, <1>2 DEF Pending, WriteMarker
<1>4. /\ journals[id].new \in Files /\ journals[id].new.lock # None
      /\ Loadable(journals[id].new.config, journals[id].new.lock)
  BY <1>1, <1>2 DEF IInv, JournalsFit, Journal
<1>5. marker' = id /\ journals' = journals /\ files' = files
  BY DEF WriteMarker
<1>6. /\ journals[id].new \in Atomic!Files
      /\ Atomic!Loadable(journals[id].new.config, journals[id].new.lock)
  BY <1>4 DEF Atomic!Files, Files, Atomic!Config, Config, Atomic!Lock, Lock,
     Atomic!LockedTool, LockedTool, Atomic!Loadable, Loadable, Atomic!Fits,
     Fits, Atomic!LockOrEmpty, LockOrEmpty, Atomic!NoTools, NoTools
<1>7. QED BY <1>1, <1>3, <1>4, <1>5, <1>6 DEF Atomic!Propose

\* Turning the journal to committed is the abstract commit.
LEMMA CommitJournalAccepts ==
    ASSUME IInv, NEW p \in Procs, CommitJournal(p)
    PROVE  Atomic!Accept
<1> DEFINE id == hand[p].id
<1>1. /\ id \in Begun /\ marker = id /\ files = journals[id].new
      /\ journals[id].phase = "prepared"
  BY DEF CommitJournal, At, IInv, Written
<1>2. id \in Ids /\ id # None /\ journals[id] \in Journal
  BY <1>1 DEF Begun, IInv, TypeOK
<1>3. /\ marker' = id /\ files' = files /\ journals'[id].phase = "committed"
  BY <1>1, <1>2 DEF CommitJournal, IInv, TypeOK, Journal
<1>4. Pending /\ ~Pending'
  BY <1>1, <1>2, <1>3 DEF Pending
<1>5. journals[id].new # None
  BY <1>2 DEF Journal
<1>6. QED BY <1>1, <1>3, <1>4, <1>5 DEF Atomic!Accept

\* Turning the journal to recovered is the abstract abort.
LEMMA MarkRecoveredRejects ==
    ASSUME IInv, NEW p \in Procs, MarkRecovered(p)
    PROVE  Atomic!Reject
<1> DEFINE id == hand[p].id
<1>1. id \in Begun /\ marker = id /\ journals[id].phase = "prepared"
  BY DEF MarkRecovered, At, IInv, Written, HandIsFull
<1>2. id \in Ids /\ id # None /\ journals[id] \in Journal
  BY <1>1 DEF Begun, IInv, TypeOK
<1>3. files = journals[id].old
  <2>1. files \in Files /\ journals[id].old \in Files
    BY <1>2 DEF IInv, TypeOK, Journal
  <2>2. /\ files.config = journals[id].old.config
        /\ files.lock = journals[id].old.lock
        /\ files.profile = journals[id].old.profile
    BY DEF MarkRecovered, At, IInv, Written
  <2>3. QED BY <2>1, <2>2, FilesEqual
<1>4. /\ marker' = id /\ files' = files /\ journals'[id].phase = "recovered"
  BY <1>1, <1>2 DEF MarkRecovered, IInv, TypeOK, Journal
<1>5. Pending /\ ~Pending'
  BY <1>1, <1>2, <1>4 DEF Pending
<1>6. journals[id].new # None
  BY <1>2 DEF Journal
<1>7. QED BY <1>1, <1>3, <1>4, <1>5, <1>6 DEF Atomic!Reject

\* The file-by-file steps of a commit and of a restore are stutters.
LEMMA FileStepsStutter ==
    ASSUME IInv, NEW p \in Procs,
           \/ WriteConfig(p) \/ WriteLock(p) \/ WriteProfile(p)
           \/ RestoreConfig(p) \/ RestoreProfile(p) \/ RestoreLock(p)
    PROVE  UNCHANGED Atomic!vars
<1>1. pc[p] \in {"put-config", "put-lock", "put-profile", "restore-config",
                 "restore-profile", "restore-lock"}
  BY DEF WriteConfig, WriteLock, WriteProfile, RestoreConfig, RestoreProfile,
         RestoreLock, At
<1>2. hand[p].id \in Begun /\ marker = hand[p].id
      /\ journals[hand[p].id].phase = "prepared"
  BY <1>1 DEF IInv, Written, HandIsFull
<1>3. Pending
  BY <1>2 DEF Pending, Begun
<1>4. UNCHANGED <<marker, journals>>
  BY DEF WriteConfig, WriteLock, WriteProfile, RestoreConfig, RestoreProfile,
         RestoreLock
<1>5. QED BY <1>3, <1>4, WhilePendingStutter

\* A journal without a marker means nothing yet.
LEMMA WriteJournalStutters ==
    ASSUME IInv, NEW p \in Procs, WriteJournal(p)
    PROVE  UNCHANGED Atomic!vars
  BY DEF WriteJournal, Atomic!vars, Pending

\* Removing the marker of a finished transaction is a stutter.
LEMMA ClearMarkerStutters ==
    ASSUME IInv, NEW p \in Procs, ClearMarker(p)
    PROVE  UNCHANGED Atomic!vars
<1>1. ~Pending /\ ~Pending'
  BY DEF ClearMarker, At, IInv, Written, Pending
<1>2. QED BY <1>1 DEF ClearMarker, Atomic!vars

\* Every step is a step of AtomicPair or a stutter.
LEMMA NextRefines ==
    ASSUME IInv, [Next]_vars
    PROVE  [Atomic!Next]_(Atomic!vars)
<1>1. CASE UNCHANGED vars
  BY <1>1, SameFilesStutter DEF vars
<1>2. CASE Next
  <2>1. PICK p \in Procs : StartCommand(p) \/ StartRepair(p) \/ Guard(p)
                           \/ Proceed(p) \/ Die(p)
    BY <1>2 DEF Next
  <2>2. CASE StartCommand(p)
    <3>1. InitProject(p) \/ UNCHANGED <<files, marker, journals>>
      BY <2>2 DEF StartCommand, StartImport, StartEdit, StartProfile,
         StartInstall, StartRead
    <3>2. QED BY <3>1, InitProjectCreates, SameFilesStutter DEF Atomic!Next
  <2>3. CASE StartRepair(p) \/ Guard(p) \/ Die(p)
    BY <2>3, SameFilesStutter DEF StartRepair, Guard, Die
  <2>4. CASE InitRegister(p) \/ Edit(p) \/ Install(p) \/ Read(p) \/ GiveUp(p)
    <3>1. ImportCreate(p) \/ UNCHANGED <<files, marker, journals>>
      BY <2>4 DEF InitRegister, Edit, UseTools, Remove, EditProfile,
         InstallSdk,
         ApplyImport, Install, InstallLoad, InstallBind, InstallRegister, Read, ReadConfig,
         ReadLock, GiveUp
    <3>2. QED BY <3>1, ImportCreateCreates, SameFilesStutter DEF Atomic!Next
  <2>5. CASE Commit(p)
    <3>1. CASE WriteJournal(p)
      BY <3>1, WriteJournalStutters
    <3>2. CASE WriteMarker(p)
      BY <3>2, WriteMarkerProposes DEF Atomic!Next
    <3>3. CASE WriteConfig(p) \/ WriteLock(p) \/ WriteProfile(p)
      BY <3>3, FileStepsStutter
    <3>4. CASE CommitBind(p) \/ CommitRegister(p)
      BY <3>4, SameFilesStutter DEF CommitBind, CommitRegister
    <3>5. CASE CommitJournal(p)
      BY <3>5, CommitJournalAccepts DEF Atomic!Next
    <3>6. CASE ClearMarker(p)
      BY <3>6, ClearMarkerStutters
    <3>7. QED BY <2>5, <3>1, <3>2, <3>3, <3>4, <3>5, <3>6 DEF Commit
  <2>6. CASE Restore(p)
    <3>1. CASE Recheck(p) \/ RestoreBind(p)
      BY <3>1, SameFilesStutter DEF Recheck, RestoreBind
    <3>2. CASE RestoreConfig(p) \/ RestoreProfile(p) \/ RestoreLock(p)
      BY <3>2, FileStepsStutter
    <3>3. CASE MarkRecovered(p)
      BY <3>3, MarkRecoveredRejects DEF Atomic!Next
    <3>4. QED BY <2>6, <3>1, <3>2, <3>3 DEF Restore
  <2>7. QED BY <2>1, <2>2, <2>3, <2>4, <2>5, <2>6 DEF Proceed
<1>3. QED BY <1>1, <1>2

\* However commands interleave and die between two writes, the journal
\* protocol of transactions.rs changes configuration, lock and encrypted
\* profile together or not at all, one transaction at a time.
THEOREM TransactionsImplementAtomicPair == Spec => ImplementsAtomicPair
<1>1. Init => Atomic!Init
  BY InitRefines
<1>2. IInv /\ [Next]_vars => [Atomic!Next]_(Atomic!vars)
  BY NextRefines
<1>3. QED
  BY <1>1, <1>2, InvariantHolds, PTL DEF Spec, ImplementsAtomicPair,
     Atomic!Spec

-----------------------------------------------------------------------------
\* What one process does.
Step(p) ==
    StartCommand(p) \/ StartRepair(p) \/ Guard(p) \/ Proceed(p) \/ Die(p)

\* Only one configuration has the selectors a lock was made for.
LEMMA FitsOnce ==
    ASSUME NEW c \in Config, NEW d \in Config, NEW lock \in Lock,
           Fits(c, lock), Fits(d, lock)
    PROVE  c = d
<1>1. ASSUME NEW t \in Tools PROVE c[t] = d[t]
  BY DEF Fits, Lock, LockedTool
<1>2. QED BY <1>1 DEF Config

\* Only the empty lock fits a configuration that selects nothing.
LEMMA NothingFitsNothing ==
    ASSUME NEW lock \in Lock, Fits(NoTools, lock)
    PROVE  lock = NoTools
<1>1. ASSUME NEW t \in Tools PROVE lock[t] = None
  BY DEF Fits, NoTools, Lock, LockedTool
<1>2. QED BY <1>1 DEF Lock, NoTools

\* The files of every side are of the type the code gives them.
LEMMA SidesType ==
    ASSUME IInv
    PROVE  /\ Sides \subseteq Files
           /\ \A side \in Sides : LockOrEmpty(side.lock) \in Lock
<1>1. ASSUME NEW id \in Begun
      PROVE  journals[id].old \in Files /\ journals[id].new \in Files
  BY DEF Begun, IInv, TypeOK, Journal
<1>2. Settled \in Files
  <2>1. CASE Pending
    BY <2>1, <1>1 DEF Settled, Pending, Begun, IInv, TypeOK,
       MarkedFilesAreJournaled
  <2>2. CASE ~Pending
    BY <2>2 DEF Settled, IInv, TypeOK
  <2>3. QED BY <2>1, <2>2
<1>3. Sides \subseteq Files
  BY <1>1, <1>2 DEF Sides
<1>4. ASSUME NEW side \in Sides PROVE LockOrEmpty(side.lock) \in Lock
  BY <1>3, EmptyIsSelection DEF Files, LockOrEmpty
<1>5. QED BY <1>3, <1>4

\* The transaction a marker names was begun.
LEMMA MarkedIsBegun ==
    ASSUME IInv, marker # None
    PROVE  marker \in Begun
  BY DEF IInv, TypeOK, MarkedFilesAreJournaled, Begun

-----------------------------------------------------------------------------
\* A side stays a side, and so does a pair that was put back.
KeepsSides ==
    /\ \A id \in Begun :
        /\ id \in Begun'
        /\ journals'[id].old = journals[id].old
        /\ journals'[id].new = journals[id].new
    /\ Settled \in Sides'

\* Sides are only added.
LEMMA SidesGrow ==
    ASSUME KeepsSides
    PROVE  /\ \A side \in Sides : side \in Sides'
           /\ \A config, lock :
                Whole(config, lock) \/ PutBack(config, lock) =>
                  (Whole(config, lock) \/ PutBack(config, lock))'
<1>1. ASSUME NEW side \in Sides PROVE side \in Sides'
  BY DEF KeepsSides, Sides
<1>2. ASSUME NEW config, NEW lock, Whole(config, lock)
      PROVE  Whole(config, lock)'
  BY <1>1, <1>2 DEF Whole
<1>3. ASSUME NEW config, NEW lock, PutBack(config, lock)
      PROVE  PutBack(config, lock)'
  BY <1>3 DEF PutBack, KeepsSides, Paired
<1>4. QED BY <1>1, <1>2, <1>3

\* What the next state says of the history, of a step that moves nothing there.
LEMMA QuietHistory ==
    ASSUME IInv, HistoryIsPaired, UNCHANGED <<marker, journals>>,
           files' = files \/ Pending,
           files'.config = None => files.config = None \/ Global \/ Begun = {}
    PROVE  KeepsSides /\ HistoryIsPaired'
<1>1. Settled' = Settled /\ Begun' = Begun
  BY DEF Settled, Pending, Begun
<1>2. KeepsSides
  BY <1>1 DEF KeepsSides, Sides
<1>3. HistoryIsPaired'
  BY <1>1 DEF HistoryIsPaired, Paired
<1>4. QED BY <1>2, <1>3

\* A project that was just created has no transaction behind it.
LEMMA CreationHistory ==
    ASSUME IInv, HistoryIsPaired, NEW p \in Procs,
           InitProject(p) \/ ImportCreate(p)
    PROVE  HistoryIsPaired' /\ \A q \in Procs : pc'[q] \notin {"read-lock", "accepted"}
<1>1. ~Global /\ files.config = None
  BY DEF InitProject, ImportCreate, At, IInv, HandIsFull
<1>2. Begun = {} /\ marker = None
  BY <1>1 DEF HistoryIsPaired, IInv, NotYetCreated
<1>3. Begun' = {}
  BY <1>2 DEF InitProject, ImportCreate, Begun
<1>4. HistoryIsPaired'
  BY <1>3 DEF HistoryIsPaired
<1>5. ASSUME NEW q \in Procs PROVE pc'[q] \notin {"read-lock", "accepted"}
  <2>1. pc[q] \notin {"read-lock", "accepted"}
    BY <1>1 DEF IInv, NotYetCreated
  <2>2. QED
    BY <2>1 DEF InitProject, ImportCreate, Start, Goto, IInv, TypeOK
<1>6. QED BY <1>4, <1>5

\* A journal adds the files on disk and those to come, and decides nothing.
LEMMA WriteJournalHistory ==
    ASSUME IInv, HistoryIsPaired, NEW p \in Procs, WriteJournal(p)
    PROVE  KeepsSides /\ HistoryIsPaired'
<1>1. PICK id \in Ids :
        /\ journals[id] = None
        /\ journals' = [journals EXCEPT ![id] =
                          [phase |-> "prepared", old |-> files,
                           new |-> hand[p].next]]
  BY DEF WriteJournal
<1>2. marker = None /\ UNCHANGED <<files, marker>> /\ pc[p] = "begin"
  BY DEF WriteJournal, At
<1>3. Settled = files /\ Settled' = files
  BY <1>2 DEF Settled, Pending
<1>4. journals'[id] = [phase |-> "prepared", old |-> files, new |-> hand[p].next]
  BY <1>1 DEF IInv, TypeOK
<1>5. \A i \in Ids \ {id} : journals'[i] = journals[i]
  BY <1>1 DEF IInv, TypeOK
<1>6. journals'[id] # None
  BY <1>1, <1>4, NoneIsNoJournal, <1>2 DEF IInv, TypeOK, Journal, HandIsFull, Hand, Phases
<1>7. Begun' = Begun \cup {id} /\ id \notin Begun
  BY <1>1, <1>5, <1>6 DEF Begun
<1>8. KeepsSides
  BY <1>3, <1>5, <1>7 DEF KeepsSides, Sides, Begun
<1>9. Global \/ files'.config # None
  BY <1>2 DEF IInv, NotYetCreated
<1>10. (\E i \in Begun' : journals'[i].phase = "committed")
         <=> \E i \in Begun : journals[i].phase = "committed"
  BY <1>4, <1>5, <1>7 DEF Begun
<1>11. HistoryIsPaired'
  <2>1. CASE \E i \in Begun : journals[i].phase = "committed"
    BY <2>1, <1>2, <1>3, <1>9, <1>10 DEF HistoryIsPaired, Paired
  <2>2. CASE ~\E i \in Begun : journals[i].phase = "committed"
    <3>1. \A i \in Begun : journals[i].old = files
      BY <2>2, <1>3 DEF HistoryIsPaired
    <3>2. \A i \in Begun' : journals'[i].old = files
      BY <3>1, <1>4, <1>5, <1>7 DEF Begun
    <3>3. QED BY <2>2, <3>2, <1>3, <1>9, <1>10 DEF HistoryIsPaired
  <2>3. QED BY <2>1, <2>2
<1>12. QED BY <1>8, <1>11

\* The marker changes nothing: the files are still the journaled old ones.
LEMMA WriteMarkerHistory ==
    ASSUME IInv, HistoryIsPaired, NEW p \in Procs, WriteMarker(p)
    PROVE  KeepsSides /\ HistoryIsPaired'
<1> DEFINE id == hand[p].id
<1>1. /\ id \in Begun /\ marker = None /\ files = journals[id].old
      /\ journals[id].phase = "prepared"
  BY DEF WriteMarker, At, IInv, Written
<1>2. marker' = id /\ UNCHANGED <<files, journals>>
  BY DEF WriteMarker
<1>3. id # None
  BY <1>1 DEF Begun
<1>4. Settled = files /\ Settled' = files
  BY <1>1, <1>2, <1>3 DEF Settled, Pending
<1>5. Begun' = Begun
  BY <1>2 DEF Begun
<1>6. KeepsSides
  BY <1>2, <1>4, <1>5 DEF KeepsSides, Sides
<1>7. HistoryIsPaired'
  BY <1>2, <1>4, <1>5 DEF HistoryIsPaired, Paired
<1>8. QED BY <1>6, <1>7

\* From a commit on, the lock was made for the configuration.
LEMMA CommitJournalHistory ==
    ASSUME IInv, HistoryIsPaired, NEW p \in Procs, CommitJournal(p)
    PROVE  KeepsSides /\ HistoryIsPaired'
<1> DEFINE id == hand[p].id
<1>1. /\ id \in Begun /\ marker = id /\ files = journals[id].new
      /\ journals[id].phase = "prepared"
  BY DEF CommitJournal, At, IInv, Written
<1>2. id \in Ids /\ id # None /\ journals[id] \in Journal
  BY <1>1 DEF Begun, IInv, TypeOK
<1>3. /\ UNCHANGED <<files, marker>>
      /\ journals' = [journals EXCEPT ![id].phase = "committed"]
  BY DEF CommitJournal
<1>4. /\ journals'[id].phase = "committed"
      /\ journals'[id].old = journals[id].old
      /\ journals'[id].new = journals[id].new
      /\ journals'[id] # None
  BY <1>2, <1>3, NoneIsNoJournal DEF IInv, TypeOK, Journal, Phases
<1>5. \A i \in Ids \ {id} : journals'[i] = journals[i]
  BY <1>3 DEF IInv, TypeOK
<1>6. Begun' = Begun
  BY <1>1, <1>4, <1>5 DEF Begun
<1>7. Settled = journals[id].old /\ Settled' = journals[id].new
  BY <1>1, <1>2, <1>3, <1>4 DEF Settled, Pending
<1>8. KeepsSides
  BY <1>1, <1>4, <1>5, <1>6, <1>7 DEF KeepsSides, Sides, Begun
<1>9. /\ journals[id].new.config # None /\ Paired(journals[id].new)
  BY <1>1 DEF IInv, JournalsFit, Loadable, Paired
<1>10. Settled'.config # None /\ Paired(Settled)'
  BY <1>7, <1>9 DEF Paired
<1>11. HistoryIsPaired'
  BY <1>1, <1>3, <1>4, <1>6, <1>9, <1>10 DEF HistoryIsPaired
<1>12. QED BY <1>8, <1>11

\* A recovered transaction leaves the files it found.
LEMMA MarkRecoveredHistory ==
    ASSUME IInv, HistoryIsPaired, NEW p \in Procs, MarkRecovered(p)
    PROVE  KeepsSides /\ HistoryIsPaired'
<1> DEFINE id == hand[p].id
<1>1. id \in Begun /\ marker = id /\ journals[id].phase = "prepared"
  BY DEF MarkRecovered, At, IInv, Written, HandIsFull
<1>2. id \in Ids /\ id # None /\ journals[id] \in Journal
  BY <1>1 DEF Begun, IInv, TypeOK
<1>3. files = journals[id].old
  <2>1. files \in Files /\ journals[id].old \in Files
    BY <1>2 DEF IInv, TypeOK, Journal
  <2>2. /\ files.config = journals[id].old.config
        /\ files.lock = journals[id].old.lock
        /\ files.profile = journals[id].old.profile
    BY DEF MarkRecovered, At, IInv, Written
  <2>3. QED BY <2>1, <2>2, FilesEqual
<1>4. /\ UNCHANGED <<files, marker>>
      /\ journals' = [journals EXCEPT ![id].phase = "recovered"]
  BY DEF MarkRecovered
<1>5. /\ journals'[id].phase = "recovered"
      /\ journals'[id].old = journals[id].old
      /\ journals'[id].new = journals[id].new
      /\ journals'[id] # None
  BY <1>2, <1>4, NoneIsNoJournal DEF IInv, TypeOK, Journal, Phases
<1>6. \A i \in Ids \ {id} : journals'[i] = journals[i]
  BY <1>4 DEF IInv, TypeOK
<1>7. Begun' = Begun
  BY <1>1, <1>5, <1>6 DEF Begun
<1>8. Settled = files /\ Settled' = files
  BY <1>1, <1>2, <1>3, <1>4, <1>5 DEF Settled, Pending
<1>9. KeepsSides
  BY <1>5, <1>6, <1>7, <1>8 DEF KeepsSides, Sides, Begun
<1>10. (\E i \in Begun' : journals'[i].phase = "committed")
         <=> \E i \in Begun : journals[i].phase = "committed"
  BY <1>1, <1>5, <1>6, <1>7 DEF Begun
<1>11. \A i \in Begun : journals'[i].old = journals[i].old
  BY <1>5, <1>6 DEF Begun
<1>12. HistoryIsPaired'
  BY <1>4, <1>7, <1>8, <1>10, <1>11 DEF HistoryIsPaired, Paired
<1>13. QED BY <1>9, <1>12

\* Without a pending transaction the marker says nothing.
LEMMA ClearMarkerHistory ==
    ASSUME IInv, HistoryIsPaired, NEW p \in Procs, ClearMarker(p)
    PROVE  KeepsSides /\ HistoryIsPaired'
<1>1. ~Pending /\ ~Pending'
  BY DEF ClearMarker, At, IInv, Written, Pending
<1>2. Settled = files /\ Settled' = files /\ Begun' = Begun
  BY <1>1 DEF ClearMarker, Settled, Begun
<1>3. KeepsSides
  BY <1>2 DEF ClearMarker, KeepsSides, Sides
<1>4. HistoryIsPaired'
  BY <1>2 DEF ClearMarker, HistoryIsPaired, Paired
<1>5. QED BY <1>3, <1>4

\* While a transaction is pending its process moves the files one by one.
LEMMA FileStepsHistory ==
    ASSUME IInv, HistoryIsPaired, NEW p \in Procs,
           \/ WriteConfig(p) \/ WriteLock(p) \/ WriteProfile(p)
           \/ RestoreConfig(p) \/ RestoreProfile(p) \/ RestoreLock(p)
    PROVE  KeepsSides /\ HistoryIsPaired'
<1>1. pc[p] \in {"put-config", "put-lock", "put-profile", "restore-config",
                 "restore-profile", "restore-lock"}
  BY DEF WriteConfig, WriteLock, WriteProfile, RestoreConfig, RestoreProfile,
         RestoreLock, At
<1>2. hand[p].id \in Begun /\ marker = hand[p].id
      /\ journals[hand[p].id].phase = "prepared"
  BY <1>1 DEF IInv, Written, HandIsFull
<1>3. Pending
  BY <1>2 DEF Pending, Begun
<1>4. UNCHANGED <<marker, journals>>
  BY DEF WriteConfig, WriteLock, WriteProfile, RestoreConfig, RestoreProfile,
         RestoreLock
<1>5. Global \/ files'.config # None
  <2>1. CASE WriteConfig(p)
    <3>1. files'.config = journals[hand[p].id].new.config
      BY <2>1 DEF WriteConfig, IInv, TypeOK, Files
    <3>2. QED BY <3>1, <1>2 DEF IInv, JournalsFit, Loadable
  <2>2. CASE RestoreConfig(p)
    <3>1. files'.config = journals[hand[p].id].old.config
      BY <2>2 DEF RestoreConfig, IInv, TypeOK, Files
    <3>2. QED BY <3>1, <1>2 DEF IInv, JournalsFit
  <2>3. CASE WriteLock(p) \/ WriteProfile(p) \/ RestoreProfile(p) \/ RestoreLock(p)
    <3>1. files'.config = files.config
      BY <2>3 DEF WriteLock, WriteProfile, RestoreProfile, RestoreLock, IInv,
         TypeOK, Files
    <3>2. files.config # None \/ Global
      BY <1>1 DEF IInv, NotYetCreated
    <3>3. QED BY <3>1, <3>2
  <2>4. QED BY <2>1, <2>2, <2>3
<1>6. QED BY <1>3, <1>4, <1>5, QuietHistory

\* Every step keeps the history paired; every step that does not create the
\* project keeps the sides.
LEMMA NextHistory ==
    ASSUME IInv, HistoryIsPaired, NEW p \in Procs, Step(p)
    PROVE  /\ HistoryIsPaired'
           /\ \/ KeepsSides
              \/ \A q \in Procs : pc'[q] \notin {"read-lock", "accepted"}
<1>1. CASE InitProject(p) \/ ImportCreate(p)
  BY <1>1, CreationHistory
<1>2. CASE UNCHANGED <<files, marker, journals>>
  BY <1>2, QuietHistory
<1>3. CASE WriteJournal(p) \/ WriteMarker(p) \/ CommitJournal(p)
           \/ ClearMarker(p) \/ MarkRecovered(p)
  BY <1>3, WriteJournalHistory, WriteMarkerHistory, CommitJournalHistory,
     ClearMarkerHistory, MarkRecoveredHistory
<1>4. CASE \/ WriteConfig(p) \/ WriteLock(p) \/ WriteProfile(p)
           \/ RestoreConfig(p) \/ RestoreProfile(p) \/ RestoreLock(p)
  BY <1>4, FileStepsHistory
<1>5. StartCommand(p) => InitProject(p) \/ UNCHANGED <<files, marker, journals>>
  BY DEF StartCommand, StartImport, StartEdit, StartProfile, StartInstall,
         StartRead
<1>6. StartRepair(p) \/ Guard(p) \/ Die(p) => UNCHANGED <<files, marker, journals>>
  BY DEF StartRepair, Guard, Die
<1>7. InitRegister(p) \/ Edit(p) \/ Install(p) \/ Read(p) \/ GiveUp(p) =>
        ImportCreate(p) \/ UNCHANGED <<files, marker, journals>>
  BY DEF InitRegister, Edit, UseTools, Remove, EditProfile, InstallSdk,
         ApplyImport, Install, InstallLoad, InstallBind, InstallRegister,
         Read, ReadConfig, ReadLock, GiveUp
<1>8. CASE CommitBind(p) \/ CommitRegister(p) \/ Recheck(p) \/ RestoreBind(p)
  <2>1. UNCHANGED <<files, marker, journals>>
    BY <1>8 DEF CommitBind, CommitRegister, Recheck, RestoreBind
  <2>2. QED BY <2>1, <1>2
<1>9. QED
  BY <1>1, <1>2, <1>3, <1>4, <1>5, <1>6, <1>7, <1>8
     DEF Step, Proceed, Commit, Restore

-----------------------------------------------------------------------------
\* The step of one process leaves the others where they are.
LEMMA OthersKeep ==
    ASSUME IInv, NEW p \in Procs, Step(p), NEW q \in Procs \ {p}
    PROVE  pc'[q] = pc[q] /\ hand'[q] = hand[q]
<1> USE DEF Goto, Return, Settle, IInv, TypeOK
<1>1. CASE StartCommand(p)
  BY <1>1 DEF StartCommand, InitProject, StartImport, StartEdit, StartProfile,
     StartInstall, StartRead, Start
<1>2. CASE StartRepair(p) \/ Guard(p) \/ Die(p)
  BY <1>2 DEF StartRepair, Guard, Die, Start
<1>3. CASE InitRegister(p) \/ Read(p) \/ GiveUp(p)
  BY <1>3 DEF InitRegister, Read, ReadConfig, ReadLock, GiveUp
<1>4. CASE Edit(p)
  BY <1>4 DEF Edit, UseTools, Remove, EditProfile, InstallSdk, ApplyImport,
     ImportCreate
<1>5. CASE Commit(p)
  BY <1>5 DEF Commit, WriteJournal, WriteMarker, WriteConfig, WriteLock,
     WriteProfile, CommitBind, CommitRegister, CommitJournal, ClearMarker
<1>6. CASE Install(p)
  BY <1>6 DEF Install, InstallLoad, InstallBind, InstallRegister
<1>7. CASE Restore(p)
  BY <1>7 DEF Restore, Recheck, RestoreConfig, RestoreProfile, RestoreLock,
     RestoreBind, MarkRecovered
<1>8. QED BY <1>1, <1>2, <1>3, <1>4, <1>5, <1>6, <1>7 DEF Step, Proceed

\* Only the two looks make a reader hold something.
LEMMA OnlyReadersRead ==
    ASSUME IInv, NEW p \in Procs, Step(p), pc'[p] \in {"read-lock", "accepted"}
    PROVE  ReadConfig(p) \/ ReadLock(p)
<1> USE DEF Goto, Return, IInv, TypeOK
<1>1. ~StartCommand(p)
  BY DEF StartCommand, InitProject, StartImport, StartEdit, StartProfile,
     StartInstall, StartRead, Start
<1>2. ~(StartRepair(p) \/ Guard(p) \/ Die(p) \/ InitRegister(p) \/ GiveUp(p))
  BY DEF StartRepair, Guard, Die, Start, InitRegister, GiveUp
<1>3. ~Edit(p)
  BY DEF Edit, UseTools, Remove, EditProfile, InstallSdk, ApplyImport,
     ImportCreate
<1>4. ~Commit(p)
  BY DEF Commit, WriteJournal, WriteMarker, WriteConfig, WriteLock,
     WriteProfile, CommitBind, CommitRegister, CommitJournal, ClearMarker
<1>5. ~Install(p)
  BY DEF Install, InstallLoad, InstallBind, InstallRegister
<1>6. ~Restore(p)
  BY DEF Restore, Recheck, RestoreConfig, RestoreProfile, RestoreLock,
     RestoreBind, MarkRecovered
<1>7. QED BY <1>1, <1>2, <1>3, <1>4, <1>5, <1>6 DEF Step, Proceed, Read

\* A configuration on disk belongs to a side, at any moment.
LEMMA ConfigIsOfASide ==
    ASSUME IInv
    PROVE  \E side \in Sides : files.config = side.config
<1>1. CASE Pending
  <2>1. marker \in Begun
    BY <1>1, MarkedIsBegun DEF Pending
  <2>2. files.config \in {journals[marker].old.config, journals[marker].new.config}
    BY <1>1 DEF Pending, IInv, MarkedFilesAreJournaled
  <2>3. journals[marker].old \in Sides /\ journals[marker].new \in Sides
    BY <2>1 DEF Sides
  <2>4. QED BY <2>2, <2>3
<1>2. CASE ~Pending
  BY <1>2 DEF Settled, Sides
<1>3. QED BY <1>1, <1>2

\* A lock on disk is the settled one, or one that a pending transaction brings.
LEMMA LockIsOfASide ==
    ASSUME IInv
    PROVE  \/ files.lock = Settled.lock
           \/ /\ Pending /\ marker \in Begun
              /\ files.lock = journals[marker].new.lock
<1>1. CASE Pending
  <2>1. marker \in Begun
    BY <1>1, MarkedIsBegun DEF Pending
  <2>2. files.lock \in {journals[marker].old.lock, journals[marker].new.lock}
    BY <1>1 DEF Pending, IInv, MarkedFilesAreJournaled
  <2>3. QED BY <1>1, <2>1, <2>2 DEF Settled
<1>2. CASE ~Pending
  BY <1>2 DEF Settled
<1>3. QED BY <1>1, <1>2

\* The pair a reader accepts is that of one side, or a selector put back.
LEMMA AcceptedIsWhole ==
    ASSUME IInv, HistoryIsPaired,
           NEW config, config # None,
           \E side \in Sides : config = side.config,
           Loadable(config, files.lock)
    PROVE  Whole(config, files.lock) \/ PutBack(config, files.lock)
<1>1. PICK side \in Sides : config = side.config
  OBVIOUS
<1>2. config \in Config /\ side \in Files /\ Settled \in Sides /\ Settled \in Files
  BY <1>1, SidesType DEF Sides, Files
<1>3. LockOrEmpty(files.lock) \in Lock /\ Fits(config, LockOrEmpty(files.lock))
  BY EmptyIsSelection DEF IInv, TypeOK, Files, LockOrEmpty, Loadable
<1>4. CASE Pending /\ marker \in Begun /\ files.lock = journals[marker].new.lock
  <2>1. /\ journals[marker].new \in Sides
        /\ Loadable(journals[marker].new.config, files.lock)
    BY <1>4 DEF Sides, IInv, JournalsFit
  <2>2. journals[marker].new.config \in Config
    BY <2>1, SidesType DEF Files, Loadable
  <2>3. config = journals[marker].new.config
    BY <1>2, <1>3, <2>1, <2>2, FitsOnce DEF Loadable
  <2>4. QED BY <1>4, <2>1, <2>3 DEF Whole
<1>5. CASE files.lock = Settled.lock
  <2>1. CASE Paired(Settled) /\ Settled.config # None
    <3>1. Settled.config \in Config /\ Fits(Settled.config, LockOrEmpty(files.lock))
      BY <2>1, <1>2, <1>5 DEF Paired, Files
    <3>2. config = Settled.config
      BY <1>2, <1>3, <3>1, FitsOnce
    <3>3. QED BY <1>2, <1>5, <3>2 DEF Whole
  <2>2. CASE ~(Paired(Settled) /\ Settled.config # None)
    <3>1. \A id \in Begun : journals[id].old = Settled
      BY <2>2 DEF HistoryIsPaired
    <3>2. config # Settled.config
      <4>1. CASE Settled.config = None
        BY <4>1
      <4>2. CASE ~Paired(Settled) /\ Settled.config # None
        BY <4>2, <1>3, <1>5 DEF Paired
      <4>3. QED BY <2>2, <4>1, <4>2
    <3>3. PICK id \in Begun : side = journals[id].new
      BY <1>1, <3>1, <3>2 DEF Sides
    <3>4. CASE ~Paired(Settled)
      BY <1>1, <1>5, <3>1, <3>3, <3>4 DEF PutBack
    <3>5. CASE Paired(Settled) /\ Settled.config = None
      <4>1. Fits(NoTools, LockOrEmpty(files.lock))
        BY <1>5, <3>5 DEF Paired
      <4>2. config = NoTools
        BY <1>2, <1>3, <4>1, EmptyIsSelection, FitsOnce
      <4>3. LockOrEmpty(files.lock) = NoTools
        BY <1>3, <4>1, NothingFitsNothing
      <4>4. Fits(NoTools, LockOrEmpty(side.lock))
        BY <1>1, <3>3, <4>2 DEF IInv, JournalsFit, Loadable
      <4>5. LockOrEmpty(side.lock) = NoTools
        BY <1>1, <4>4, SidesType, NothingFitsNothing
      <4>6. QED BY <1>1, <4>3, <4>5 DEF Whole
    <3>6. QED BY <2>2, <3>4, <3>5
  <2>3. QED BY <2>1, <2>2
<1>6. QED BY <1>4, <1>5, LockIsOfASide

\* Every step keeps what the readers hold.
LEMMA NextReaders ==
    ASSUME IInv, ReadersInv, NEW p \in Procs, Step(p)
    PROVE  ReadersInv'
<1>1. /\ HistoryIsPaired'
      /\ \/ KeepsSides
         \/ \A q \in Procs : pc'[q] \notin {"read-lock", "accepted"}
  BY NextHistory DEF ReadersInv
<1>2. CASE \A q \in Procs : pc'[q] \notin {"read-lock", "accepted"}
  BY <1>1, <1>2 DEF ReadersInv, ReadersHoldASide, ReadPairIsWhole, At
<1>3. CASE KeepsSides
  <2>1. ASSUME NEW q \in Procs, pc'[q] = "read-lock"
        PROVE  /\ hand'[q].next.config # None
               /\ \E side \in Sides' : hand'[q].next.config = side.config
    <3>1. CASE q = p
      <4>1. ReadConfig(p)
        BY <2>1, <3>1, OnlyReadersRead DEF ReadLock, Goto, IInv, TypeOK
      <4>2. hand'[p].next.config = files.config /\ files.config # None
        BY <4>1 DEF ReadConfig, IInv, TypeOK, Hand
      <4>3. QED BY <1>3, <3>1, <4>2, ConfigIsOfASide, SidesGrow
    <3>2. CASE q # p
      <4>1. pc[q] = "read-lock" /\ hand'[q] = hand[q]
        BY <2>1, <3>2, OthersKeep
      <4>2. QED BY <1>3, <4>1, SidesGrow DEF ReadersInv, ReadersHoldASide
    <3>3. QED BY <3>1, <3>2
  <2>2. ASSUME NEW q \in Procs, pc'[q] = "accepted"
        PROVE  \/ Whole(hand[q].next.config, hand[q].next.lock)'
               \/ PutBack(hand[q].next.config, hand[q].next.lock)'
    <3>1. CASE q = p
      <4>1. ReadLock(p)
        BY <2>2, <3>1, OnlyReadersRead DEF ReadConfig, Goto, IInv, TypeOK
      <4> DEFINE config == hand[p].next.config
      <4>2. pc[p] = "read-lock" /\ Loadable(config, files.lock)
        BY <4>1 DEF ReadLock, At
      <4>3. config # None /\ \E side \in Sides : config = side.config
        BY <4>2 DEF ReadersInv, ReadersHoldASide
      <4>4. hand[p].next \in Files
        BY <4>2 DEF IInv, TypeOK, HandIsFull, Hand
      <4>5. /\ hand'[p].next.config = config
            /\ hand'[p].next.lock = files.lock
        BY <4>1, <4>4 DEF ReadLock, IInv, TypeOK, Hand, Files
      <4> HIDE DEF config
      <4>6. Whole(config, files.lock) \/ PutBack(config, files.lock)
        BY <4>2, <4>3, AcceptedIsWhole DEF ReadersInv
      <4>7. UNCHANGED <<files, journals, marker>>
        BY <4>1 DEF ReadLock
      <4>8. QED BY <3>1, <4>5, <4>6, <4>7
         DEF Whole, PutBack, Sides, Settled, Pending, Begun, Paired
    <3>2. CASE q # p
      <4>1. pc[q] = "accepted" /\ hand'[q] = hand[q]
        BY <2>2, <3>2, OthersKeep
      <4>2. \/ Whole(hand[q].next.config, hand[q].next.lock)
            \/ PutBack(hand[q].next.config, hand[q].next.lock)
        BY <4>1 DEF ReadersInv, ReadPairIsWhole, At
      <4>3. QED BY <1>3, <4>1, <4>2, SidesGrow DEF Whole, PutBack
    <3>3. QED BY <3>1, <3>2
  <2>3. ReadersHoldASide'
    BY <2>1 DEF ReadersHoldASide
  <2>4. ReadPairIsWhole'
    BY <2>2 DEF ReadPairIsWhole, At
  <2>5. QED BY <1>1, <2>3, <2>4 DEF ReadersInv
<1>4. QED BY <1>1, <1>2, <1>3

-----------------------------------------------------------------------------
\* Nobody moves the files under a process that holds the guard.
LEMMA GuardedFiles ==
    ASSUME IInv, NEW p \in Procs, Step(p), NEW q \in Procs \ {p},
           pc[q] \in GuardedSteps
    PROVE  files' = files
<1>1. guard = q /\ guard # None /\ guard # p
  BY DEF IInv, GuardIsHeld
<1>2. pc[p] \notin GuardedSteps
  BY <1>1 DEF IInv, GuardIsHeld
<1>3. StartCommand(p) => files' = files
  BY <1>1 DEF StartCommand, InitProject, StartImport, StartEdit, StartProfile,
     StartInstall, StartRead
<1>4. StartRepair(p) \/ Guard(p) \/ Die(p) \/ InitRegister(p) \/ Read(p)
        \/ GiveUp(p) => files' = files
  BY DEF StartRepair, Guard, Die, InitRegister, Read, ReadConfig, ReadLock,
     GiveUp
<1>5. Edit(p) => files' = files
  BY <1>2 DEF Edit, UseTools, Remove, EditProfile, InstallSdk, ApplyImport,
     ImportCreate, At
<1>6. Install(p) => files' = files
  BY DEF Install, InstallLoad, InstallBind, InstallRegister
<1>7. ~Commit(p)
  BY <1>2 DEF Commit, WriteJournal, WriteMarker, WriteConfig, WriteLock,
     WriteProfile, CommitBind, CommitRegister, CommitJournal, ClearMarker, At
<1>8. ~Restore(p)
  BY <1>2 DEF Restore, Recheck, RestoreConfig, RestoreProfile, RestoreLock,
     RestoreBind, MarkRecovered, At
<1>9. QED BY <1>3, <1>4, <1>5, <1>6, <1>7, <1>8 DEF Step, Proceed

\* What is bound, installed or registered stays so.
LEMMA BindingsGrow ==
    ASSUME IInv, NEW p \in Procs, Step(p)
    PROVE  /\ registered => registered'
           /\ installed \subseteq installed'
           /\ venv # None => venv' # None
<1>1. CASE UNCHANGED bindings
  BY <1>1 DEF bindings
<1>2. CASE UNCHANGED <<installed, venv>> /\ (registered => registered')
  BY <1>2
<1>3. CASE InstallLoad(p) \/ InstallSdk(p)
  BY <1>3 DEF InstallLoad, InstallSdk
<1>4. CASE CommitBind(p) \/ RestoreBind(p)
  <2>1. PICK lock : BindLocal(lock)
    BY <1>4 DEF CommitBind, RestoreBind
  <2>2. UNCHANGED <<registered, installed>>
    BY <1>4 DEF CommitBind, RestoreBind
  <2>3. QED BY <2>1, <2>2 DEF BindLocal
<1>5. CASE InstallBind(p)
  <2> DEFINE lock == hand[p].next.lock
             named == LockedIn(lock) \cap VenvTools \cap hand[p].names
  <2>1. lock \in Lock
    BY <1>5 DEF InstallBind, At, IInv, TypeOK, HandIsFull, Hand, Files
  <2>2. \A t \in LockedIn(lock) : lock[t].version # None
    BY <2>1 DEF Lock, LockedTool, LockedIn
  <2>3. UNCHANGED <<registered, installed>>
        /\ IF ~Global /\ named # {}
           THEN \E t \in named : venv' = lock[t].version
           ELSE UNCHANGED venv
    BY <1>5 DEF InstallBind
  <2> HIDE DEF lock
  <2>4. QED BY <2>2, <2>3
<1>6. StartCommand(p) => UNCHANGED bindings
  BY DEF StartCommand, InitProject, StartImport, StartEdit, StartProfile,
     StartInstall, StartRead
<1>7. StartRepair(p) \/ Guard(p) \/ Die(p) \/ Read(p) \/ GiveUp(p)
        => UNCHANGED bindings
  BY DEF StartRepair, Guard, Die, Read, ReadConfig, ReadLock, GiveUp
<1>8. InitRegister(p) \/ InstallRegister(p) \/ CommitRegister(p)
        => UNCHANGED <<installed, venv>> /\ (registered => registered')
  BY DEF InitRegister, InstallRegister, CommitRegister
<1>9. Edit(p) => InstallSdk(p) \/ UNCHANGED bindings
  BY DEF Edit, UseTools, Remove, EditProfile, ApplyImport, ImportCreate
<1>10. Commit(p) => CommitBind(p) \/ CommitRegister(p) \/ UNCHANGED bindings
  BY DEF Commit, WriteJournal, WriteMarker, WriteConfig, WriteLock,
     WriteProfile, CommitJournal, ClearMarker
<1>11. Restore(p) => RestoreBind(p) \/ UNCHANGED bindings
  BY DEF Restore, Recheck, RestoreConfig, RestoreProfile, RestoreLock,
     MarkRecovered
<1>12. QED
  BY <1>1, <1>2, <1>3, <1>4, <1>5, <1>6, <1>7, <1>8, <1>9, <1>10, <1>11
     DEF Step, Proceed, Install

\* So what a lock needs stays there.
LEMMA BoundStays ==
    ASSUME IInv, NEW p \in Procs, Step(p), NEW lock, Bound(lock)
    PROVE  Bound(lock)'
  BY BindingsGrow DEF Bound, Payloads, LockedIn

-----------------------------------------------------------------------------
\* The other processes keep what they were about to write.
LEMMA OthersEdits ==
    ASSUME IInv, EditsInv, NEW p \in Procs, Step(p), NEW q \in Procs \ {p}
    PROVE  KeepsTheRest(q)' /\ BindsFirst(q)'
<1>1. pc'[q] = pc[q] /\ hand'[q] = hand[q]
  BY OthersKeep
<1>2. KeepsTheRest(q) /\ BindsFirst(q)
  BY DEF EditsInv
<1>3. KeepsTheRest(q)'
  <2>1. CASE pc[q] \in GuardedSteps
    <3>1. files' = files
      BY <2>1, GuardedFiles
    <3>2. QED BY <1>1, <1>2, <3>1 DEF KeepsTheRest, KeepsTool
  <2>2. CASE pc[q] \notin GuardedSteps
    BY <1>1, <1>2, <2>2 DEF KeepsTheRest, KeepsTool
  <2>3. QED BY <2>1, <2>2
<1>4. BindsFirst(q)'
  BY <1>1, <1>2, BindingsGrow, BoundStays DEF BindsFirst
<1>5. QED BY <1>3, <1>4

\* A command that is started has nothing to write yet, but for an import plan.
LEMMA StartEdits ==
    ASSUME IInv, NEW p \in Procs,
           StartCommand(p) \/ StartRepair(p)
    PROVE  KeepsTheRest(p)' /\ BindsFirst(p)'
<1>1. CASE StartImport(p)
  <2> DEFINE cfg(names, selector) ==
               [t \in Tools |-> IF t \in names THEN selector[t] ELSE Loaded.config[t]]
             lck(config, version) ==
               [t \in Tools |->
                  IF config[t] # None /\ Loaded.lock[t] = None
                  THEN [requested |-> config[t], version |-> version[t]]
                  ELSE Loaded.lock[t]]
             plan(names, config, lock) ==
               [op |-> "import", bind |-> FALSE, names |-> names,
                next |-> [config |-> config, lock |-> lock,
                          profile |-> files.profile],
                seen |-> files, id |-> None]
  <2>1. PICK names \in SUBSET {t \in Tools : Loaded.config[t] = None} :
          \E selector \in [names -> Selectors], version \in [Tools -> Versions] :
            /\ names # {} \/ (files.config # None /\ files.lock = None)
            /\ hand' = [hand EXCEPT ![p] =
                          plan(names, cfg(names, selector),
                               lck(cfg(names, selector), version))]
    BY <1>1, Zenon DEF StartImport
  <2>2. PICK selector \in [names -> Selectors], version \in [Tools -> Versions] :
          hand' = [hand EXCEPT ![p] =
                     plan(names, cfg(names, selector),
                          lck(cfg(names, selector), version))]
    BY <2>1
  <2> DEFINE config == cfg(names, selector)
             lock == lck(config, version)
  <2>3. ASSUME NEW t \in Tools \ names
        PROVE  /\ config[t] = IF files.config = None THEN None
                                                     ELSE files.config[t]
               /\ files.lock # None => lock[t] = files.lock[t]
    <3>1. config[t] = Loaded.config[t]
      OBVIOUS
    <3>2. config[t] = IF files.config = None THEN None ELSE files.config[t]
      BY <3>1 DEF Loaded, NoTools
    <3>3. ASSUME files.lock # None PROVE lock[t] = files.lock[t]
      <4>1. Fits(Loaded.config, files.lock) /\ Loaded.lock = files.lock
        BY <1>1, <3>3 DEF StartImport, Loaded, LockOrEmpty
      <4>2. Loaded.config[t] # None => Loaded.lock[t] # None
        BY <4>1 DEF Fits
      <4>3. lock[t] = Loaded.lock[t]
        BY <3>1, <4>2
      <4>4. QED BY <4>1, <4>3
    <3>4. QED BY <3>2, <3>3
  <2> DEFINE h == plan(names, config, lock)
  <2>4. /\ h.op = "import" /\ h.names = names /\ h.seen = files
        /\ h.next.config = config /\ h.next.lock = lock /\ h.bind = FALSE
    OBVIOUS
  <2>5. hand'[p] = h
    BY <2>2 DEF IInv, TypeOK
  <2> HIDE DEF h, config, lock
  <2>6. pc'[p] = "wait" /\ files # None
    BY <1>1 DEF StartImport, Goto, IInv, TypeOK
  <2>7. QED BY <2>3, <2>4, <2>5, <2>6 DEF KeepsTheRest, KeepsTool, BindsFirst
<1>2. CASE ~StartImport(p)
  <2>0. PICK step \in {"wait", "init-register", "read-config"},
             op \in Ops \ {"import"}, bind \in BOOLEAN :
          \E next, id : Start(p, step, op, bind, next, id) /\ (bind => op = "use")
    BY <1>2 DEF StartCommand, InitProject, StartEdit, StartProfile,
       StartInstall, StartRead, StartRepair, Ops
  <2>1. PICK next, id :
          Start(p, step, op, bind, next, id) /\ (bind => op = "use")
    BY <2>0
  <2> DEFINE h == [op |-> op, bind |-> bind, names |-> {}, next |-> next,
                   seen |-> None, id |-> id]
  <2>2. pc'[p] = step /\ hand'[p] = h
    BY <2>1 DEF Start, Goto, IInv, TypeOK
  <2>3. h.op = op /\ h.bind = bind
    OBVIOUS
  <2> HIDE DEF h
  <2>4. QED BY <2>1, <2>2, <2>3 DEF KeepsTheRest, BindsFirst
<1>3. QED BY <1>1, <1>2

\* An import plan waits for the guard as it is.
LEMMA GuardEdits ==
    ASSUME IInv, EditsInv, NEW p \in Procs, Guard(p)
    PROVE  KeepsTheRest(p)' /\ BindsFirst(p)'
<1>1. /\ pc[p] = "wait" /\ pc'[p] \in {"recheck", "load", "edit"}
      /\ hand' = hand
  BY DEF Guard, At, Goto, IInv, TypeOK
<1>2. KeepsTheRest(p) /\ BindsFirst(p)
  BY DEF EditsInv
<1>3. QED BY <1>1, <1>2 DEF KeepsTheRest, KeepsTool, BindsFirst

\* Settling keeps the operation and says which tools are meant.
LEMMA SettledRest ==
    ASSUME IInv, EditsInv, NEW p \in Procs,
           NEW names \in SUBSET Tools, NEW next \in Files,
           Settle(p, names, next),
           NEW step \in {"sdk", "begin", "create", "bind"},
           pc' = [pc EXCEPT ![p] = step], UNCHANGED files,
           step # "bind" =>
             \A t \in Tools \ names : files.config # None \/ step = "create" =>
                KeepsTool(next, files, t)
    PROVE  KeepsTheRest(p)' /\ BindsFirst(p)'
<1> DEFINE h == [op |-> hand[p].op, bind |-> hand[p].bind, names |-> names,
                 next |-> next, seen |-> hand[p].seen, id |-> None]
<1>1. hand'[p] = h /\ pc'[p] = step
  BY DEF Settle, IInv, TypeOK
<1>2. h.op = hand[p].op /\ h.bind = hand[p].bind /\ h.names = names
      /\ h.next = next
  OBVIOUS
<1> HIDE DEF h
<1>3. BindsFirst(p)
  BY DEF EditsInv
<1>4. KeepsTheRest(p)'
  BY <1>1, <1>2 DEF KeepsTheRest, KeepsTool
<1>5. BindsFirst(p)'
  BY <1>1, <1>2, <1>3 DEF BindsFirst
<1>6. QED BY <1>4, <1>5

\* use changes the tools it names.
LEMMA UseToolsEdits ==
    ASSUME IInv, EditsInv, NEW p \in Procs, UseTools(p)
    PROVE  KeepsTheRest(p)' /\ BindsFirst(p)'
<1> DEFINE base == EditBase(p)
           cfg(names, selector) ==
             [t \in Tools |-> IF t \in names THEN selector[t] ELSE base.config[t]]
           lck(names, selector, version) ==
             [t \in Tools |->
                IF t \in names
                THEN [requested |-> selector[t], version |-> version[t]]
                ELSE base.lock[t]]
<1>1. base.config \in Config /\ base.lock \in Lock
  BY EditBaseType DEF UseTools, At
<1>2. PICK names \in (SUBSET Tools) \ {{}} : \E selector \in [names -> Selectors],
        version \in [names -> Versions] :
          Settle(p, names, [config |-> cfg(names, selector),
                            lock |-> lck(names, selector, version),
                            profile |-> files.profile])
  BY DEF UseTools
<1>3. PICK selector \in [names -> Selectors], version \in [names -> Versions] :
          Settle(p, names, [config |-> cfg(names, selector),
                            lock |-> lck(names, selector, version),
                            profile |-> files.profile])
  BY <1>2
<1> DEFINE config == cfg(names, selector)
           lock == lck(names, selector, version)
           next == [config |-> config, lock |-> lock, profile |-> files.profile]
<1>4. config \in Config
  BY <1>1 DEF Config
<1>5. lock \in Lock
  BY <1>1 DEF Lock, LockedTool
<1>6. \A t \in Tools \ names : config[t] = base.config[t] /\ lock[t] = base.lock[t]
  OBVIOUS
<1> HIDE DEF cfg, lck, config, lock
<1>7. next \in Files
  BY <1>4, <1>5 DEF IInv, TypeOK, Files
<1>8. ASSUME NEW t \in Tools \ names, files.config # None
      PROVE  KeepsTool(next, files, t)
  BY <1>6, <1>8 DEF KeepsTool, EditBase, Loaded, LockOrEmpty
<1>9. PICK step \in {"sdk", "begin"} : pc' = [pc EXCEPT ![p] = step]
  BY DEF UseTools, Goto
<1>10. UNCHANGED files /\ Settle(p, names, next)
  BY <1>3 DEF UseTools, config, lock
<1> HIDE DEF next
<1>11. QED BY <1>7, <1>8, <1>9, <1>10, SettledRest

\* remove changes the tools it names.
LEMMA RemoveEdits ==
    ASSUME IInv, EditsInv, NEW p \in Procs, Remove(p)
    PROVE  KeepsTheRest(p)' /\ BindsFirst(p)'
<1> DEFINE base == EditBase(p)
           cfg(names) == [t \in Tools |-> IF t \in names THEN None ELSE base.config[t]]
           lck(names) == [t \in Tools |-> IF t \in names THEN None ELSE base.lock[t]]
<1>1. base.config \in Config /\ base.lock \in Lock
  BY EditBaseType DEF Remove, At
<1>2. PICK names \in (SUBSET Tools) \ {{}} :
          Settle(p, names, [config |-> cfg(names), lock |-> lck(names),
                            profile |-> files.profile])
  BY DEF Remove
<1> DEFINE config == cfg(names)
           lock == lck(names)
           next == [config |-> config, lock |-> lock, profile |-> files.profile]
<1>4. config \in Config
  BY <1>1 DEF Config
<1>5. lock \in Lock
  BY <1>1 DEF Lock
<1>6. \A t \in Tools \ names : config[t] = base.config[t] /\ lock[t] = base.lock[t]
  OBVIOUS
<1> HIDE DEF cfg, lck, config, lock
<1>7. next \in Files
  BY <1>4, <1>5 DEF IInv, TypeOK, Files
<1>8. ASSUME NEW t \in Tools \ names, files.config # None
      PROVE  KeepsTool(next, files, t)
  BY <1>6, <1>8 DEF KeepsTool, EditBase, Loaded, LockOrEmpty
<1>9. pc' = [pc EXCEPT ![p] = "begin"]
  BY DEF Remove, Goto
<1>10. UNCHANGED files /\ Settle(p, names, next)
  BY <1>2 DEF Remove, config, lock
<1> HIDE DEF next
<1>11. QED BY <1>7, <1>8, <1>9, <1>10, SettledRest

\* A profile edit commits the selection as it is.
LEMMA EditProfileEdits ==
    ASSUME IInv, EditsInv, NEW p \in Procs, EditProfile(p)
    PROVE  KeepsTheRest(p)' /\ BindsFirst(p)'
<1>1. PICK profile \in (Profiles \cup {None}) \ {files.profile} :
        Settle(p, {}, [config |-> Loaded.config, lock |-> Loaded.lock,
                       profile |-> profile])
  BY DEF EditProfile
<1> DEFINE next == [config |-> Loaded.config, lock |-> Loaded.lock,
                    profile |-> profile]
<1>2. next \in Files
  BY LoadedType DEF Files
<1>3. ASSUME NEW t \in Tools, files.config # None PROVE KeepsTool(next, files, t)
  BY <1>3 DEF KeepsTool, Loaded, LockOrEmpty
<1>4. pc' = [pc EXCEPT ![p] = "begin"] /\ UNCHANGED files /\ Settle(p, {}, next)
  BY <1>1 DEF EditProfile, Goto
<1> HIDE DEF next
<1>5. QED BY <1>2, <1>3, <1>4, SettledRest

\* The plan of an import was made from what is on disk now.
LEMMA ApplyImportEdits ==
    ASSUME IInv, EditsInv, NEW p \in Procs, ApplyImport(p)
    PROVE  KeepsTheRest(p)' /\ BindsFirst(p)'
<1> DEFINE next == [config |-> hand[p].next.config, lock |-> hand[p].next.lock,
                    profile |-> files.profile]
<1>1. /\ pc[p] = "edit" /\ hand[p].op = "import" /\ hand[p].next # None
      /\ hand[p].names \in SUBSET Tools
  BY DEF ApplyImport, At, IInv, HandIsFull, TypeOK, Hand
<1>2. next \in Files
  BY <1>1 DEF IInv, TypeOK, Hand, Files
<1>3. ASSUME NEW t \in Tools \ hand[p].names PROVE KeepsTool(next, files, t)
  <2>1. KeepsTool(hand[p].next, hand[p].seen, t)
    BY <1>1 DEF EditsInv, KeepsTheRest
  <2>2. files.config = hand[p].seen.config /\ files.lock = hand[p].seen.lock
    BY DEF ApplyImport, ImportFresh
  <2>3. QED BY <2>1, <2>2 DEF KeepsTool
<1>4. PICK step \in {"create", "begin"} : pc' = [pc EXCEPT ![p] = step]
  BY DEF ApplyImport, Goto
<1>5. UNCHANGED files /\ Settle(p, hand[p].names, next)
  BY DEF ApplyImport
<1> HIDE DEF next
<1>6. QED BY <1>1, <1>2, <1>3, <1>4, <1>5, SettledRest

\* The empty configuration of a new project selects nothing either.
LEMMA ImportCreateEdits ==
    ASSUME IInv, EditsInv, NEW p \in Procs, ImportCreate(p)
    PROVE  KeepsTheRest(p)' /\ BindsFirst(p)'
<1>1. /\ pc[p] = "create" /\ pc'[p] = "begin" /\ hand' = hand
      /\ files.config = None
  BY DEF ImportCreate, At, Goto, IInv, TypeOK, HandIsFull
<1>2. files'.config = NoTools /\ files'.lock = files.lock
  BY DEF ImportCreate, IInv, TypeOK, Files
<1>3. KeepsTheRest(p) /\ BindsFirst(p)
  BY DEF EditsInv
<1>4. KeepsTheRest(p)'
  BY <1>1, <1>2, <1>3, EmptyIsSelection DEF KeepsTheRest, KeepsTool, NoTools
<1>5. QED BY <1>1, <1>3, <1>4 DEF BindsFirst

\* Installing the tools of the next lock changes nothing in hand.
LEMMA InstallSdkEdits ==
    ASSUME IInv, EditsInv, NEW p \in Procs, InstallSdk(p)
    PROVE  KeepsTheRest(p)' /\ BindsFirst(p)'
<1>1. pc[p] = "sdk" /\ pc'[p] = "begin" /\ UNCHANGED <<hand, files>>
  BY DEF InstallSdk, At, Goto, IInv, TypeOK
<1>2. KeepsTheRest(p) /\ BindsFirst(p)
  BY DEF EditsInv
<1>3. QED BY <1>1, <1>2 DEF KeepsTheRest, KeepsTool, BindsFirst

\* Binding makes what the lock needs.
LEMMA CommitBindBinds ==
    ASSUME IInv, NEW p \in Procs, CommitBind(p), ~Global
    PROVE  Bound(hand[p].next.lock)'
<1> DEFINE lock == hand[p].next.lock
<1>1. lock \in Lock
  BY DEF CommitBind, At, IInv, TypeOK, HandIsFull, Hand, Files
<1>2. /\ Bindable(lock) /\ UNCHANGED <<installed, hand>>
      /\ IF venv = None /\ LockedIn(lock) \cap VenvTools # {}
         THEN \E t \in LockedIn(lock) \cap VenvTools : venv' = lock[t].version
         ELSE UNCHANGED venv
  BY DEF CommitBind, BindLocal
<1>3. \A t \in LockedIn(lock) : lock[t].version # None
  BY <1>1 DEF Lock, LockedTool, LockedIn
<1> HIDE DEF lock
<1>4. Payloads(lock, VenvTools) # {} => venv' # None
  BY <1>2, <1>3 DEF Payloads
<1>5. Payloads(lock, LinkedTools) \subseteq installed
  BY <1>2 DEF Bindable
<1>6. (hand[p].next.lock)' = lock
  BY <1>2 DEF lock
<1>7. QED BY <1>2, <1>4, <1>5, <1>6 DEF Bound, Payloads, LockedIn

\* The writer of a commit binds, registers and only then commits.
LEMMA CommitEdits ==
    ASSUME IInv, EditsInv, NEW p \in Procs, Commit(p)
    PROVE  KeepsTheRest(p)' /\ BindsFirst(p)'
<1>0. KeepsTheRest(p) /\ BindsFirst(p)
  BY DEF EditsInv
<1>1. pc'[p] \notin {"wait", "edit", "create", "sdk", "begin"}
  BY DEF Commit, WriteJournal, WriteMarker, WriteConfig, WriteLock,
     WriteProfile, CommitBind, CommitRegister, CommitJournal, ClearMarker,
     Goto, Return, IInv, TypeOK
<1>2. KeepsTheRest(p)'
  BY <1>1 DEF KeepsTheRest
<1>3. BindsFirst(p)'
  <2>1. CASE WriteJournal(p)
    <3>1. pc'[p] = "put-marker" /\ hand'[p].bind = hand[p].bind
          /\ hand'[p].op = hand[p].op
      BY <2>1 DEF WriteJournal, Goto, IInv, TypeOK, Hand
    <3>2. QED BY <3>1, <1>0 DEF BindsFirst
  <2>2. CASE WriteMarker(p) \/ WriteConfig(p) \/ CommitJournal(p)
    <3>1. pc'[p] \in {"put-config", "put-lock", "clear"} /\ hand' = hand
      BY <2>2 DEF WriteMarker, WriteConfig, CommitJournal, Goto, IInv, TypeOK
    <3>2. QED BY <3>1, <1>0 DEF BindsFirst
  <2>3. CASE WriteLock(p)
    <3>1. /\ pc'[p] = CASE hand[p].op = "profile" -> "put-profile"
                        [] hand[p].op = "use" /\ hand[p].bind -> "commit-bind"
                        [] OTHER -> "commit-register"
          /\ hand' = hand
      BY <2>3 DEF WriteLock, Goto, IInv, TypeOK
    <3>2. QED BY <3>1, <1>0 DEF BindsFirst
  <2>4. CASE WriteProfile(p)
    <3>1. pc[p] = "put-profile" /\ pc'[p] = "commit-register" /\ hand' = hand
      BY <2>4 DEF WriteProfile, At, Goto, IInv, TypeOK
    <3>2. QED BY <3>1, <1>0 DEF BindsFirst
  <2>5. CASE CommitBind(p)
    <3>1. pc'[p] = "commit-register" /\ hand' = hand
      BY <2>5 DEF CommitBind, Goto, IInv, TypeOK
    <3>2. QED BY <2>5, <3>1, <1>0, CommitBindBinds DEF BindsFirst
  <2>6. CASE CommitRegister(p)
    <3>1. /\ pc[p] = "commit-register" /\ pc'[p] = "commit"
          /\ UNCHANGED <<hand, installed, venv>>
          /\ ~Global => registered'
      BY <2>6 DEF CommitRegister, At, Goto, IInv, TypeOK
    <3>2. QED BY <3>1, <1>0 DEF BindsFirst, Bound
  <2>7. CASE ClearMarker(p)
    <3>1. pc'[p] = "idle" /\ hand'[p] = EmptyHand
      BY <2>7 DEF ClearMarker, Return, IInv, TypeOK
    <3>2. QED BY <3>1 DEF BindsFirst, EmptyHand
  <2>8. QED BY <2>1, <2>2, <2>3, <2>4, <2>5, <2>6, <2>7 DEF Commit
<1>4. QED BY <1>2, <1>3

\* install, repair, readers and commands that end write no edit.
LEMMA RestEdits ==
    ASSUME IInv, EditsInv, NEW p \in Procs,
           \/ InitRegister(p) \/ Install(p) \/ Restore(p) \/ Read(p)
           \/ GiveUp(p) \/ Die(p)
    PROVE  KeepsTheRest(p)' /\ BindsFirst(p)'
<1>0. BindsFirst(p)
  BY DEF EditsInv
<1>1. CASE InitRegister(p) \/ InstallRegister(p) \/ GiveUp(p) \/ Die(p)
  <2>1. pc'[p] = "idle" /\ hand'[p] = EmptyHand
    BY <1>1 DEF InitRegister, InstallRegister, GiveUp, Die, Return, IInv, TypeOK
  <2>2. QED BY <2>1 DEF KeepsTheRest, BindsFirst, EmptyHand
<1>2. CASE InstallBind(p) \/ Restore(p)
  <2>1. /\ hand' = hand
        /\ pc'[p] \notin {"wait", "edit", "create", "sdk", "begin",
                          "put-profile", "commit-register", "commit"}
    BY <1>2 DEF InstallBind, Restore, Recheck, RestoreConfig, RestoreProfile,
       RestoreLock, RestoreBind, MarkRecovered, Goto, IInv, TypeOK
  <2>2. QED BY <2>1, <1>0 DEF KeepsTheRest, BindsFirst
<1>3. CASE Read(p)
  <2>1. /\ pc'[p] \in {"read-lock", "accepted"}
        /\ hand'[p].op = hand[p].op /\ hand'[p].bind = hand[p].bind
    BY <1>3 DEF Read, ReadConfig, ReadLock, Goto, IInv, TypeOK, Hand
  <2>2. QED BY <2>1, <1>0 DEF KeepsTheRest, BindsFirst
<1>4. CASE InstallLoad(p)
  <2>1. PICK names \in (SUBSET Tools) \ {{}} : Settle(p, names, Loaded)
    BY <1>4 DEF InstallLoad
  <2>2. pc' = [pc EXCEPT ![p] = "bind"] /\ UNCHANGED files
    BY <1>4 DEF InstallLoad, Goto
  <2>3. QED BY <2>1, <2>2, LoadedType, SettledRest
<1>5. QED BY <1>1, <1>2, <1>3, <1>4 DEF Install

\* Every step keeps what the edits are going to write.
LEMMA NextEdits ==
    ASSUME IInv, EditsInv, NEW p \in Procs, Step(p)
    PROVE  EditsInv'
<1>1. KeepsTheRest(p)' /\ BindsFirst(p)'
  <2>1. CASE StartCommand(p) \/ StartRepair(p)
    BY <2>1, StartEdits
  <2>2. CASE Guard(p)
    BY <2>2, GuardEdits
  <2>3. CASE Edit(p)
    BY <2>3, UseToolsEdits, RemoveEdits, EditProfileEdits, InstallSdkEdits,
       ApplyImportEdits, ImportCreateEdits DEF Edit
  <2>4. CASE Commit(p)
    BY <2>4, CommitEdits
  <2>5. CASE \/ InitRegister(p) \/ Install(p) \/ Restore(p) \/ Read(p)
             \/ GiveUp(p) \/ Die(p)
    BY <2>5, RestEdits
  <2>6. QED BY <2>1, <2>2, <2>3, <2>4, <2>5 DEF Step, Proceed
<1>2. QED BY <1>1, OthersEdits DEF EditsInv

-----------------------------------------------------------------------------
\* Nothing has happened yet, and nobody has read anything.
LEMMA InitFullInv ==
    ASSUME Init
    PROVE  FullInv
<1> USE DEF Init
<1>1. IInv
  BY InitInv
<1>2. Begun = {} /\ ~Pending
  BY DEF Begun, Pending
<1>3. ReadersInv
  BY <1>2 DEF ReadersInv, HistoryIsPaired, ReadersHoldASide, ReadPairIsWhole,
     At
<1>4. EditsInv
  BY DEF EditsInv, KeepsTheRest, BindsFirst, EmptyHand
<1>5. QED BY <1>1, <1>3, <1>4 DEF FullInv

\* All of the invariant is inductive.
LEMMA NextFullInv ==
    ASSUME FullInv, [Next]_vars
    PROVE  FullInv'
<1>1. IInv /\ IInv'
  BY NextInv DEF FullInv
<1>2. CASE Next
  <2>1. PICK p \in Procs : Step(p)
    BY <1>2 DEF Next, Step
  <2>2. ReadersInv'
    BY <2>1, NextReaders DEF FullInv
  <2>3. EditsInv'
    BY <2>1, NextEdits DEF FullInv
  <2>4. QED BY <1>1, <2>2, <2>3 DEF FullInv
<1>3. CASE UNCHANGED vars
  <2>1. Settled' = Settled /\ Sides' = Sides /\ Begun' = Begun
    BY <1>3 DEF vars, Settled, Pending, Sides, Begun
  <2>2. ReadersInv'
    BY <1>3, <2>1 DEF FullInv, ReadersInv, HistoryIsPaired, ReadersHoldASide,
       ReadPairIsWhole, Paired, Whole, PutBack, At, vars
  <2>3. EditsInv'
    BY <1>3 DEF FullInv, EditsInv, KeepsTheRest, KeepsTool, BindsFirst, Bound,
       Payloads, LockedIn, vars
  <2>4. QED BY <1>1, <2>2, <2>3 DEF FullInv
<1>4. QED BY <1>2, <1>3

\* The whole invariant of a context - where each transaction stands, what the
\* readers hold, what the edits are about to write - holds in every behaviour.
THEOREM FullInvariantHolds == Spec => []FullInv
  BY InitFullInv, NextFullInv, PTL DEF Spec

\* ProjectContext::load_locked takes no lock and looks three times, yet the
\* configuration and the lock it accepts are those of one side of one
\* transaction, but for a selector that is put back after an edit by hand.
THEOREM ReadersAcceptOneSide == Spec => []ReadPairIsWhole
<1>1. FullInv => ReadPairIsWhole
  BY DEF FullInv, ReadersInv
<1>2. QED BY <1>1, FullInvariantHolds, PTL

\* The reload under the guard (edit_context) and validate_sources keep the
\* tools that an edit was not told to touch as another process left them.
THEOREM EditsKeepOtherTools == Spec => EditsOnlyNamedTools
<1>1. FullInv /\ [Next]_vars =>
        [\A p \in Procs :
           At(p, "begin") /\ pc'[p] = "put-marker" /\ files.config # None =>
              \A t \in Tools \ hand[p].names :
                  /\ hand[p].next.config[t] = files.config[t]
                  /\ files.lock # None =>
                      hand[p].next.lock[t] = files.lock[t]]_vars
  BY DEF FullInv, EditsInv, KeepsTheRest, KeepsTool, At
<1>2. QED BY <1>1, FullInvariantHolds, PTL DEF Spec, EditsOnlyNamedTools

\* bind_local and the registration come before finish_commit says committed:
\* what a committed lock needs is bound and the project is known to cleanup.
THEOREM CommitsAreBound == Spec => CommittedIsBound
<1>1. FullInv /\ [Next]_vars =>
        [\A p \in Procs :
           At(p, "commit") /\ pc'[p] = "clear" /\ ~Global =>
              /\ registered
              /\ hand[p].bind => Bound(journals[hand[p].id].new.lock)]_vars
  <2>1. ASSUME FullInv, NEW p \in Procs, At(p, "commit"), ~Global
        PROVE  /\ registered
               /\ hand[p].bind => Bound(journals[hand[p].id].new.lock)
    <3>1. journals[hand[p].id].new = hand[p].next
      BY <2>1 DEF FullInv, IInv, Written, At
    <3>2. QED BY <2>1, <3>1 DEF FullInv, EditsInv, BindsFirst, At
  <2>2. QED BY <2>1
<1>2. QED BY <1>1, FullInvariantHolds, PTL DEF Spec, CommittedIsBound

=============================================================================
