--------------------------- MODULE CleanupProofs ---------------------------
(***************************************************************************)
(* Proofs about Cleanup, for any number of processes, projects and         *)
(* installations.                                                          *)
(*                                                                         *)
(* CleanKeepsWhatIsNeeded speaks of two moments: clean decides at one and  *)
(* removes at a later one.  What joins them is RemovalsAreSafe, and that   *)
(* is preserved because nobody can come to need anything while the         *)
(* maintenance lock is held exclusively (LocksAreHeld).  OpsAreInPlace and *)
(* HandsAreFilled say what a command holds in memory at each of its steps. *)
(***************************************************************************)
EXTENDS Cleanup, TLAPS

-----------------------------------------------------------------------------
(* Records updated by a step keep their type.                              *)

LEMMA HandTypes ==
  ASSUME NEW h \in Hand
  PROVE /\ EmptyHand \in Hand
        /\ \A op \in Ops, root \in Roots \cup {None} :
             [EmptyHand EXCEPT !.op = op, !.root = root] \in Hand
        /\ \A l \in Locks \cup {None} : [h EXCEPT !.next = l] \in Hand
        /\ \A id \in Ids \cup {None} : [h EXCEPT !.id = id] \in Hand
        /\ \A s \in SUBSET Roots : [h EXCEPT !.seen = s] \in Hand
        /\ \A r \in SUBSET Payloads : [h EXCEPT !.removals = r] \in Hand
  BY DEF Hand, EmptyHand, Ops

LEMMA StartTypes ==
  ASSUME TypeOK, NEW p \in Procs, NEW op \in Ops, NEW root \in Roots \cup {None},
         NEW step \in Steps, Start(p, op, root, step)
  PROVE TypeOK'
<1>1. [EmptyHand EXCEPT !.op = op, !.root = root] \in Hand
  BY DEF Hand, EmptyHand, Ops
<1>2. hand' \in [Procs -> Hand]
  BY <1>1 DEF Start, TypeOK
<1> QED
  BY <1>2 DEF Start, TypeOK, Goto, locks, project

LEMMA JournalTypes ==
  ASSUME NEW j \in Journal
  PROVE /\ [j EXCEPT !.phase = "committed"] \in Journal
        /\ [j EXCEPT !.phase = "recovered"] \in Journal
<1>1. [j EXCEPT !.phase = "committed"] \in Journal
  BY DEF Journal
<1>2. [j EXCEPT !.phase = "recovered"] \in Journal
  BY DEF Journal
<1> QED
  BY <1>1, <1>2

-----------------------------------------------------------------------------
\* Every step keeps the types.
LEMMA TypeStep ==
  ASSUME IInv, NEW p \in Procs,
         Begins(p) \/ Proceed(p) \/ Takes(p) \/ TakeExclusive(p) \/ Die(p)
  PROVE TypeOK'
<1>0. TypeOK /\ OpsAreInPlace /\ HandsAreFilled
  BY DEF IInv
<1>a. hand[p] \in Hand /\ pc[p] \in Steps
  BY <1>0 DEF TypeOK
<1>StartCommand. ASSUME StartCommand(p) PROVE TypeOK'
  BY <1>0, <1>StartCommand, StartTypes DEF StartCommand, Ops, Steps
<1>StartInit. ASSUME StartInit(p) PROVE TypeOK'
  BY <1>0, <1>StartInit, StartTypes DEF StartInit, Ops, Steps
<1>StartRepair. ASSUME StartRepair(p) PROVE TypeOK'
  BY <1>0, <1>StartRepair, StartTypes DEF StartRepair, Ops, Steps
<1>StartClean. ASSUME StartClean(p) PROVE TypeOK'
  BY <1>0, <1>StartClean, StartTypes DEF StartClean, Ops, Steps
<1>Edit. ASSUME Edit(p) PROVE TypeOK'
  <2>1. hand' \in [Procs -> Hand]
    <3>1. PICK next \in Locks : hand' = [hand EXCEPT ![p].next = next]
      BY <1>Edit DEF Edit
    <3>2. [hand[p] EXCEPT !.next = next] \in Hand
      BY <1>a, HandTypes
    <3> QED
      BY <1>0, <3>1, <3>2 DEF TypeOK
  <2>2. pc' \in [Procs -> Steps]
    BY <1>0, <1>Edit DEF Edit, TypeOK, Goto, Steps, WriterSteps
  <2> QED
    BY <1>0, <1>Edit, <2>1, <2>2 DEF Edit, TypeOK, locks, project
<1>WriteJournal. ASSUME WriteJournal(p) PROVE TypeOK'
  <2>1. PICK id \in Ids :
          /\ journals' = [journals EXCEPT ![id] =
                [root |-> hand[p].root, phase |-> "prepared",
                 old |-> lock[hand[p].root], new |-> hand[p].next]]
          /\ hand' = [hand EXCEPT ![p].id = id]
    BY <1>WriteJournal DEF WriteJournal
  <2>2. hand' \in [Procs -> Hand]
    BY <1>0, <1>a, <2>1, HandTypes DEF TypeOK
  <2>3. /\ hand[p].root \in Roots
        /\ hand[p].next \in Locks
    BY <1>0, <1>a, <1>WriteJournal
    DEF WriteJournal, At, OpsAreInPlace, HandsAreFilled, Hand, WriterSteps
  <2>4. journals' \in [Ids -> Journal \cup {None}]
    BY <1>0, <2>1, <2>3 DEF TypeOK, Journal
  <2> QED
    BY <1>0, <1>WriteJournal, <2>2, <2>4
    DEF WriteJournal, TypeOK, Goto, Steps, WriterSteps, locks
<1>CommitJournal. ASSUME CommitJournal(p) PROVE TypeOK'
  <2>1. hand[p].id \in Ids /\ journals[hand[p].id] \in Journal
    BY <1>0, <1>a, <1>CommitJournal
    DEF CommitJournal, At, HandsAreFilled, TypeOK, Hand
  <2>2. journals' \in [Ids -> Journal \cup {None}]
    BY <1>0, <1>CommitJournal, <2>1, JournalTypes DEF CommitJournal, TypeOK
  <2> QED
    BY <1>0, <1>CommitJournal, <2>2
    DEF CommitJournal, Goto, TypeOK, Steps, WriterSteps, locks
<1>BindKeeps. ASSUME BindKeeps(p) PROVE TypeOK'
  <2>1. hand' \in [Procs -> Hand]
    BY <1>0, <1>a, <1>BindKeeps, HandTypes DEF BindKeeps, Bound, Return, TypeOK
  <2>2. pc' \in [Procs -> Steps]
    BY <1>0, <1>BindKeeps
    DEF BindKeeps, Bound, Return, Registering, Goto, TypeOK, Steps, WriterSteps
  <2> QED
    BY <1>0, <1>BindKeeps, <2>1, <2>2
    DEF BindKeeps, Bound, Return, Unlock, TypeOK, locks, project
<1>VenvFinish. ASSUME VenvFinish(p) PROVE TypeOK'
  <2>1. hand' \in [Procs -> Hand]
    BY <1>0, <1>a, <1>VenvFinish, HandTypes DEF VenvFinish, Bound, Return, TypeOK
  <2>2. pc' \in [Procs -> Steps]
    BY <1>0, <1>VenvFinish
    DEF VenvFinish, Bound, Return, Registering, Goto, TypeOK, Steps, WriterSteps
  <2> QED
    BY <1>0, <1>VenvFinish, <2>1, <2>2
    DEF VenvFinish, Bound, Return, Unlock, TypeOK, locks
<1>WriteRegistry. ASSUME WriteRegistry(p) PROVE TypeOK'
  <2>1. hand' \in [Procs -> Hand]
    BY <1>0, <1>a, <1>WriteRegistry, HandTypes DEF WriteRegistry, Return, TypeOK
  <2>2. pc' \in [Procs -> Steps]
    BY <1>0, <1>WriteRegistry
    DEF WriteRegistry, Return, Goto, TypeOK, Steps, WriterSteps
  <2>3. registry' \subseteq Roots
    BY <1>0, <1>a, <1>WriteRegistry
    DEF WriteRegistry, At, OpsAreInPlace, RegisterSteps, WriterSteps, Hand
  <2>4. /\ shared' \subseteq Procs
        /\ exclusive' \in Procs \cup {None}
        /\ owner' \in [Roots -> Procs \cup {None}]
        /\ registrar' \in Procs \cup {None}
    BY <1>0, <1>WriteRegistry DEF WriteRegistry, Return, Unlock, TypeOK
  <2> QED
    BY <1>0, <1>WriteRegistry, <2>1, <2>2, <2>3, <2>4 DEF WriteRegistry, TypeOK
<1>RepairVenv. ASSUME RepairVenv(p) PROVE TypeOK'
  <2>1. venv' \in [Roots -> Interpreters \cup {None}]
    BY <1>0, <1>RepairVenv DEF RepairVenv, TypeOK, Rebuild
  <2> QED
    BY <1>0, <1>RepairVenv, <2>1
    DEF RepairVenv, Unlock, Goto, TypeOK, Steps
<1>RepairLook. ASSUME RepairLook(p) PROVE TypeOK'
  <2>1. hand' \in [Procs -> Hand]
    <3>1. hand[p].root \in Roots
      BY <1>0, <1>RepairLook DEF RepairLook, At, OpsAreInPlace
    <3>2. marker[hand[p].root] \in Ids \cup {None}
      BY <1>0, <3>1 DEF TypeOK
    <3>3. [hand[p] EXCEPT !.id = marker[hand[p].root]] \in Hand
      BY <1>a, <3>2, HandTypes
    <3>4. EmptyHand \in Hand
      BY <1>a, HandTypes
    <3> QED
      BY <1>0, <1>RepairLook, <3>3, <3>4 DEF RepairLook, Return, TypeOK
  <2>2. pc' \in [Procs -> Steps]
    BY <1>0, <1>RepairLook DEF RepairLook, Return, Goto, TypeOK, Steps
  <2> QED
    BY <1>0, <1>RepairLook, <2>1, <2>2
    DEF RepairLook, Return, Unlock, TypeOK, locks, project
<1>Recheck. ASSUME Recheck(p) PROVE TypeOK'
  <2>1. hand[p].id \in Ids /\ journals[hand[p].id] \in Journal
    BY <1>0, <1>a, <1>Recheck
    DEF Recheck, At, HandsAreFilled, TypeOK, Hand
  <2>2. hand' \in [Procs -> Hand]
    <3>1. journals[hand[p].id].old \in Locks \cup {None}
      BY <2>1 DEF Journal
    <3>2. [hand[p] EXCEPT !.next = journals[hand[p].id].old] \in Hand
      BY <1>a, <3>1, HandTypes
    <3> QED
      BY <1>0, <1>Recheck, <3>2 DEF Recheck, TypeOK
  <2>3. pc' \in [Procs -> Steps]
    BY <1>0, <1>Recheck DEF Recheck, Goto, TypeOK, Steps, WriterSteps
  <2> QED
    BY <1>0, <1>Recheck, <2>2, <2>3 DEF Recheck, TypeOK, locks, project
<1>MarkRecovered. ASSUME MarkRecovered(p) PROVE TypeOK'
  <2>1. hand[p].id \in Ids /\ journals[hand[p].id] \in Journal
    BY <1>0, <1>a, <1>MarkRecovered
    DEF MarkRecovered, At, HandsAreFilled, TypeOK, Hand
  <2>2. journals' \in [Ids -> Journal \cup {None}]
    BY <1>0, <1>MarkRecovered, <2>1, JournalTypes DEF MarkRecovered, TypeOK
  <2> QED
    BY <1>0, <1>MarkRecovered, <2>2
    DEF MarkRecovered, Goto, TypeOK, Steps, WriterSteps, locks
<1>Scan. ASSUME Scan(p) PROVE TypeOK'
  <2>1. PICK removals \in SUBSET Payloads :
          hand' = [hand EXCEPT ![p].removals = removals]
    BY <1>Scan DEF Scan
  <2>2. hand' \in [Procs -> Hand]
    BY <1>0, <1>a, <2>1, HandTypes DEF TypeOK
  <2> QED
    BY <1>0, <1>Scan, <2>2
    DEF Scan, Goto, TypeOK, Steps, CleanSteps, locks, project
<1>RemoveStarts. ASSUME RemoveStarts(p) PROVE TypeOK'
  <2>1. payload' \in [Payloads -> {"absent", "whole", "broken"}]
    BY <1>0, <1>RemoveStarts DEF RemoveStarts, TypeOK
  <2> QED
    BY <1>0, <1>RemoveStarts, <2>1
    DEF RemoveStarts, Goto, TypeOK, Steps, CleanSteps, locks, project
<1>RemoveEnds. ASSUME RemoveEnds(p) PROVE TypeOK'
  <2>1. payload' \in [Payloads -> {"absent", "whole", "broken"}]
    BY <1>0, <1>RemoveEnds DEF RemoveEnds, TypeOK
  <2>2. hand' \in [Procs -> Hand]
    <3>1. PICK z \in hand[p].removals :
            hand' = [hand EXCEPT ![p].removals = @ \ {z}]
      BY <1>RemoveEnds DEF RemoveEnds
    <3>2. hand[p].removals \ {z} \in SUBSET Payloads
      BY <1>a DEF Hand
    <3> QED
      BY <1>0, <1>a, <3>1, <3>2, HandTypes DEF TypeOK
  <2> QED
    BY <1>0, <1>RemoveEnds, <2>1, <2>2
    DEF RemoveEnds, Goto, TypeOK, Steps, CleanSteps, locks, project
<1> USE <1>0, <1>a, CleanupAssumption, NoneIsNoRecord
        DEF At, Goto,
            TypeOK, Hand, EmptyHand, Steps, WriterSteps, CleanSteps,
            RegisterSteps, OpsAreInPlace, HandsAreFilled, Ops, Journal,
            Rebuild, locks, project
<1>TakeMaintenance. ASSUME TakeMaintenance(p) PROVE TypeOK'
  BY <1>TakeMaintenance DEF TakeMaintenance, OpenToShared
<1>TakeProject. ASSUME TakeProject(p) PROVE TypeOK'
  BY <1>TakeProject DEF TakeProject
<1>Load. ASSUME Load(p) PROVE TypeOK'
  BY <1>Load DEF Load
<1>Refused. ASSUME Refused(p) PROVE TypeOK'
  BY <1>Refused DEF Refused, GiveUp, Return, Unlock
<1>InstallPayload. ASSUME InstallPayload(p) PROVE TypeOK'
  BY <1>InstallPayload DEF InstallPayload
<1>InstallSdk. ASSUME InstallSdk(p) PROVE TypeOK'
  BY <1>InstallSdk DEF InstallSdk
<1>InstallRefused. ASSUME InstallRefused(p) PROVE TypeOK'
  BY <1>InstallRefused DEF InstallRefused, GiveUp, Return, Unlock
<1>OutOfIds. ASSUME OutOfIds(p) PROVE TypeOK'
  BY <1>OutOfIds DEF OutOfIds, GiveUp, Return, Unlock
<1>WriteMarker. ASSUME WriteMarker(p) PROVE TypeOK'
  BY <1>WriteMarker DEF WriteMarker
<1>WriteLock. ASSUME WriteLock(p) PROVE TypeOK'
  BY <1>WriteLock DEF WriteLock, Registering
<1>ClearMarker. ASSUME ClearMarker(p) PROVE TypeOK'
  BY <1>ClearMarker DEF ClearMarker, Return, Unlock
<1>BindRebuilds. ASSUME BindRebuilds(p) PROVE TypeOK'
  BY <1>BindRebuilds DEF BindRebuilds, Interpreter, Content
<1>BindRefused. ASSUME BindRefused(p) PROVE TypeOK'
  BY <1>BindRefused DEF BindRefused, GiveUp, Return, Unlock
<1>VenvCreate. ASSUME VenvCreate(p) PROVE TypeOK'
  BY <1>VenvCreate DEF VenvCreate
<1>VenvFails. ASSUME VenvFails(p) PROVE TypeOK'
  BY <1>VenvFails DEF VenvFails, Return, Unlock
<1>TakeMaintenanceAgain. ASSUME TakeMaintenanceAgain(p) PROVE TypeOK'
  BY <1>TakeMaintenanceAgain DEF TakeMaintenanceAgain, OpenToShared
<1>TakeRegistry. ASSUME TakeRegistry(p) PROVE TypeOK'
  BY <1>TakeRegistry DEF TakeRegistry
<1>ReadRegistry. ASSUME ReadRegistry(p) PROVE TypeOK'
  BY <1>ReadRegistry DEF ReadRegistry
<1>RecheckRefused. ASSUME RecheckRefused(p) PROVE TypeOK'
  BY <1>RecheckRefused DEF RecheckRefused, GiveUp, Return, Unlock
<1>Restore. ASSUME Restore(p) PROVE TypeOK'
  BY <1>Restore DEF Restore
<1>TakeExclusive. ASSUME TakeExclusive(p) PROVE TypeOK'
  BY <1>TakeExclusive DEF TakeExclusive
<1>Cleaned. ASSUME Cleaned(p) PROVE TypeOK'
  BY <1>Cleaned DEF Cleaned, GiveUp, Return, Unlock
<1>Die. ASSUME Die(p) PROVE TypeOK'
  BY <1>Die DEF Die, Return, Unlock
<1> QED
  BY <1>StartCommand, <1>StartInit, <1>StartRepair, <1>StartClean,
     <1>TakeMaintenance, <1>TakeProject, <1>Edit, <1>Load, <1>Refused,
     <1>InstallPayload, <1>InstallSdk, <1>InstallRefused, <1>WriteJournal,
     <1>OutOfIds, <1>WriteMarker, <1>WriteLock, <1>CommitJournal,
     <1>ClearMarker, <1>BindKeeps, <1>BindRebuilds, <1>BindRefused,
     <1>VenvCreate, <1>VenvFails, <1>VenvFinish, <1>TakeMaintenanceAgain,
     <1>TakeRegistry, <1>ReadRegistry, <1>WriteRegistry, <1>RepairVenv,
     <1>RepairLook, <1>Recheck, <1>RecheckRefused, <1>Restore,
     <1>MarkRecovered, <1>TakeExclusive, <1>Scan, <1>RemoveStarts,
     <1>RemoveEnds, <1>Cleaned, <1>Die
  DEF Next, Begins, Proceed, Takes, Commits, Binds, Registers, Repairs, Cleans

-----------------------------------------------------------------------------
\* Whoever is at a step that needs a lock holds it, and the maintenance lock
\* is shared or exclusive.
LEMMA LocksStep ==
  ASSUME IInv, NEW p \in Procs,
         Begins(p) \/ Proceed(p) \/ Takes(p) \/ TakeExclusive(p) \/ Die(p)
  PROVE LocksAreHeld'
<1>0. TypeOK /\ LocksAreHeld /\ OpsAreInPlace
  BY DEF IInv
<1>a. hand[p] \in Hand /\ pc[p] \in Steps
  BY <1>0 DEF TypeOK
<1> USE <1>0, <1>a, CleanupAssumption, NoneIsNoRecord
        DEF At, Goto,
            TypeOK, Hand, EmptyHand, WriterSteps, CleanSteps, RegisterSteps,
            locks, OpsAreInPlace, LocksAreHeld, OwnerSteps
<1>StartCommand. ASSUME StartCommand(p) PROVE LocksAreHeld'
  BY <1>StartCommand DEF StartCommand, Start
<1>StartInit. ASSUME StartInit(p) PROVE LocksAreHeld'
  BY <1>StartInit DEF StartInit, Start
<1>StartRepair. ASSUME StartRepair(p) PROVE LocksAreHeld'
  BY <1>StartRepair DEF StartRepair, Start
<1>StartClean. ASSUME StartClean(p) PROVE LocksAreHeld'
  BY <1>StartClean DEF StartClean, Start
<1>TakeMaintenance. ASSUME TakeMaintenance(p) PROVE LocksAreHeld'
  BY <1>TakeMaintenance DEF TakeMaintenance, OpenToShared
<1>TakeProject. ASSUME TakeProject(p) PROVE LocksAreHeld'
  BY <1>TakeProject DEF TakeProject
<1>Edit. ASSUME Edit(p) PROVE LocksAreHeld'
  BY <1>Edit DEF Edit
<1>Load. ASSUME Load(p) PROVE LocksAreHeld'
  BY <1>Load DEF Load
<1>Refused. ASSUME Refused(p) PROVE LocksAreHeld'
  BY <1>Refused DEF Refused, GiveUp, Return, Unlock
<1>InstallPayload. ASSUME InstallPayload(p) PROVE LocksAreHeld'
  BY <1>InstallPayload DEF InstallPayload
<1>InstallSdk. ASSUME InstallSdk(p) PROVE LocksAreHeld'
  BY <1>InstallSdk DEF InstallSdk
<1>InstallRefused. ASSUME InstallRefused(p) PROVE LocksAreHeld'
  BY <1>InstallRefused DEF InstallRefused, GiveUp, Return, Unlock
<1>WriteJournal. ASSUME WriteJournal(p) PROVE LocksAreHeld'
  BY <1>WriteJournal DEF WriteJournal
<1>OutOfIds. ASSUME OutOfIds(p) PROVE LocksAreHeld'
  BY <1>OutOfIds DEF OutOfIds, GiveUp, Return, Unlock
<1>WriteMarker. ASSUME WriteMarker(p) PROVE LocksAreHeld'
  BY <1>WriteMarker DEF WriteMarker
<1>WriteLock. ASSUME WriteLock(p) PROVE LocksAreHeld'
  BY <1>WriteLock DEF WriteLock, Registering
<1>CommitJournal. ASSUME CommitJournal(p) PROVE LocksAreHeld'
  BY <1>CommitJournal DEF CommitJournal
<1>ClearMarker. ASSUME ClearMarker(p) PROVE LocksAreHeld'
  BY <1>ClearMarker DEF ClearMarker, Return, Unlock
<1>BindKeeps. ASSUME BindKeeps(p) PROVE LocksAreHeld'
  BY <1>BindKeeps
  DEF BindKeeps, Bound, Registering, Interpreter, Content, Return, Unlock
<1>BindRebuilds. ASSUME BindRebuilds(p) PROVE LocksAreHeld'
  BY <1>BindRebuilds DEF BindRebuilds, Interpreter, Content
<1>BindRefused. ASSUME BindRefused(p) PROVE LocksAreHeld'
  BY <1>BindRefused DEF BindRefused, GiveUp, Return, Unlock
<1>VenvCreate. ASSUME VenvCreate(p) PROVE LocksAreHeld'
  BY <1>VenvCreate DEF VenvCreate
<1>VenvFails. ASSUME VenvFails(p) PROVE LocksAreHeld'
  BY <1>VenvFails DEF VenvFails, Return, Unlock
<1>VenvFinish. ASSUME VenvFinish(p) PROVE LocksAreHeld'
  BY <1>VenvFinish DEF VenvFinish, Bound, Registering, Return, Unlock
<1>TakeMaintenanceAgain. ASSUME TakeMaintenanceAgain(p) PROVE LocksAreHeld'
  BY <1>TakeMaintenanceAgain DEF TakeMaintenanceAgain, OpenToShared
<1>TakeRegistry. ASSUME TakeRegistry(p) PROVE LocksAreHeld'
  BY <1>TakeRegistry DEF TakeRegistry
<1>ReadRegistry. ASSUME ReadRegistry(p) PROVE LocksAreHeld'
  BY <1>ReadRegistry DEF ReadRegistry
<1>WriteRegistry. ASSUME WriteRegistry(p) PROVE LocksAreHeld'
  BY <1>WriteRegistry DEF WriteRegistry, Return, Unlock
<1>RepairVenv. ASSUME RepairVenv(p) PROVE LocksAreHeld'
  BY <1>RepairVenv DEF RepairVenv, Unlock
<1>RepairLook. ASSUME RepairLook(p) PROVE LocksAreHeld'
  BY <1>RepairLook DEF RepairLook, Return, Unlock
<1>Recheck. ASSUME Recheck(p) PROVE LocksAreHeld'
  BY <1>Recheck DEF Recheck
<1>RecheckRefused. ASSUME RecheckRefused(p) PROVE LocksAreHeld'
  BY <1>RecheckRefused DEF RecheckRefused, GiveUp, Return, Unlock
<1>Restore. ASSUME Restore(p) PROVE LocksAreHeld'
  BY <1>Restore DEF Restore
<1>MarkRecovered. ASSUME MarkRecovered(p) PROVE LocksAreHeld'
  BY <1>MarkRecovered DEF MarkRecovered
<1>TakeExclusive. ASSUME TakeExclusive(p) PROVE LocksAreHeld'
  BY <1>TakeExclusive DEF TakeExclusive
<1>Scan. ASSUME Scan(p) PROVE LocksAreHeld'
  BY <1>Scan DEF Scan
<1>RemoveStarts. ASSUME RemoveStarts(p) PROVE LocksAreHeld'
  BY <1>RemoveStarts DEF RemoveStarts
<1>RemoveEnds. ASSUME RemoveEnds(p) PROVE LocksAreHeld'
  BY <1>RemoveEnds DEF RemoveEnds
<1>Cleaned. ASSUME Cleaned(p) PROVE LocksAreHeld'
  BY <1>Cleaned DEF Cleaned, GiveUp, Return, Unlock
<1>Die. ASSUME Die(p) PROVE LocksAreHeld'
  BY <1>Die DEF Die, Return, Unlock
<1> QED
  BY <1>StartCommand, <1>StartInit, <1>StartRepair, <1>StartClean,
     <1>TakeMaintenance, <1>TakeProject, <1>Edit, <1>Load, <1>Refused,
     <1>InstallPayload, <1>InstallSdk, <1>InstallRefused, <1>WriteJournal,
     <1>OutOfIds, <1>WriteMarker, <1>WriteLock, <1>CommitJournal,
     <1>ClearMarker, <1>BindKeeps, <1>BindRebuilds, <1>BindRefused,
     <1>VenvCreate, <1>VenvFails, <1>VenvFinish, <1>TakeMaintenanceAgain,
     <1>TakeRegistry, <1>ReadRegistry, <1>WriteRegistry, <1>RepairVenv,
     <1>RepairLook, <1>Recheck, <1>RecheckRefused, <1>Restore,
     <1>MarkRecovered, <1>TakeExclusive, <1>Scan, <1>RemoveStarts,
     <1>RemoveEnds, <1>Cleaned, <1>Die
  DEF Next, Begins, Proceed, Takes, Commits, Binds, Registers, Repairs, Cleans

-----------------------------------------------------------------------------
\* Every step belongs to the commands that take it.
LEMMA OpsStep ==
  ASSUME IInv, NEW p \in Procs,
         Begins(p) \/ Proceed(p) \/ Takes(p) \/ TakeExclusive(p) \/ Die(p)
  PROVE OpsAreInPlace'
<1>0. TypeOK /\ OpsAreInPlace
  BY DEF IInv
<1>a. hand[p] \in Hand /\ pc[p] \in Steps
  BY <1>0 DEF TypeOK
<1>StartCommand. ASSUME StartCommand(p) PROVE OpsAreInPlace'
  <2>1. PICK root \in Roots, op \in {"use", "commit", "install"} :
          Start(p, op, root, "want-maintenance")
    BY <1>StartCommand DEF StartCommand
  <2> QED
    BY <1>0, <2>1 DEF Start, At, Goto, EmptyHand, OpsAreInPlace, TypeOK, WriterSteps, RegisterSteps
<1>Edit. ASSUME Edit(p) PROVE OpsAreInPlace'
  <2>1. PICK next \in Locks : hand' = [hand EXCEPT ![p].next = next]
    BY <1>Edit DEF Edit
  <2> QED
    BY <1>0, <1>a, <1>Edit, <2>1, CleanupAssumption
    DEF Edit, At, Goto, OpsAreInPlace, TypeOK, WriterSteps, RegisterSteps, Hand
<1>RemoveStarts. ASSUME RemoveStarts(p) PROVE OpsAreInPlace'
  <2>1. /\ UNCHANGED <<locks, project, hand>> /\ pc[p] = "remove"
        /\ pc' = [pc EXCEPT ![p] = "removing"]
    BY <1>RemoveStarts DEF RemoveStarts, At, Goto
  <2> QED
    BY <1>0, <2>1 DEF locks, project, OpsAreInPlace, TypeOK, WriterSteps, RegisterSteps
<1>RemoveEnds. ASSUME RemoveEnds(p) PROVE OpsAreInPlace'
  <2>1. /\ UNCHANGED <<locks, project>> /\ pc[p] = "removing"
        /\ pc' = [pc EXCEPT ![p] = "remove"]
    BY <1>RemoveEnds DEF RemoveEnds, At, Goto
  <2>2. PICK z \in hand[p].removals : hand' = [hand EXCEPT ![p].removals = @ \ {z}]
    BY <1>RemoveEnds DEF RemoveEnds
  <2> QED
    BY <1>0, <1>a, <2>1, <2>2 DEF locks, project, Hand, OpsAreInPlace, TypeOK, WriterSteps, RegisterSteps
<1> USE <1>0, <1>a, CleanupAssumption, NoneIsNoRecord
        DEF At, Goto,
            TypeOK, Hand, EmptyHand, WriterSteps, CleanSteps, RegisterSteps,
            locks, project, OpsAreInPlace
<1>StartInit. ASSUME StartInit(p) PROVE OpsAreInPlace'
  BY <1>StartInit DEF StartInit, Start
<1>StartRepair. ASSUME StartRepair(p) PROVE OpsAreInPlace'
  BY <1>StartRepair DEF StartRepair, Start
<1>StartClean. ASSUME StartClean(p) PROVE OpsAreInPlace'
  BY <1>StartClean DEF StartClean, Start
<1>TakeMaintenance. ASSUME TakeMaintenance(p) PROVE OpsAreInPlace'
  BY <1>TakeMaintenance DEF TakeMaintenance, OpenToShared
<1>TakeProject. ASSUME TakeProject(p) PROVE OpsAreInPlace'
  BY <1>TakeProject DEF TakeProject
<1>Load. ASSUME Load(p) PROVE OpsAreInPlace'
  BY <1>Load DEF Load
<1>Refused. ASSUME Refused(p) PROVE OpsAreInPlace'
  BY <1>Refused DEF Refused, GiveUp, Return, Unlock
<1>InstallPayload. ASSUME InstallPayload(p) PROVE OpsAreInPlace'
  BY <1>InstallPayload DEF InstallPayload
<1>InstallSdk. ASSUME InstallSdk(p) PROVE OpsAreInPlace'
  BY <1>InstallSdk DEF InstallSdk
<1>InstallRefused. ASSUME InstallRefused(p) PROVE OpsAreInPlace'
  BY <1>InstallRefused DEF InstallRefused, GiveUp, Return, Unlock
<1>WriteJournal. ASSUME WriteJournal(p) PROVE OpsAreInPlace'
  BY <1>WriteJournal DEF WriteJournal
<1>OutOfIds. ASSUME OutOfIds(p) PROVE OpsAreInPlace'
  BY <1>OutOfIds DEF OutOfIds, GiveUp, Return, Unlock
<1>WriteMarker. ASSUME WriteMarker(p) PROVE OpsAreInPlace'
  BY <1>WriteMarker DEF WriteMarker
<1>WriteLock. ASSUME WriteLock(p) PROVE OpsAreInPlace'
  BY <1>WriteLock DEF WriteLock, Registering
<1>CommitJournal. ASSUME CommitJournal(p) PROVE OpsAreInPlace'
  BY <1>CommitJournal DEF CommitJournal
<1>ClearMarker. ASSUME ClearMarker(p) PROVE OpsAreInPlace'
  BY <1>ClearMarker DEF ClearMarker, Return, Unlock
<1>BindKeeps. ASSUME BindKeeps(p) PROVE OpsAreInPlace'
  BY <1>BindKeeps
  DEF BindKeeps, Bound, Registering, Interpreter, Content, Return, Unlock
<1>BindRebuilds. ASSUME BindRebuilds(p) PROVE OpsAreInPlace'
  BY <1>BindRebuilds DEF BindRebuilds, Interpreter, Content
<1>BindRefused. ASSUME BindRefused(p) PROVE OpsAreInPlace'
  BY <1>BindRefused DEF BindRefused, GiveUp, Return, Unlock
<1>VenvCreate. ASSUME VenvCreate(p) PROVE OpsAreInPlace'
  BY <1>VenvCreate DEF VenvCreate
<1>VenvFails. ASSUME VenvFails(p) PROVE OpsAreInPlace'
  BY <1>VenvFails DEF VenvFails, Return, Unlock
<1>VenvFinish. ASSUME VenvFinish(p) PROVE OpsAreInPlace'
  BY <1>VenvFinish DEF VenvFinish, Bound, Registering, Return, Unlock
<1>TakeMaintenanceAgain. ASSUME TakeMaintenanceAgain(p) PROVE OpsAreInPlace'
  BY <1>TakeMaintenanceAgain DEF TakeMaintenanceAgain, OpenToShared
<1>TakeRegistry. ASSUME TakeRegistry(p) PROVE OpsAreInPlace'
  BY <1>TakeRegistry DEF TakeRegistry
<1>ReadRegistry. ASSUME ReadRegistry(p) PROVE OpsAreInPlace'
  BY <1>ReadRegistry DEF ReadRegistry
<1>WriteRegistry. ASSUME WriteRegistry(p) PROVE OpsAreInPlace'
  BY <1>WriteRegistry DEF WriteRegistry, Return, Unlock
<1>RepairVenv. ASSUME RepairVenv(p) PROVE OpsAreInPlace'
  BY <1>RepairVenv DEF RepairVenv, Unlock
<1>RepairLook. ASSUME RepairLook(p) PROVE OpsAreInPlace'
  BY <1>RepairLook DEF RepairLook, Return, Unlock
<1>Recheck. ASSUME Recheck(p) PROVE OpsAreInPlace'
  BY <1>Recheck DEF Recheck
<1>RecheckRefused. ASSUME RecheckRefused(p) PROVE OpsAreInPlace'
  BY <1>RecheckRefused DEF RecheckRefused, GiveUp, Return, Unlock
<1>Restore. ASSUME Restore(p) PROVE OpsAreInPlace'
  BY <1>Restore DEF Restore
<1>MarkRecovered. ASSUME MarkRecovered(p) PROVE OpsAreInPlace'
  BY <1>MarkRecovered DEF MarkRecovered
<1>TakeExclusive. ASSUME TakeExclusive(p) PROVE OpsAreInPlace'
  BY <1>TakeExclusive DEF TakeExclusive
<1>Scan. ASSUME Scan(p) PROVE OpsAreInPlace'
  BY <1>Scan DEF Scan
<1>Cleaned. ASSUME Cleaned(p) PROVE OpsAreInPlace'
  BY <1>Cleaned DEF Cleaned, GiveUp, Return, Unlock
<1>Die. ASSUME Die(p) PROVE OpsAreInPlace'
  BY <1>Die DEF Die, Return, Unlock
<1> QED
  BY <1>StartCommand, <1>StartInit, <1>StartRepair, <1>StartClean,
     <1>TakeMaintenance, <1>TakeProject, <1>Edit, <1>Load, <1>Refused,
     <1>InstallPayload, <1>InstallSdk, <1>InstallRefused, <1>WriteJournal,
     <1>OutOfIds, <1>WriteMarker, <1>WriteLock, <1>CommitJournal,
     <1>ClearMarker, <1>BindKeeps, <1>BindRebuilds, <1>BindRefused,
     <1>VenvCreate, <1>VenvFails, <1>VenvFinish, <1>TakeMaintenanceAgain,
     <1>TakeRegistry, <1>ReadRegistry, <1>WriteRegistry, <1>RepairVenv,
     <1>RepairLook, <1>Recheck, <1>RecheckRefused, <1>Restore,
     <1>MarkRecovered, <1>TakeExclusive, <1>Scan, <1>RemoveStarts,
     <1>RemoveEnds, <1>Cleaned, <1>Die
  DEF Next, Begins, Proceed, Takes, Commits, Binds, Registers, Repairs, Cleans

-----------------------------------------------------------------------------
\* A command has in memory, and on disk, what its next step uses.
LEMMA HandsStep ==
  ASSUME IInv, NEW p \in Procs,
         Begins(p) \/ Proceed(p) \/ Takes(p) \/ TakeExclusive(p) \/ Die(p)
  PROVE HandsAreFilled'
<1>0. TypeOK /\ LocksAreHeld /\ OpsAreInPlace /\ HandsAreFilled
  BY DEF IInv
<1>a. hand[p] \in Hand /\ pc[p] \in Steps
  BY <1>0 DEF TypeOK
<1>StartCommand. ASSUME StartCommand(p) PROVE HandsAreFilled'
  <2>1. PICK root \in Roots, op \in {"use", "commit", "install"} :
          Start(p, op, root, "want-maintenance")
    BY <1>StartCommand DEF StartCommand
  <2> QED
    BY <1>0, <2>1 DEF Start, At, Goto, EmptyHand, HandsAreFilled, TypeOK, WriterSteps, RegisterSteps, project
<1>TakeProject. ASSUME TakeProject(p) PROVE HandsAreFilled'
  <2>1. /\ UNCHANGED <<project, hand>> /\ pc[p] = "want-project"
        /\ hand[p].op \in {"use", "commit", "install", "repair"}
    BY <1>0, <1>TakeProject DEF TakeProject, At, OpsAreInPlace
  <2>2. CASE hand[p].op = "repair" /\ hand[p].id = None
    <3>1. pc' = [pc EXCEPT ![p] = "repair-venv"]
      BY <1>TakeProject, <2>2 DEF TakeProject, Goto
    <3> QED
      BY <1>0, <2>1, <3>1
      DEF project, HandsAreFilled, TypeOK, WriterSteps, RegisterSteps
  <2>3. CASE hand[p].op = "repair" /\ hand[p].id # None
    <3>1. pc' = [pc EXCEPT ![p] = "recheck"]
      BY <1>TakeProject, <2>3 DEF TakeProject, Goto
    <3> QED
      BY <1>0, <2>1, <2>3, <3>1
      DEF project, HandsAreFilled, TypeOK, WriterSteps, RegisterSteps
  <2>4. CASE hand[p].op # "repair"
    <3>1. \/ pc' = [pc EXCEPT ![p] = "load"]
          \/ pc' = [pc EXCEPT ![p] = "edit"]
      BY <1>TakeProject, <2>4 DEF TakeProject, Goto
    <3> QED
      BY <1>0, <2>1, <3>1
      DEF project, HandsAreFilled, TypeOK, WriterSteps, RegisterSteps
  <2> QED
    BY <2>2, <2>3, <2>4
<1>Edit. ASSUME Edit(p) PROVE HandsAreFilled'
  <2>1. PICK next \in Locks : hand' = [hand EXCEPT ![p].next = next]
    BY <1>Edit DEF Edit
  <2> QED
    BY <1>0, <1>a, <1>Edit, <2>1, CleanupAssumption
    DEF Edit, At, Goto, HandsAreFilled, TypeOK, WriterSteps, RegisterSteps, Hand, locks, project
<1>WriteJournal. ASSUME WriteJournal(p) PROVE HandsAreFilled'
  <2>1. PICK id \in Ids :
          /\ journals' = [journals EXCEPT ![id] =
                [root |-> hand[p].root, phase |-> "prepared",
                 old |-> lock[hand[p].root], new |-> hand[p].next]]
          /\ hand' = [hand EXCEPT ![p].id = id]
    BY <1>WriteJournal DEF WriteJournal
  <2>2. journals'[id] # None
    <3>1. hand[p].root \in Roots /\ hand[p].next \in Locks
      BY <1>0, <1>a, <1>WriteJournal
      DEF WriteJournal, At, OpsAreInPlace, HandsAreFilled, Hand, WriterSteps
    <3> QED
      BY <1>0, <2>1, <3>1, NoneIsNoRecord DEF TypeOK, Journal
  <2>3. \A k \in Ids : journals[k] # None => journals'[k] # None
    BY <1>0, <2>1, <2>2 DEF TypeOK
  <2> QED
    BY <1>0, <1>a, <1>WriteJournal, <2>1, <2>2, <2>3, CleanupAssumption
    DEF WriteJournal, At, Goto, HandsAreFilled, TypeOK, Hand, WriterSteps,
        RegisterSteps
<1>CommitJournal. ASSUME CommitJournal(p) PROVE HandsAreFilled'
  <2>1. hand[p].id \in Ids /\ journals[hand[p].id] \in Journal
    BY <1>0, <1>a, <1>CommitJournal DEF CommitJournal, At, HandsAreFilled, TypeOK, Hand
  <2>2. [journals[hand[p].id] EXCEPT !.phase = "committed"] # None
    BY <2>1, JournalTypes, NoneIsNoRecord
  <2>3. \A k \in Ids : journals[k] # None => journals'[k] # None
    BY <1>0, <1>CommitJournal, <2>2 DEF CommitJournal, TypeOK
  <2> QED
    BY <1>0, <1>a, <1>CommitJournal, <2>3
    DEF CommitJournal, At, Goto, HandsAreFilled, TypeOK, Hand, WriterSteps,
        RegisterSteps
<1>BindRebuilds. ASSUME BindRebuilds(p) PROVE HandsAreFilled'
  <2>1. PICK x \in Interpreter(p) :
          rebuild' = [rebuild EXCEPT ![hand[p].root] =
                        [before |-> venv[hand[p].root], next |-> x]]
    BY <1>BindRebuilds DEF BindRebuilds
  <2>2. hand[p].root \in Roots /\ x \in Interpreters
    BY <1>0, <1>BindRebuilds
    DEF BindRebuilds, At, OpsAreInPlace, WriterSteps, Interpreter
  <2>3. rebuild'[hand[p].root] # None
    BY <1>0, <2>1, <2>2, NoneIsNoRecord DEF TypeOK, Rebuild
  <2>4. \A r \in Roots : rebuild[r] # None => rebuild'[r] # None
    BY <1>0, <2>1, <2>3 DEF TypeOK
  <2> QED
    BY <1>0, <1>a, <1>BindRebuilds, <2>2, <2>3, <2>4
    DEF BindRebuilds, At, Goto, HandsAreFilled, OpsAreInPlace, TypeOK, Hand,
        WriterSteps, RegisterSteps
<1>RepairVenv. ASSUME RepairVenv(p) PROVE HandsAreFilled'
  <2>1. owner[hand[p].root] = p /\ hand[p].op = "repair"
    BY <1>0, <1>RepairVenv
    DEF RepairVenv, At, LocksAreHeld, OpsAreInPlace, OwnerSteps, WriterSteps,
        RegisterSteps
  <2>2. \A q \in Procs : pc[q] \in {"venv-create", "venv-finish"}
                           => owner[hand[q].root] = q /\ hand[q].root \in Roots
    BY <1>0
    DEF LocksAreHeld, OpsAreInPlace, OwnerSteps, WriterSteps, RegisterSteps
  <2>3. /\ rebuild' = [rebuild EXCEPT ![hand[p].root] = None]
        /\ pc[p] = "repair-venv" /\ pc' = [pc EXCEPT ![p] = "repair-look"]
        /\ UNCHANGED <<marker, journals, registry, hand>>
    BY <1>RepairVenv DEF RepairVenv, At, Goto
  <2>4. hand[p].next = None
    BY <1>0, <1>a, <2>3
    DEF HandsAreFilled
  <2> QED
    BY <1>0, <1>a, <2>1, <2>2, <2>3, <2>4
    DEF HandsAreFilled, TypeOK, WriterSteps, RegisterSteps
<1>Recheck. ASSUME Recheck(p) PROVE HandsAreFilled'
  <2>1. /\ UNCHANGED project /\ pc[p] = "recheck" /\ hand[p].id # None
        /\ \/ /\ pc' = [pc EXCEPT ![p] = "restore"]
              /\ hand' = [hand EXCEPT ![p].next = journals[hand[p].id].old]
           \/ /\ pc' = [pc EXCEPT ![p] = "clear"]
              /\ UNCHANGED hand
    BY <1>0, <1>Recheck DEF Recheck, At, Goto, HandsAreFilled
  <2> QED
    BY <1>0, <1>a, <2>1
    DEF project, HandsAreFilled, TypeOK, Hand, WriterSteps, RegisterSteps
<1>MarkRecovered. ASSUME MarkRecovered(p) PROVE HandsAreFilled'
  <2>1. hand[p].id \in Ids /\ journals[hand[p].id] \in Journal
    BY <1>0, <1>a, <1>MarkRecovered DEF MarkRecovered, At, HandsAreFilled, TypeOK, Hand
  <2>2. [journals[hand[p].id] EXCEPT !.phase = "recovered"] # None
    BY <2>1, JournalTypes, NoneIsNoRecord
  <2>3. \A k \in Ids : journals[k] # None => journals'[k] # None
    BY <1>0, <1>MarkRecovered, <2>2 DEF MarkRecovered, TypeOK
  <2> QED
    BY <1>0, <1>a, <1>MarkRecovered, <2>3
    DEF MarkRecovered, At, Goto, HandsAreFilled, TypeOK, Hand, WriterSteps,
        RegisterSteps
<1>RemoveStarts. ASSUME RemoveStarts(p) PROVE HandsAreFilled'
  <2>1. /\ UNCHANGED <<locks, project, hand>> /\ pc[p] = "remove"
        /\ pc' = [pc EXCEPT ![p] = "removing"]
    BY <1>RemoveStarts DEF RemoveStarts, At, Goto
  <2> QED
    BY <1>0, <2>1 DEF locks, project, HandsAreFilled, TypeOK, WriterSteps, RegisterSteps
<1>RemoveEnds. ASSUME RemoveEnds(p) PROVE HandsAreFilled'
  <2>1. /\ UNCHANGED <<locks, project>> /\ pc[p] = "removing"
        /\ pc' = [pc EXCEPT ![p] = "remove"]
    BY <1>RemoveEnds DEF RemoveEnds, At, Goto
  <2>2. PICK z \in hand[p].removals : hand' = [hand EXCEPT ![p].removals = @ \ {z}]
    BY <1>RemoveEnds DEF RemoveEnds
  <2> QED
    BY <1>0, <1>a, <2>1, <2>2 DEF locks, project, Hand, HandsAreFilled, TypeOK, WriterSteps, RegisterSteps
<1> USE <1>0, <1>a, CleanupAssumption, NoneIsNoRecord
        DEF At, Goto,
            TypeOK, Hand, EmptyHand, WriterSteps, CleanSteps, RegisterSteps,
            locks, project, HandsAreFilled, LocksAreHeld, OwnerSteps,
            OpsAreInPlace
<1>StartInit. ASSUME StartInit(p) PROVE HandsAreFilled'
  BY <1>StartInit DEF StartInit, Start
<1>StartRepair. ASSUME StartRepair(p) PROVE HandsAreFilled'
  BY <1>StartRepair DEF StartRepair, Start
<1>StartClean. ASSUME StartClean(p) PROVE HandsAreFilled'
  BY <1>StartClean DEF StartClean, Start
<1>TakeMaintenance. ASSUME TakeMaintenance(p) PROVE HandsAreFilled'
  BY <1>TakeMaintenance DEF TakeMaintenance, OpenToShared
<1>Load. ASSUME Load(p) PROVE HandsAreFilled'
  BY <1>Load DEF Load
<1>Refused. ASSUME Refused(p) PROVE HandsAreFilled'
  BY <1>Refused DEF Refused, GiveUp, Return, Unlock
<1>InstallPayload. ASSUME InstallPayload(p) PROVE HandsAreFilled'
  BY <1>InstallPayload DEF InstallPayload
<1>InstallSdk. ASSUME InstallSdk(p) PROVE HandsAreFilled'
  BY <1>InstallSdk DEF InstallSdk
<1>InstallRefused. ASSUME InstallRefused(p) PROVE HandsAreFilled'
  BY <1>InstallRefused DEF InstallRefused, GiveUp, Return, Unlock
<1>OutOfIds. ASSUME OutOfIds(p) PROVE HandsAreFilled'
  BY <1>OutOfIds DEF OutOfIds, GiveUp, Return, Unlock
<1>WriteMarker. ASSUME WriteMarker(p) PROVE HandsAreFilled'
  BY <1>WriteMarker DEF WriteMarker
<1>WriteLock. ASSUME WriteLock(p) PROVE HandsAreFilled'
  BY <1>WriteLock DEF WriteLock, Registering
<1>ClearMarker. ASSUME ClearMarker(p) PROVE HandsAreFilled'
  BY <1>ClearMarker DEF ClearMarker, Return, Unlock
<1>BindKeeps. ASSUME BindKeeps(p) PROVE HandsAreFilled'
  BY <1>BindKeeps
  DEF BindKeeps, Bound, Registering, Interpreter, Content, Return, Unlock
<1>BindRefused. ASSUME BindRefused(p) PROVE HandsAreFilled'
  BY <1>BindRefused DEF BindRefused, GiveUp, Return, Unlock
<1>VenvCreate. ASSUME VenvCreate(p) PROVE HandsAreFilled'
  BY <1>VenvCreate DEF VenvCreate
<1>VenvFails. ASSUME VenvFails(p) PROVE HandsAreFilled'
  BY <1>VenvFails DEF VenvFails, Return, Unlock
<1>VenvFinish. ASSUME VenvFinish(p) PROVE HandsAreFilled'
  BY <1>VenvFinish DEF VenvFinish, Bound, Registering, Return, Unlock
<1>TakeMaintenanceAgain. ASSUME TakeMaintenanceAgain(p) PROVE HandsAreFilled'
  BY <1>TakeMaintenanceAgain DEF TakeMaintenanceAgain, OpenToShared
<1>TakeRegistry. ASSUME TakeRegistry(p) PROVE HandsAreFilled'
  BY <1>TakeRegistry DEF TakeRegistry
<1>ReadRegistry. ASSUME ReadRegistry(p) PROVE HandsAreFilled'
  BY <1>ReadRegistry DEF ReadRegistry
<1>WriteRegistry. ASSUME WriteRegistry(p) PROVE HandsAreFilled'
  BY <1>WriteRegistry DEF WriteRegistry, Return, Unlock
<1>RepairLook. ASSUME RepairLook(p) PROVE HandsAreFilled'
  BY <1>RepairLook DEF RepairLook, Return, Unlock
<1>RecheckRefused. ASSUME RecheckRefused(p) PROVE HandsAreFilled'
  BY <1>RecheckRefused DEF RecheckRefused, GiveUp, Return, Unlock
<1>Restore. ASSUME Restore(p) PROVE HandsAreFilled'
  BY <1>Restore DEF Restore
<1>TakeExclusive. ASSUME TakeExclusive(p) PROVE HandsAreFilled'
  BY <1>TakeExclusive DEF TakeExclusive
<1>Scan. ASSUME Scan(p) PROVE HandsAreFilled'
  BY <1>Scan DEF Scan
<1>Cleaned. ASSUME Cleaned(p) PROVE HandsAreFilled'
  BY <1>Cleaned DEF Cleaned, GiveUp, Return, Unlock
<1>Die. ASSUME Die(p) PROVE HandsAreFilled'
  BY <1>Die DEF Die, Return, Unlock
<1> QED
  BY <1>StartCommand, <1>StartInit, <1>StartRepair, <1>StartClean,
     <1>TakeMaintenance, <1>TakeProject, <1>Edit, <1>Load, <1>Refused,
     <1>InstallPayload, <1>InstallSdk, <1>InstallRefused, <1>WriteJournal,
     <1>OutOfIds, <1>WriteMarker, <1>WriteLock, <1>CommitJournal,
     <1>ClearMarker, <1>BindKeeps, <1>BindRebuilds, <1>BindRefused,
     <1>VenvCreate, <1>VenvFails, <1>VenvFinish, <1>TakeMaintenanceAgain,
     <1>TakeRegistry, <1>ReadRegistry, <1>WriteRegistry, <1>RepairVenv,
     <1>RepairLook, <1>Recheck, <1>RecheckRefused, <1>Restore,
     <1>MarkRecovered, <1>TakeExclusive, <1>Scan, <1>RemoveStarts,
     <1>RemoveEnds, <1>Cleaned, <1>Die
  DEF Next, Begins, Proceed, Takes, Commits, Binds, Registers, Repairs, Cleans

-----------------------------------------------------------------------------
\* What a command installed stays until it returns: no clean runs meanwhile.
LEMMA UsedStep ==
  ASSUME IInv, NEW p \in Procs,
         Begins(p) \/ Proceed(p) \/ Takes(p) \/ TakeExclusive(p) \/ Die(p)
  PROVE UsedIsPresent'
<1>0. TypeOK /\ LocksAreHeld /\ OpsAreInPlace /\ HandsAreFilled /\ UsedIsPresent
  BY DEF IInv
<1>a. hand[p] \in Hand /\ pc[p] \in Steps
  BY <1>0 DEF TypeOK
<1> USE <1>0, <1>a, CleanupAssumption, NoneIsNoRecord
        DEF At, Goto,
            TypeOK, Hand, EmptyHand, WriterSteps, CleanSteps, RegisterSteps,
            locks, project, UsedIsPresent, Present, Content, LocksAreHeld,
            OpsAreInPlace, HandsAreFilled
<1>StartCommand. ASSUME StartCommand(p) PROVE UsedIsPresent'
  BY <1>StartCommand DEF StartCommand, Start
<1>StartInit. ASSUME StartInit(p) PROVE UsedIsPresent'
  BY <1>StartInit DEF StartInit, Start
<1>StartRepair. ASSUME StartRepair(p) PROVE UsedIsPresent'
  BY <1>StartRepair DEF StartRepair, Start
<1>StartClean. ASSUME StartClean(p) PROVE UsedIsPresent'
  BY <1>StartClean DEF StartClean, Start
<1>TakeMaintenance. ASSUME TakeMaintenance(p) PROVE UsedIsPresent'
  BY <1>TakeMaintenance DEF TakeMaintenance, OpenToShared
<1>TakeProject. ASSUME TakeProject(p) PROVE UsedIsPresent'
  BY <1>TakeProject DEF TakeProject
<1>Edit. ASSUME Edit(p) PROVE UsedIsPresent'
  BY <1>Edit DEF Edit
<1>Load. ASSUME Load(p) PROVE UsedIsPresent'
  BY <1>Load DEF Load
<1>Refused. ASSUME Refused(p) PROVE UsedIsPresent'
  BY <1>Refused DEF Refused, GiveUp, Return, Unlock
<1>InstallPayload. ASSUME InstallPayload(p) PROVE UsedIsPresent'
  BY <1>InstallPayload DEF InstallPayload
<1>InstallSdk. ASSUME InstallSdk(p) PROVE UsedIsPresent'
  BY <1>InstallSdk DEF InstallSdk
<1>InstallRefused. ASSUME InstallRefused(p) PROVE UsedIsPresent'
  BY <1>InstallRefused DEF InstallRefused, GiveUp, Return, Unlock
<1>WriteJournal. ASSUME WriteJournal(p) PROVE UsedIsPresent'
  BY <1>WriteJournal DEF WriteJournal
<1>OutOfIds. ASSUME OutOfIds(p) PROVE UsedIsPresent'
  BY <1>OutOfIds DEF OutOfIds, GiveUp, Return, Unlock
<1>WriteMarker. ASSUME WriteMarker(p) PROVE UsedIsPresent'
  BY <1>WriteMarker DEF WriteMarker
<1>WriteLock. ASSUME WriteLock(p) PROVE UsedIsPresent'
  BY <1>WriteLock DEF WriteLock, Registering
<1>CommitJournal. ASSUME CommitJournal(p) PROVE UsedIsPresent'
  BY <1>CommitJournal DEF CommitJournal
<1>ClearMarker. ASSUME ClearMarker(p) PROVE UsedIsPresent'
  BY <1>ClearMarker DEF ClearMarker, Return, Unlock
<1>BindKeeps. ASSUME BindKeeps(p) PROVE UsedIsPresent'
  BY <1>BindKeeps
  DEF BindKeeps, Bound, Registering, Interpreter, Content, Return, Unlock
<1>BindRebuilds. ASSUME BindRebuilds(p) PROVE UsedIsPresent'
  BY <1>BindRebuilds DEF BindRebuilds, Interpreter, Content
<1>BindRefused. ASSUME BindRefused(p) PROVE UsedIsPresent'
  BY <1>BindRefused DEF BindRefused, GiveUp, Return, Unlock
<1>VenvCreate. ASSUME VenvCreate(p) PROVE UsedIsPresent'
  BY <1>VenvCreate DEF VenvCreate
<1>VenvFails. ASSUME VenvFails(p) PROVE UsedIsPresent'
  BY <1>VenvFails DEF VenvFails, Return, Unlock
<1>VenvFinish. ASSUME VenvFinish(p) PROVE UsedIsPresent'
  BY <1>VenvFinish DEF VenvFinish, Bound, Registering, Return, Unlock
<1>TakeMaintenanceAgain. ASSUME TakeMaintenanceAgain(p) PROVE UsedIsPresent'
  BY <1>TakeMaintenanceAgain DEF TakeMaintenanceAgain, OpenToShared
<1>TakeRegistry. ASSUME TakeRegistry(p) PROVE UsedIsPresent'
  BY <1>TakeRegistry DEF TakeRegistry
<1>ReadRegistry. ASSUME ReadRegistry(p) PROVE UsedIsPresent'
  BY <1>ReadRegistry DEF ReadRegistry
<1>WriteRegistry. ASSUME WriteRegistry(p) PROVE UsedIsPresent'
  BY <1>WriteRegistry DEF WriteRegistry, Return, Unlock
<1>RepairVenv. ASSUME RepairVenv(p) PROVE UsedIsPresent'
  BY <1>RepairVenv DEF RepairVenv, Unlock
<1>RepairLook. ASSUME RepairLook(p) PROVE UsedIsPresent'
  BY <1>RepairLook DEF RepairLook, Return, Unlock
<1>Recheck. ASSUME Recheck(p) PROVE UsedIsPresent'
  BY <1>Recheck DEF Recheck
<1>RecheckRefused. ASSUME RecheckRefused(p) PROVE UsedIsPresent'
  BY <1>RecheckRefused DEF RecheckRefused, GiveUp, Return, Unlock
<1>Restore. ASSUME Restore(p) PROVE UsedIsPresent'
  BY <1>Restore DEF Restore
<1>MarkRecovered. ASSUME MarkRecovered(p) PROVE UsedIsPresent'
  BY <1>MarkRecovered DEF MarkRecovered
<1>TakeExclusive. ASSUME TakeExclusive(p) PROVE UsedIsPresent'
  BY <1>TakeExclusive DEF TakeExclusive
<1>Scan. ASSUME Scan(p) PROVE UsedIsPresent'
  BY <1>Scan DEF Scan
<1>RemoveStarts. ASSUME RemoveStarts(p) PROVE UsedIsPresent'
  BY <1>RemoveStarts DEF RemoveStarts
<1>RemoveEnds. ASSUME RemoveEnds(p) PROVE UsedIsPresent'
  BY <1>RemoveEnds DEF RemoveEnds
<1>Cleaned. ASSUME Cleaned(p) PROVE UsedIsPresent'
  BY <1>Cleaned DEF Cleaned, GiveUp, Return, Unlock
<1>Die. ASSUME Die(p) PROVE UsedIsPresent'
  BY <1>Die DEF Die, Return, Unlock
<1> QED
  BY <1>StartCommand, <1>StartInit, <1>StartRepair, <1>StartClean,
     <1>TakeMaintenance, <1>TakeProject, <1>Edit, <1>Load, <1>Refused,
     <1>InstallPayload, <1>InstallSdk, <1>InstallRefused, <1>WriteJournal,
     <1>OutOfIds, <1>WriteMarker, <1>WriteLock, <1>CommitJournal,
     <1>ClearMarker, <1>BindKeeps, <1>BindRebuilds, <1>BindRefused,
     <1>VenvCreate, <1>VenvFails, <1>VenvFinish, <1>TakeMaintenanceAgain,
     <1>TakeRegistry, <1>ReadRegistry, <1>WriteRegistry, <1>RepairVenv,
     <1>RepairLook, <1>Recheck, <1>RecheckRefused, <1>Restore,
     <1>MarkRecovered, <1>TakeExclusive, <1>Scan, <1>RemoveStarts,
     <1>RemoveEnds, <1>Cleaned, <1>Die
  DEF Next, Begins, Proceed, Takes, Commits, Binds, Registers, Repairs, Cleans

-----------------------------------------------------------------------------
\* No clean is past its scan while a writer runs.
LEMMA WritersRunAlone ==
  ASSUME TypeOK, LocksAreHeld, NEW p \in Procs, pc[p] \in WriterSteps
  PROVE \A q \in Procs : pc[q] \notin CleanSteps
<1>1. exclusive = None
  BY DEF LocksAreHeld
<1> QED
  BY <1>1, CleanupAssumption DEF LocksAreHeld

\* Nothing becomes needed by a step that leaves the projects alone and fills
\* no hand.
LEMMA NeededShrinks ==
  ASSUME UNCHANGED project,
         \A q \in Procs : hand'[q].next \in {hand[q].next, None}
  PROVE Needed' \subseteq Needed
<1>1. ASSUME NEW x, \E q \in Procs : x \in Content(hand'[q].next)
      PROVE \E q \in Procs : x \in Content(hand[q].next)
  BY <1>1 DEF Content
<1> QED
  BY <1>1 DEF Needed, Unsettled, Rebuilding, Content, project

\* A step after which no more is needed, and nobody is to remove more.
LEMMA SafeStays ==
  ASSUME RemovalsAreSafe, Needed' \subseteq Needed,
         \A q \in Procs : pc'[q] \in {"remove", "removing"}
             => /\ pc[q] \in {"remove", "removing"}
                /\ hand'[q].removals \subseteq hand[q].removals
  PROVE RemovalsAreSafe'
BY DEF RemovalsAreSafe

\* What clean is going to remove stays unneeded until it is removed.
LEMMA SafeStep ==
  ASSUME IInv, NEW p \in Procs,
         Begins(p) \/ Proceed(p) \/ Takes(p) \/ TakeExclusive(p) \/ Die(p)
  PROVE RemovalsAreSafe'
<1>0. TypeOK /\ LocksAreHeld /\ HandsAreFilled /\ RemovalsAreSafe
  BY DEF IInv
<1>a. hand[p] \in Hand /\ pc[p] \in Steps
  BY <1>0 DEF TypeOK
<1>w. ASSUME pc[p] \in WriterSteps, pc'[p] \notin CleanSteps,
             \A q \in Procs \ {p} : pc'[q] = pc[q]
      PROVE RemovalsAreSafe'
  BY <1>0, <1>w, WritersRunAlone DEF RemovalsAreSafe, CleanSteps
<1>StartCommand. ASSUME StartCommand(p) PROVE RemovalsAreSafe'
  <2>1. PICK root \in Roots, op \in {"use", "commit", "install"} :
          Start(p, op, root, "want-maintenance")
    BY <1>StartCommand DEF StartCommand
  <2>2. UNCHANGED project /\ \A q \in Procs : hand'[q].next \in {hand[q].next, None}
    BY <1>0, <2>1 DEF Start, EmptyHand, TypeOK, project
  <2>3. \A q \in Procs : pc'[q] \in {"remove", "removing"}
            => /\ pc[q] \in {"remove", "removing"}
               /\ hand'[q].removals \subseteq hand[q].removals
    BY <1>0, <2>1 DEF Start, Goto, TypeOK
  <2> QED
    BY <1>0, <2>2, <2>3, NeededShrinks, SafeStays
<1>StartInit. ASSUME StartInit(p) PROVE RemovalsAreSafe'
  <2>1. UNCHANGED project /\ \A q \in Procs : hand'[q].next \in {hand[q].next, None}
    BY <1>0, <1>a, <1>StartInit
    DEF StartInit, Start, At, Goto, EmptyHand, TypeOK, Hand, project
  <2>2. \A q \in Procs : pc'[q] \in {"remove", "removing"}
            => /\ pc[q] \in {"remove", "removing"}
               /\ hand'[q].removals \subseteq hand[q].removals
    BY <1>0, <1>a, <1>StartInit
    DEF StartInit, Start, At, Goto, EmptyHand, TypeOK, Hand
  <2> QED
    BY <1>0, <2>1, <2>2, NeededShrinks, SafeStays
<1>StartRepair. ASSUME StartRepair(p) PROVE RemovalsAreSafe'
  <2>1. UNCHANGED project /\ \A q \in Procs : hand'[q].next \in {hand[q].next, None}
    BY <1>0, <1>a, <1>StartRepair
    DEF StartRepair, Start, At, Goto, EmptyHand, TypeOK, Hand, project
  <2>2. \A q \in Procs : pc'[q] \in {"remove", "removing"}
            => /\ pc[q] \in {"remove", "removing"}
               /\ hand'[q].removals \subseteq hand[q].removals
    BY <1>0, <1>a, <1>StartRepair
    DEF StartRepair, Start, At, Goto, EmptyHand, TypeOK, Hand
  <2> QED
    BY <1>0, <2>1, <2>2, NeededShrinks, SafeStays
<1>StartClean. ASSUME StartClean(p) PROVE RemovalsAreSafe'
  <2>1. UNCHANGED project /\ \A q \in Procs : hand'[q].next \in {hand[q].next, None}
    BY <1>0, <1>a, <1>StartClean
    DEF StartClean, Start, At, Goto, EmptyHand, TypeOK, Hand, project
  <2>2. \A q \in Procs : pc'[q] \in {"remove", "removing"}
            => /\ pc[q] \in {"remove", "removing"}
               /\ hand'[q].removals \subseteq hand[q].removals
    BY <1>0, <1>a, <1>StartClean
    DEF StartClean, Start, At, Goto, EmptyHand, TypeOK, Hand
  <2> QED
    BY <1>0, <2>1, <2>2, NeededShrinks, SafeStays
<1>TakeMaintenance. ASSUME TakeMaintenance(p) PROVE RemovalsAreSafe'
  <2>1. UNCHANGED project /\ \A q \in Procs : hand'[q].next \in {hand[q].next, None}
    BY <1>0, <1>a, <1>TakeMaintenance
    DEF TakeMaintenance, At, Goto, EmptyHand, TypeOK, Hand, project
  <2>2. \A q \in Procs : pc'[q] \in {"remove", "removing"}
            => /\ pc[q] \in {"remove", "removing"}
               /\ hand'[q].removals \subseteq hand[q].removals
    BY <1>0, <1>a, <1>TakeMaintenance
    DEF TakeMaintenance, At, Goto, EmptyHand, TypeOK, Hand
  <2> QED
    BY <1>0, <2>1, <2>2, NeededShrinks, SafeStays
<1>RepairLook. ASSUME RepairLook(p) PROVE RemovalsAreSafe'
  <2>1. UNCHANGED project /\ \A q \in Procs : hand'[q].next \in {hand[q].next, None}
    BY <1>0, <1>a, <1>RepairLook
    DEF RepairLook, Return, At, Goto, EmptyHand, TypeOK, Hand, project
  <2>2. \A q \in Procs : pc'[q] \in {"remove", "removing"}
            => /\ pc[q] \in {"remove", "removing"}
               /\ hand'[q].removals \subseteq hand[q].removals
    BY <1>0, <1>a, <1>RepairLook
    DEF RepairLook, Return, At, Goto, EmptyHand, TypeOK, Hand
  <2> QED
    BY <1>0, <2>1, <2>2, NeededShrinks, SafeStays
<1>TakeExclusive. ASSUME TakeExclusive(p) PROVE RemovalsAreSafe'
  <2>1. UNCHANGED project /\ \A q \in Procs : hand'[q].next \in {hand[q].next, None}
    BY <1>0, <1>a, <1>TakeExclusive
    DEF TakeExclusive, At, Goto, EmptyHand, TypeOK, Hand, project
  <2>2. \A q \in Procs : pc'[q] \in {"remove", "removing"}
            => /\ pc[q] \in {"remove", "removing"}
               /\ hand'[q].removals \subseteq hand[q].removals
    BY <1>0, <1>a, <1>TakeExclusive
    DEF TakeExclusive, At, Goto, EmptyHand, TypeOK, Hand
  <2> QED
    BY <1>0, <2>1, <2>2, NeededShrinks, SafeStays
<1>Scan. ASSUME Scan(p) PROVE RemovalsAreSafe'
  <2>1. PICK removals \in SUBSET (Payloads \ References) :
          hand' = [hand EXCEPT ![p].removals = removals]
    BY <1>Scan DEF Scan
  <2>2. pc[p] = "scan" /\ pc' = [pc EXCEPT ![p] = "remove"] /\ UNCHANGED project
    BY <1>Scan DEF Scan, At, Goto
  <2>3. exclusive = p /\ shared = {}
    BY <1>0, <2>2, CleanupAssumption DEF LocksAreHeld, CleanSteps
  <2>4. \A q \in Procs : hand[q].next = None /\ hand'[q].next = None
    <3>1. \A q \in Procs : hand[q].next = None
      BY <1>0, <2>3 DEF LocksAreHeld, HandsAreFilled
    <3> QED
      BY <1>0, <1>a, <2>1, <3>1 DEF TypeOK, Hand
  <2>5. Needed \subseteq References
    <3> SUFFICES ASSUME NEW x \in Needed PROVE x \in References
      OBVIOUS
    <3>1. CASE \E r \in registry \cup GlobalRoots : x \in Content(lock[r])
      BY <3>1 DEF References, ReferencedLocks
    <3>2. CASE \E r \in registry : x = venv[r] /\ x # None
      <4>1. x \in VenvReferences
        BY <3>2 DEF VenvReferences
      <4> QED
        BY <4>1 DEF References
    <3>3. CASE \E r \in Roots : /\ rebuild[r] # None /\ x # None
                                /\ x \in {rebuild[r].before, rebuild[r].next}
      <4>1. x \in VenvReferences
        BY <3>3 DEF VenvReferences, Rebuilding
      <4> QED
        BY <4>1 DEF References
    <3>4. CASE \E id \in Ids :
                 /\ Unsettled(id)
                 /\ x \in Content(journals[id].old) \cup Content(journals[id].new)
      <4>1. PICK id \in Ids :
              /\ Unsettled(id)
              /\ x \in Content(journals[id].old) \cup Content(journals[id].new)
        BY <3>4
      <4>2. /\ journals[id].old \in ReferencedLocks
            /\ journals[id].new \in ReferencedLocks
        BY <4>1 DEF ReferencedLocks, Prepared, Unsettled
      <4> QED
        BY <4>1, <4>2 DEF References
    <3>5. \A q \in Procs : Content(hand[q].next) = {}
      BY <2>4 DEF Content
    <3> QED
      BY <3>1, <3>2, <3>3, <3>4, <3>5 DEF Needed, Rebuilding
  <2>6. Needed' \subseteq References
    BY <2>2, <2>4, <2>5, NeededShrinks
  <2>7. hand'[p].removals = removals
    BY <1>0, <1>a, <2>1 DEF TypeOK, Hand
  <2>8. \A q \in Procs \ {p} : pc'[q] \notin {"remove", "removing"}
    BY <1>0, <2>2, <2>3 DEF LocksAreHeld, CleanSteps, TypeOK
  <2> QED
    BY <2>1, <2>6, <2>7, <2>8 DEF RemovalsAreSafe
<1>RemoveStarts. ASSUME RemoveStarts(p) PROVE RemovalsAreSafe'
  <2>1. UNCHANGED project /\ \A q \in Procs : hand'[q].next \in {hand[q].next, None}
    BY <1>0, <1>a, <1>RemoveStarts
    DEF RemoveStarts, At, Goto, EmptyHand, TypeOK, Hand, project
  <2>2. \A q \in Procs : pc'[q] \in {"remove", "removing"}
            => /\ pc[q] \in {"remove", "removing"}
               /\ hand'[q].removals \subseteq hand[q].removals
    BY <1>0, <1>a, <1>RemoveStarts
    DEF RemoveStarts, At, Goto, EmptyHand, TypeOK, Hand
  <2> QED
    BY <1>0, <2>1, <2>2, NeededShrinks, SafeStays
<1>RemoveEnds. ASSUME RemoveEnds(p) PROVE RemovalsAreSafe'
  <2>1. UNCHANGED project /\ \A q \in Procs : hand'[q].next \in {hand[q].next, None}
    BY <1>0, <1>a, <1>RemoveEnds
    DEF RemoveEnds, At, Goto, EmptyHand, TypeOK, Hand, project
  <2>2. \A q \in Procs : pc'[q] \in {"remove", "removing"}
            => /\ pc[q] \in {"remove", "removing"}
               /\ hand'[q].removals \subseteq hand[q].removals
    BY <1>0, <1>a, <1>RemoveEnds
    DEF RemoveEnds, At, Goto, EmptyHand, TypeOK, Hand
  <2> QED
    BY <1>0, <2>1, <2>2, NeededShrinks, SafeStays
<1>Cleaned. ASSUME Cleaned(p) PROVE RemovalsAreSafe'
  <2>1. UNCHANGED project /\ \A q \in Procs : hand'[q].next \in {hand[q].next, None}
    BY <1>0, <1>a, <1>Cleaned
    DEF Cleaned, GiveUp, Return, At, Goto, EmptyHand, TypeOK, Hand, project
  <2>2. \A q \in Procs : pc'[q] \in {"remove", "removing"}
            => /\ pc[q] \in {"remove", "removing"}
               /\ hand'[q].removals \subseteq hand[q].removals
    BY <1>0, <1>a, <1>Cleaned
    DEF Cleaned, GiveUp, Return, At, Goto, EmptyHand, TypeOK, Hand
  <2> QED
    BY <1>0, <2>1, <2>2, NeededShrinks, SafeStays
<1>Die. ASSUME Die(p) PROVE RemovalsAreSafe'
  <2>1. UNCHANGED project /\ \A q \in Procs : hand'[q].next \in {hand[q].next, None}
    BY <1>0, <1>a, <1>Die
    DEF Die, Return, At, Goto, EmptyHand, TypeOK, Hand, project
  <2>2. \A q \in Procs : pc'[q] \in {"remove", "removing"}
            => /\ pc[q] \in {"remove", "removing"}
               /\ hand'[q].removals \subseteq hand[q].removals
    BY <1>0, <1>a, <1>Die
    DEF Die, Return, At, Goto, EmptyHand, TypeOK, Hand
  <2> QED
    BY <1>0, <2>1, <2>2, NeededShrinks, SafeStays
<1> USE <1>0, <1>w
        DEF At, Goto, TypeOK, WriterSteps, RegisterSteps,
            CleanSteps
<1>TakeProject. ASSUME TakeProject(p) PROVE RemovalsAreSafe'
  BY <1>TakeProject DEF TakeProject
<1>Edit. ASSUME Edit(p) PROVE RemovalsAreSafe'
  BY <1>Edit DEF Edit
<1>Load. ASSUME Load(p) PROVE RemovalsAreSafe'
  BY <1>Load DEF Load
<1>Refused. ASSUME Refused(p) PROVE RemovalsAreSafe'
  BY <1>Refused DEF Refused, GiveUp, Return, Unlock
<1>InstallPayload. ASSUME InstallPayload(p) PROVE RemovalsAreSafe'
  BY <1>InstallPayload DEF InstallPayload
<1>InstallSdk. ASSUME InstallSdk(p) PROVE RemovalsAreSafe'
  BY <1>InstallSdk DEF InstallSdk
<1>InstallRefused. ASSUME InstallRefused(p) PROVE RemovalsAreSafe'
  BY <1>InstallRefused DEF InstallRefused, GiveUp, Return, Unlock
<1>WriteJournal. ASSUME WriteJournal(p) PROVE RemovalsAreSafe'
  BY <1>WriteJournal DEF WriteJournal
<1>OutOfIds. ASSUME OutOfIds(p) PROVE RemovalsAreSafe'
  BY <1>OutOfIds DEF OutOfIds, GiveUp, Return, Unlock
<1>WriteMarker. ASSUME WriteMarker(p) PROVE RemovalsAreSafe'
  BY <1>WriteMarker DEF WriteMarker
<1>WriteLock. ASSUME WriteLock(p) PROVE RemovalsAreSafe'
  BY <1>WriteLock DEF WriteLock, Registering
<1>CommitJournal. ASSUME CommitJournal(p) PROVE RemovalsAreSafe'
  BY <1>CommitJournal DEF CommitJournal
<1>ClearMarker. ASSUME ClearMarker(p) PROVE RemovalsAreSafe'
  BY <1>ClearMarker DEF ClearMarker, Return, Unlock
<1>BindKeeps. ASSUME BindKeeps(p) PROVE RemovalsAreSafe'
  BY <1>BindKeeps
  DEF BindKeeps, Bound, Registering, Interpreter, Content, Return, Unlock
<1>BindRebuilds. ASSUME BindRebuilds(p) PROVE RemovalsAreSafe'
  BY <1>BindRebuilds DEF BindRebuilds, Interpreter, Content
<1>BindRefused. ASSUME BindRefused(p) PROVE RemovalsAreSafe'
  BY <1>BindRefused DEF BindRefused, GiveUp, Return, Unlock
<1>VenvCreate. ASSUME VenvCreate(p) PROVE RemovalsAreSafe'
  BY <1>VenvCreate DEF VenvCreate
<1>VenvFails. ASSUME VenvFails(p) PROVE RemovalsAreSafe'
  BY <1>VenvFails DEF VenvFails, Return, Unlock
<1>VenvFinish. ASSUME VenvFinish(p) PROVE RemovalsAreSafe'
  BY <1>VenvFinish DEF VenvFinish, Bound, Registering, Return, Unlock
<1>TakeMaintenanceAgain. ASSUME TakeMaintenanceAgain(p) PROVE RemovalsAreSafe'
  BY <1>TakeMaintenanceAgain DEF TakeMaintenanceAgain, OpenToShared
<1>TakeRegistry. ASSUME TakeRegistry(p) PROVE RemovalsAreSafe'
  BY <1>TakeRegistry DEF TakeRegistry
<1>ReadRegistry. ASSUME ReadRegistry(p) PROVE RemovalsAreSafe'
  BY <1>ReadRegistry DEF ReadRegistry
<1>WriteRegistry. ASSUME WriteRegistry(p) PROVE RemovalsAreSafe'
  BY <1>WriteRegistry DEF WriteRegistry, Return, Unlock
<1>RepairVenv. ASSUME RepairVenv(p) PROVE RemovalsAreSafe'
  BY <1>RepairVenv DEF RepairVenv, Unlock
<1>Recheck. ASSUME Recheck(p) PROVE RemovalsAreSafe'
  BY <1>Recheck DEF Recheck
<1>RecheckRefused. ASSUME RecheckRefused(p) PROVE RemovalsAreSafe'
  BY <1>RecheckRefused DEF RecheckRefused, GiveUp, Return, Unlock
<1>Restore. ASSUME Restore(p) PROVE RemovalsAreSafe'
  BY <1>Restore DEF Restore
<1>MarkRecovered. ASSUME MarkRecovered(p) PROVE RemovalsAreSafe'
  BY <1>MarkRecovered DEF MarkRecovered
<1> QED
  BY <1>StartCommand, <1>StartInit, <1>StartRepair, <1>StartClean,
     <1>TakeMaintenance, <1>TakeProject, <1>Edit, <1>Load, <1>Refused,
     <1>InstallPayload, <1>InstallSdk, <1>InstallRefused, <1>WriteJournal,
     <1>OutOfIds, <1>WriteMarker, <1>WriteLock, <1>CommitJournal,
     <1>ClearMarker, <1>BindKeeps, <1>BindRebuilds, <1>BindRefused,
     <1>VenvCreate, <1>VenvFails, <1>VenvFinish, <1>TakeMaintenanceAgain,
     <1>TakeRegistry, <1>ReadRegistry, <1>WriteRegistry, <1>RepairVenv,
     <1>RepairLook, <1>Recheck, <1>RecheckRefused, <1>Restore,
     <1>MarkRecovered, <1>TakeExclusive, <1>Scan, <1>RemoveStarts,
     <1>RemoveEnds, <1>Cleaned, <1>Die
  DEF Next, Begins, Proceed, Takes, Commits, Binds, Registers, Repairs, Cleans

-----------------------------------------------------------------------------
(* The theorems.                                                           *)

LEMMA InitEstablishes == Init => IInv
<1> SUFFICES ASSUME Init PROVE IInv
  OBVIOUS
<1>1. EmptyHand \in Hand
  BY DEF EmptyHand, Hand, Ops
<1>2. TypeOK
  BY <1>1, CleanupAssumption DEF Init, TypeOK, Steps
<1>3. /\ \A p \in Procs : /\ pc[p] = "idle" /\ hand[p].next = None
                          /\ hand[p].id = None
      /\ \A r \in Roots : marker[r] = None
      /\ exclusive = None
  BY DEF Init, EmptyHand
<1> QED
  BY <1>2, <1>3
  DEF IInv, LocksAreHeld, OwnerSteps, OpsAreInPlace, HandsAreFilled,
      RemovalsAreSafe, UsedIsPresent, WriterSteps, CleanSteps, RegisterSteps

\* Stuttering.
LEMMA StutterPreserves == IInv /\ UNCHANGED vars => IInv'
<1> SUFFICES ASSUME IInv, UNCHANGED vars PROVE IInv'
  OBVIOUS
<1> USE DEF vars, locks, project
<1>1. TypeOK'
  BY DEF IInv, TypeOK
<1>2. LocksAreHeld' /\ OpsAreInPlace'
  BY DEF IInv, LocksAreHeld, OwnerSteps, OpsAreInPlace
<1>3. HandsAreFilled'
  BY DEF IInv, HandsAreFilled
<1>4. RemovalsAreSafe'
  BY DEF IInv, RemovalsAreSafe, Needed, Unsettled, Rebuilding, Content
<1>5. UsedIsPresent'
  BY DEF IInv, UsedIsPresent, Content, Present
<1> QED
  BY <1>1, <1>2, <1>3, <1>4, <1>5 DEF IInv

LEMMA StepPreserves == IInv /\ [Next]_vars => IInv'
<1>1. ASSUME IInv, NEW p \in Procs,
             Begins(p) \/ Proceed(p) \/ Takes(p) \/ TakeExclusive(p) \/ Die(p)
      PROVE IInv'
  BY <1>1, TypeStep, LocksStep, OpsStep, HandsStep, SafeStep, UsedStep DEF IInv
<1> QED
  BY <1>1, StutterPreserves DEF Next

\* The inductive invariant of Cleanup holds: who holds which lock at which
\* step, and what clean decided to remove staying unneeded.
THEOREM CleanInvariantHolds == Spec => []IInv
BY InitEstablishes, StepPreserves, PTL DEF Spec

\* Every variable has its type.
THEOREM CleanTypeCorrect == Spec => []TypeOK
<1>1. IInv => TypeOK
  BY DEF IInv
<1> QED
  BY <1>1, CleanInvariantHolds, PTL

\* What a command installed or found installed is there until it returns
\* (services.rs install and use_tools under the maintenance lock).
THEOREM UsedStaysPresent == Spec => []UsedIsPresent
<1>1. IInv => UsedIsPresent
  BY DEF IInv
<1> QED
  BY <1>1, CleanInvariantHolds, PTL

\* The step of clean that touches an installation touches one it may remove;
\* any other step that changes one makes it whole.
LEMMA RemovedIsUnneeded ==
  ASSUME IInv, [Next]_vars, NEW x \in Payloads,
         payload'[x] # payload[x], payload'[x] # "whole"
  PROVE x \notin Needed
<1>0. TypeOK /\ RemovalsAreSafe
  BY DEF IInv
<1>1. PICK p \in Procs :
        Begins(p) \/ Proceed(p) \/ Takes(p) \/ TakeExclusive(p) \/ Die(p)
  BY DEF Next, vars
<1>2. CASE RemoveStarts(p)
  <2>1. PICK z \in hand[p].removals : payload' = [payload EXCEPT ![z] = "broken"]
    BY <1>2 DEF RemoveStarts
  <2>2. x = z
    BY <1>0, <2>1 DEF TypeOK
  <2> QED
    BY <1>0, <1>2, <2>2 DEF RemoveStarts, At, RemovalsAreSafe
<1>3. CASE RemoveEnds(p)
  <2>1. PICK z \in hand[p].removals : payload' = [payload EXCEPT ![z] = "absent"]
    BY <1>3 DEF RemoveEnds
  <2>2. x = z
    BY <1>0, <2>1 DEF TypeOK
  <2> QED
    BY <1>0, <1>3, <2>2 DEF RemoveEnds, At, RemovalsAreSafe
<1>4. CASE InstallPayload(p)
  <2>1. PICK z \in hand[p].next : payload' = [payload EXCEPT ![z] = "whole"]
    BY <1>4 DEF InstallPayload
  <2>2. payload'[x] \in {payload[x], "whole"}
    BY <1>0, <2>1 DEF TypeOK
  <2> QED
    BY <2>2
<1>5. ~RemoveStarts(p) /\ ~RemoveEnds(p) /\ ~InstallPayload(p)
      => UNCHANGED payload
  BY <1>1
  DEF Begins, StartCommand, StartInit, StartRepair, StartClean, Start,
      Proceed, Commits, Edit, Load, Refused, InstallSdk, InstallRefused,
      WriteJournal, OutOfIds, WriteMarker, WriteLock, CommitJournal,
      ClearMarker, Binds, BindKeeps, BindRebuilds, BindRefused, VenvCreate,
      VenvFails, VenvFinish, Registers, ReadRegistry, WriteRegistry, Repairs,
      RepairVenv, RepairLook, Recheck, RecheckRefused, Restore, MarkRecovered,
      Cleans, Scan, Cleaned, Takes, TakeMaintenance, TakeProject,
      TakeMaintenanceAgain, TakeRegistry, TakeExclusive, Die, GiveUp
<1> QED
  BY <1>2, <1>3, <1>4, <1>5

\* clean never touches an installation that something registered, global,
\* pending or running needs (maintenance.rs clean).
THEOREM CleanIsSafe == Spec => CleanKeepsWhatIsNeeded
<1>1. IInv /\ [Next]_vars =>
        [\A x \in Payloads :
           payload'[x] # payload[x] /\ payload'[x] # "whole" => x \notin Needed]_vars
  BY RemovedIsUnneeded
<1> QED
  BY <1>1, CleanInvariantHolds, PTL DEF Spec, CleanKeepsWhatIsNeeded

\* No registration is lost (services.rs register).
THEOREM RegistrationsStay == Spec => RegistrationsAreKept
<1>1. IInv /\ [Next]_vars => [registry \subseteq registry']_vars
  <2> SUFFICES ASSUME IInv, NEW p \in Procs,
                 Begins(p) \/ Proceed(p) \/ Takes(p) \/ TakeExclusive(p) \/ Die(p)
               PROVE registry \subseteq registry'
    BY DEF Next
  <2>1. CASE WriteRegistry(p)
    BY <2>1 DEF WriteRegistry, At, IInv, HandsAreFilled
  <2>2. ~WriteRegistry(p) => UNCHANGED registry
    BY DEF Begins, StartCommand, StartInit, StartRepair, StartClean, Start,
      Proceed, Commits, Edit, Load, Refused, InstallPayload, InstallSdk,
      InstallRefused, WriteJournal, OutOfIds, WriteMarker, WriteLock,
      CommitJournal, ClearMarker, Binds, BindKeeps, BindRebuilds, BindRefused,
      VenvCreate, VenvFails, VenvFinish, Registers, ReadRegistry, Repairs,
      RepairVenv, RepairLook, Recheck, RecheckRefused, Restore, MarkRecovered,
      Cleans, Scan, RemoveStarts, RemoveEnds, Cleaned, Takes, TakeMaintenance,
      TakeProject, TakeMaintenanceAgain, TakeRegistry, TakeExclusive, Die,
      GiveUp, project
  <2> QED
    BY <2>1, <2>2
<1> QED
  BY <1>1, CleanInvariantHolds, PTL DEF Spec, RegistrationsAreKept
=============================================================================
