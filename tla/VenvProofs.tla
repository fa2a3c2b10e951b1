---------------------------- MODULE VenvProofs ----------------------------
(***************************************************************************)
(* Proofs about VenvTransactions, for any number of commands, transactions *)
(* and interpreters.  IInv is inductive; from it follow what a route finds *)
(* in .venv, where a worker writes, and that nothing finished is lost.     *)
(***************************************************************************)
EXTENDS VenvTransactions, TLAPS

USE VenvAssumption, NoneIsNoDirectory, NoneIsNoJournal

-----------------------------------------------------------------------------
(* IInv is inductive.                                                      *)

LEMMA InitInv == Init => IInv
<1> SUFFICES ASSUME Init PROVE IInv
  OBVIOUS
<1>1. TypeOK
  BY DEF Init, TypeOK, Directory, Whole, Users, EmptyHand, Steps
<1>2. Pending = {} /\ Undecided = {}
  BY DEF Init, Pending, Undecided
<1>3. current # None => Untouched
  BY <1>2 DEF Init, Untouched, Finished, Begun, Whole, Users
<1>4. GuardIsHeld /\ OneTransaction /\ PlacesAreKnown /\ CurrentIsKnown /\ WorkersAreKnown
  BY <1>2, <1>3 DEF Init, GuardIsHeld, OneTransaction, PlacesAreKnown, CurrentIsKnown,
     WorkersAreKnown, At
<1>5. ASSUME NEW p \in Procs PROVE Knows(p)
  BY <1>2 DEF Init, Knows, At, Building, RollingBack
<1> QED BY <1>1, <1>4, <1>5 DEF IInv

\* A command that is not at work knows nothing.
LEMMA IdleKnows ==
    ASSUME NEW p \in Procs, At(p, "idle")'
    PROVE  Knows(p)'
  BY DEF Knows, At, Building, RollingBack

\* The command that holds the lock is the only one at work.
LEMMA GuardAlone ==
    ASSUME GuardIsHeld, NEW p \in Procs, ~At(p, "idle"), NEW q \in Procs, q # p
    PROVE  guard = p /\ At(q, "idle")
  BY DEF GuardIsHeld, At

\* What a directory is once one of its parts has changed.
LEMMA DirectoryType ==
    ASSUME NEW d \in Directory
    PROVE  /\ \A i \in Interpreters \cup {None} : [d EXCEPT !.owner = i] \in Directory
           /\ [d EXCEPT !.token = None] \in Directory
           /\ \A k \in {"none", "part", "whole"} : [d EXCEPT !.packages = k] \in Directory
  BY DEF Directory

\* And a journal.
LEMMA JournalType ==
    ASSUME NEW j \in Journal
    PROVE  /\ \A x \in {"prepared", "creating", "committed", "rolled-back"} :
                [j EXCEPT !.phase = x] \in Journal
           /\ [j EXCEPT !.worker = TRUE] \in Journal
  BY DEF Journal

LEMMA PartsType ==
    ASSUME TypeOK
    PROVE  /\ current # None => current \in Directory
           /\ \A id \in Ids : journal[id] # None => journal[id] \in Journal
           /\ \A id \in Ids : staging[id] # None => staging[id] \in Directory
           /\ \A id \in Ids : backup[id] # None => backup[id] \in Directory
  BY DEF TypeOK

\* The new directory is made beside .venv, which stays as it is.
LEMMA CreateKeeps ==
    ASSUME NEW p \in Procs, Create(p), IInv
    PROVE  IInv'
<1>0. /\ GuardIsHeld /\ TypeOK /\ At(p, "idle") /\ guard = None
      /\ \A q \in Procs : At(q, "idle")
  BY DEF Create, IInv, GuardIsHeld
<1>1. TypeOK'
  <2>1. pc' \in [Procs -> Steps]
    BY <1>0 DEF Create, TypeOK, Goto, Return, At, Steps, Building, Settling, RollingBack
  <2>2. /\ hand' \in [Procs -> [id : Ids \cup {None}, next : Interpreters \cup {None}]]
        /\ guard' \in Procs \cup {None}
    BY <1>0 DEF Create, TypeOK, Goto, Return, EmptyHand
  <2>3. /\ current' \in Directory \cup {None}
        /\ backup' \in [Ids -> Directory \cup {None}]
        /\ staging' \in [Ids -> Directory \cup {None}]
    BY <1>0 DEF Create, TypeOK, Directory
  <2>4. journal' \in [Ids -> Journal \cup {None}]
    BY <1>0, JournalType, PartsType DEF Create, TypeOK, Knows, At, records, Pending,
       Building, RollingBack
  <2> QED BY <1>0, <2>1, <2>2, <2>3, <2>4 DEF Create, TypeOK, places, records
<1>2. GuardIsHeld'
  BY <1>0, GuardAlone DEF Create, GuardIsHeld, At, places, records, Goto, TypeOK, Steps
<1>3. OneTransaction'
  BY <1>0 DEF Create, IInv, OneTransaction, Pending, places, records, Goto, Knows, At,
     TypeOK, Journal, Building, RollingBack
<1>4. PlacesAreKnown'
  BY <1>0 DEF Create, IInv, places, records, Goto, TypeOK, PlacesAreKnown, Finished,
     Begun, Undecided, Pending, Knows, At
<1>5. CurrentIsKnown'
  BY <1>0 DEF Create, IInv, places, records, Goto, TypeOK, CurrentIsKnown,
     OneTransaction, Untouched, UnderWay, Finished, Begun, Undecided, Pending, Knows, At
<1>6. WorkersAreKnown'
  BY <1>0 DEF Create, IInv, places, records, Goto, TypeOK, WorkersAreKnown,
     OneTransaction, UnderWay, Begun, Undecided, Pending, Knows, At
<1>7. Knows(p)'
  BY <1>0 DEF Create, IInv, places, records, Goto, TypeOK, Journal, Directory,
     PlacesAreKnown, OneTransaction, CurrentIsKnown, WorkersAreKnown, Untouched,
     UnderWay, Finished, Begun, Busy, Undecided, Pending, Knows, At, Building,
     RollingBack
<1>8. ASSUME NEW q \in Procs PROVE Knows(q)'
  <2>1. CASE q = p
    BY <1>7, <2>1
  <2>2. CASE q # p
    <3>1. At(q, "idle")'
      BY <1>0, <2>2 DEF Create, places, records, Goto, At, TypeOK
    <3> QED BY <3>1, IdleKnows
  <2> QED BY <2>1, <2>2
<1> QED BY <1>1, <1>2, <1>3, <1>4, <1>5, <1>6, <1>8 DEF IInv

\* The journal names what is in .venv now.
LEMMA WriteJournalKeeps ==
    ASSUME NEW p \in Procs, WriteJournal(p), IInv
    PROVE  IInv'
<1>0. /\ GuardIsHeld /\ TypeOK /\ Knows(p) /\ hand[p].id \in Ids
      /\ \A q \in Procs \ {p} : At(q, "idle")
  BY GuardAlone DEF WriteJournal, IInv, Knows, At
<1>a. [phase |-> "prepared", worker |-> FALSE, next |-> hand[p].next,
       before |-> IF current = None THEN None ELSE current.owner] \in Journal
  <2>1. (IF current = None THEN None ELSE current.owner) \in Interpreters \cup {None}
    BY <1>0, PartsType DEF Directory
  <2>2. hand[p].next \in Interpreters
    BY <1>0 DEF WriteJournal, Knows, At
  <2> QED BY <2>1, <2>2 DEF Journal
<1>1. TypeOK'
  <2>1. pc' \in [Procs -> Steps]
    BY <1>0 DEF WriteJournal, TypeOK, Goto, Return, At, Steps, Building, Settling,
       RollingBack
  <2>2. /\ hand' \in [Procs -> [id : Ids \cup {None}, next : Interpreters \cup {None}]]
        /\ guard' \in Procs \cup {None}
    BY <1>0 DEF WriteJournal, TypeOK, Goto, Return, EmptyHand
  <2>3. /\ current' \in Directory \cup {None}
        /\ backup' \in [Ids -> Directory \cup {None}]
        /\ staging' \in [Ids -> Directory \cup {None}]
    BY <1>0, DirectoryType, PartsType DEF WriteJournal, TypeOK, Knows, At, places,
       Building, RollingBack
  <2>4. journal' \in [Ids -> Journal \cup {None}]
    BY <1>a DEF WriteJournal, IInv, TypeOK
  <2> QED BY <1>0, <2>1, <2>2, <2>3, <2>4 DEF WriteJournal, TypeOK, places, records
<1>2. GuardIsHeld'
  BY <1>0, GuardAlone DEF WriteJournal, GuardIsHeld, At, places, records, Goto, TypeOK,
     Steps
<1>3. OneTransaction'
  BY <1>0 DEF WriteJournal, IInv, OneTransaction, Pending, places, records, Goto, Knows,
     At, TypeOK, Journal, Building, RollingBack
<1>4. PlacesAreKnown'
  BY <1>0 DEF WriteJournal, IInv, places, records, Goto, TypeOK, PlacesAreKnown,
     Finished, Begun, Undecided, Pending, Knows, At
<1>5. CurrentIsKnown'
  BY <1>0 DEF WriteJournal, IInv, places, records, Goto, TypeOK, CurrentIsKnown,
     OneTransaction, Untouched, UnderWay, Finished, Begun, Undecided, Pending, Knows, At
<1>6. WorkersAreKnown'
  BY <1>0 DEF WriteJournal, IInv, places, records, Goto, TypeOK, WorkersAreKnown,
     OneTransaction, UnderWay, Begun, Undecided, Pending, Knows, At
<1>7. Knows(p)'
  <2>1. /\ At(p, "pending")' /\ hand' = hand /\ marker' = None /\ hand[p].next \in Interpreters
        /\ UNCHANGED <<current, backup, staging, worker>>
    BY <1>0 DEF WriteJournal, Knows, At, Goto, places, TypeOK
  <2>2. /\ journal'[hand[p].id].phase = "prepared" /\ journal'[hand[p].id] # None
        /\ journal'[hand[p].id].before = IF current = None THEN None ELSE current.owner
    BY <1>0, <1>a DEF WriteJournal, TypeOK
  <2>3. /\ staging[hand[p].id] # None /\ staging[hand[p].id].token = hand[p].id
        /\ backup[hand[p].id] = None /\ worker[hand[p].id] = "none"
        /\ current # None => Untouched /\ current.owner # None
    BY <1>0 DEF WriteJournal, Knows, At
  <2>4. (current # None => Untouched)'
    BY <1>0, <1>5, <2>1, <2>3 DEF WriteJournal, CurrentIsKnown, Untouched, UnderWay,
       Finished, Begun, Undecided, Pending, TypeOK
  <2> QED BY <1>0, <2>1, <2>2, <2>3, <2>4 DEF Knows, At, Pending, Building, RollingBack
<1>8. ASSUME NEW q \in Procs PROVE Knows(q)'
  <2>1. CASE q = p
    BY <1>7, <2>1
  <2>2. CASE q # p
    <3>1. At(q, "idle")'
      BY <1>0, <2>2 DEF WriteJournal, places, records, Goto, At, TypeOK
    <3> QED BY <3>1, IdleKnows
  <2> QED BY <2>1, <2>2
<1> QED BY <1>1, <1>2, <1>3, <1>4, <1>5, <1>6, <1>8 DEF IInv

\* The marker follows its journal.
LEMMA WritePendingKeeps ==
    ASSUME NEW p \in Procs, WritePending(p), IInv
    PROVE  IInv'
<1>0. /\ GuardIsHeld /\ TypeOK /\ Knows(p) /\ hand[p].id \in Ids
      /\ \A q \in Procs \ {p} : At(q, "idle")
  BY GuardAlone DEF WritePending, IInv, Knows, At
<1>1. TypeOK'
  <2>1. pc' \in [Procs -> Steps]
    BY <1>0 DEF WritePending, TypeOK, Goto, Return, At, Steps, Building, Settling,
       RollingBack
  <2>2. /\ hand' \in [Procs -> [id : Ids \cup {None}, next : Interpreters \cup {None}]]
        /\ guard' \in Procs \cup {None}
    BY <1>0 DEF WritePending, TypeOK, Goto, Return, EmptyHand
  <2>3. /\ current' \in Directory \cup {None}
        /\ backup' \in [Ids -> Directory \cup {None}]
        /\ staging' \in [Ids -> Directory \cup {None}]
    BY <1>0, DirectoryType, PartsType DEF WritePending, TypeOK, Knows, At, places,
       Building, RollingBack
  <2>4. journal' \in [Ids -> Journal \cup {None}]
    BY <1>0, JournalType, PartsType DEF WritePending, TypeOK, Knows, At, records,
       Pending, Building, RollingBack
  <2> QED BY <1>0, <2>1, <2>2, <2>3, <2>4 DEF WritePending, TypeOK, places, records
<1>2. GuardIsHeld'
  BY <1>0, GuardAlone DEF WritePending, GuardIsHeld, At, places, records, Goto, TypeOK,
     Steps
<1>3. OneTransaction'
  BY <1>0 DEF WritePending, IInv, OneTransaction, Pending, places, records, Goto, Knows,
     At, TypeOK, Journal, Building, RollingBack
<1>4. PlacesAreKnown'
  BY <1>0 DEF WritePending, IInv, places, records, Goto, TypeOK, PlacesAreKnown,
     Finished, Begun, Undecided, Pending, Knows, At
<1>5. CurrentIsKnown'
  BY <1>0 DEF WritePending, IInv, places, records, Goto, TypeOK, CurrentIsKnown,
     OneTransaction, Untouched, UnderWay, Finished, Begun, Undecided, Pending, Knows, At
<1>6. WorkersAreKnown'
  BY <1>0 DEF WritePending, IInv, places, records, Goto, TypeOK, WorkersAreKnown,
     OneTransaction, UnderWay, Begun, Undecided, Pending, Knows, At
<1>7. Knows(p)'
  BY <1>0 DEF WritePending, IInv, places, records, Goto, TypeOK, OneTransaction,
     Untouched, UnderWay, Finished, Begun, Busy, Undecided, Pending, Knows, At,
     Building, RollingBack
<1>8. ASSUME NEW q \in Procs PROVE Knows(q)'
  <2>1. CASE q = p
    BY <1>7, <2>1
  <2>2. CASE q # p
    <3>1. At(q, "idle")'
      BY <1>0, <2>2 DEF WritePending, places, records, Goto, At, TypeOK
    <3> QED BY <3>1, IdleKnows
  <2> QED BY <2>1, <2>2
<1> QED BY <1>1, <1>2, <1>3, <1>4, <1>5, <1>6, <1>8 DEF IInv

\* The old environment is in the backup from here on.
LEMMA MoveAwayKeeps ==
    ASSUME NEW p \in Procs, MoveAway(p), IInv
    PROVE  IInv'
<1>0. /\ GuardIsHeld /\ TypeOK /\ Knows(p) /\ hand[p].id \in Ids
      /\ \A q \in Procs \ {p} : At(q, "idle")
  BY GuardAlone DEF MoveAway, IInv, Knows, At
<1>1. TypeOK'
  <2>1. pc' \in [Procs -> Steps]
    BY <1>0 DEF MoveAway, TypeOK, Goto, Return, At, Steps, Building, Settling,
       RollingBack
  <2>2. /\ hand' \in [Procs -> [id : Ids \cup {None}, next : Interpreters \cup {None}]]
        /\ guard' \in Procs \cup {None}
    BY <1>0 DEF MoveAway, TypeOK, Goto, Return, EmptyHand
  <2>3. /\ current' \in Directory \cup {None}
        /\ backup' \in [Ids -> Directory \cup {None}]
        /\ staging' \in [Ids -> Directory \cup {None}]
    BY <1>0, DirectoryType, PartsType DEF MoveAway, TypeOK, Knows, At, places, Building,
       RollingBack
  <2>4. journal' \in [Ids -> Journal \cup {None}]
    BY <1>0, JournalType, PartsType DEF MoveAway, TypeOK, Knows, At, records, Pending,
       Building, RollingBack
  <2> QED BY <1>0, <2>1, <2>2, <2>3, <2>4 DEF MoveAway, TypeOK, places, records
<1>2. GuardIsHeld'
  BY <1>0, GuardAlone DEF MoveAway, GuardIsHeld, At, places, records, Goto, TypeOK,
     Steps
<1>3. OneTransaction'
  BY <1>0 DEF MoveAway, IInv, OneTransaction, Pending, places, records, Goto, Knows, At,
     TypeOK, Journal, Building, RollingBack
<1>4. PlacesAreKnown'
  BY <1>0 DEF MoveAway, IInv, places, records, Goto, TypeOK, Journal, Directory,
     PlacesAreKnown, OneTransaction, CurrentIsKnown, WorkersAreKnown, Untouched,
     UnderWay, Finished, Begun, Busy, Undecided, Pending, Knows, At, Building,
     RollingBack
<1>5. CurrentIsKnown'
  BY <1>0 DEF MoveAway, IInv, places, records, Goto, TypeOK, CurrentIsKnown,
     OneTransaction, Untouched, UnderWay, Finished, Begun, Undecided, Pending, Knows, At
<1>6. WorkersAreKnown'
  BY <1>0 DEF MoveAway, IInv, places, records, Goto, TypeOK, WorkersAreKnown,
     OneTransaction, UnderWay, Begun, Undecided, Pending, Knows, At
<1>7. Knows(p)'
  BY <1>0 DEF MoveAway, IInv, places, records, Goto, TypeOK, OneTransaction, Untouched,
     UnderWay, Finished, Begun, Busy, Undecided, Pending, Knows, At, Building,
     RollingBack
<1>8. ASSUME NEW q \in Procs PROVE Knows(q)'
  <2>1. CASE q = p
    BY <1>7, <2>1
  <2>2. CASE q # p
    <3>1. At(q, "idle")'
      BY <1>0, <2>2 DEF MoveAway, places, records, Goto, At, TypeOK
    <3> QED BY <3>1, IdleKnows
  <2> QED BY <2>1, <2>2
<1> QED BY <1>1, <1>2, <1>3, <1>4, <1>5, <1>6, <1>8 DEF IInv

\* The new one takes its place, with its token.
LEMMA PublishKeeps ==
    ASSUME NEW p \in Procs, Publish(p), IInv
    PROVE  IInv'
<1>0. /\ GuardIsHeld /\ TypeOK /\ Knows(p) /\ hand[p].id \in Ids
      /\ \A q \in Procs \ {p} : At(q, "idle")
  BY GuardAlone DEF Publish, IInv, Knows, At
<1>1. TypeOK'
  <2>1. pc' \in [Procs -> Steps]
    BY <1>0 DEF Publish, TypeOK, Goto, Return, At, Steps, Building, Settling,
       RollingBack
  <2>2. /\ hand' \in [Procs -> [id : Ids \cup {None}, next : Interpreters \cup {None}]]
        /\ guard' \in Procs \cup {None}
    BY <1>0 DEF Publish, TypeOK, Goto, Return, EmptyHand
  <2>3. /\ current' \in Directory \cup {None}
        /\ backup' \in [Ids -> Directory \cup {None}]
        /\ staging' \in [Ids -> Directory \cup {None}]
    BY <1>0, DirectoryType, PartsType DEF Publish, TypeOK, Knows, At, places, Building,
       RollingBack
  <2>4. journal' \in [Ids -> Journal \cup {None}]
    BY <1>0, JournalType, PartsType DEF Publish, TypeOK, Knows, At, records, Pending,
       Building, RollingBack
  <2> QED BY <1>0, <2>1, <2>2, <2>3, <2>4 DEF Publish, TypeOK, places, records
<1>2. GuardIsHeld'
  BY <1>0, GuardAlone DEF Publish, GuardIsHeld, At, places, records, Goto, TypeOK, Steps
<1>3. OneTransaction'
  BY <1>0 DEF Publish, IInv, OneTransaction, Pending, places, records, Goto, Knows, At,
     TypeOK, Journal, Building, RollingBack
<1>4. PlacesAreKnown'
  BY <1>0 DEF Publish, IInv, places, records, Goto, TypeOK, PlacesAreKnown, Finished,
     Begun, Undecided, Pending, Knows, At
<1>5. CurrentIsKnown'
  BY <1>0 DEF Publish, IInv, places, records, Goto, TypeOK, Journal, Directory,
     PlacesAreKnown, OneTransaction, CurrentIsKnown, WorkersAreKnown, Untouched,
     UnderWay, Finished, Begun, Busy, Undecided, Pending, Knows, At, Building,
     RollingBack
<1>6. WorkersAreKnown'
  BY <1>0 DEF Publish, IInv, places, records, Goto, TypeOK, WorkersAreKnown,
     OneTransaction, UnderWay, Begun, Undecided, Pending, Knows, At
<1>7. Knows(p)'
  BY <1>0 DEF Publish, IInv, places, records, Goto, TypeOK, Journal, Directory,
     PlacesAreKnown, OneTransaction, CurrentIsKnown, WorkersAreKnown, Untouched,
     UnderWay, Finished, Begun, Busy, Undecided, Pending, Knows, At, Building,
     RollingBack
<1>8. ASSUME NEW q \in Procs PROVE Knows(q)'
  <2>1. CASE q = p
    BY <1>7, <2>1
  <2>2. CASE q # p
    <3>1. At(q, "idle")'
      BY <1>0, <2>2 DEF Publish, places, records, Goto, At, TypeOK
    <3> QED BY <3>1, IdleKnows
  <2> QED BY <2>1, <2>2
<1> QED BY <1>1, <1>2, <1>3, <1>4, <1>5, <1>6, <1>8 DEF IInv

\* The journal says that the worker may start.
LEMMA WriteCreatingKeeps ==
    ASSUME NEW p \in Procs, WriteCreating(p), IInv
    PROVE  IInv'
<1>0. /\ GuardIsHeld /\ TypeOK /\ Knows(p) /\ hand[p].id \in Ids
      /\ \A q \in Procs \ {p} : At(q, "idle")
  BY GuardAlone DEF WriteCreating, IInv, Knows, At
<1>1. TypeOK'
  <2>1. pc' \in [Procs -> Steps]
    BY <1>0 DEF WriteCreating, TypeOK, Goto, Return, At, Steps, Building, Settling,
       RollingBack
  <2>2. /\ hand' \in [Procs -> [id : Ids \cup {None}, next : Interpreters \cup {None}]]
        /\ guard' \in Procs \cup {None}
    BY <1>0 DEF WriteCreating, TypeOK, Goto, Return, EmptyHand
  <2>3. /\ current' \in Directory \cup {None}
        /\ backup' \in [Ids -> Directory \cup {None}]
        /\ staging' \in [Ids -> Directory \cup {None}]
    BY <1>0, DirectoryType, PartsType DEF WriteCreating, TypeOK, Knows, At, places,
       Building, RollingBack
  <2>4. journal' \in [Ids -> Journal \cup {None}]
    BY <1>0, JournalType, PartsType DEF WriteCreating, TypeOK, Knows, At, records,
       Pending, Building, RollingBack
  <2> QED BY <1>0, <2>1, <2>2, <2>3, <2>4 DEF WriteCreating, TypeOK, places, records
<1>2. GuardIsHeld'
  BY <1>0, GuardAlone DEF WriteCreating, GuardIsHeld, At, places, records, Goto, TypeOK,
     Steps
<1>3. OneTransaction'
  BY <1>0 DEF WriteCreating, IInv, OneTransaction, Pending, places, records, Goto,
     Knows, At, TypeOK, Journal, Building, RollingBack
<1>4. PlacesAreKnown'
  BY <1>0 DEF WriteCreating, IInv, places, records, Goto, TypeOK, PlacesAreKnown,
     Finished, Begun, Undecided, Pending, Knows, At
<1>5. CurrentIsKnown'
  BY <1>0 DEF WriteCreating, IInv, places, records, Goto, TypeOK, Journal, Directory,
     PlacesAreKnown, OneTransaction, CurrentIsKnown, WorkersAreKnown, Untouched,
     UnderWay, Finished, Begun, Busy, Undecided, Pending, Knows, At, Building,
     RollingBack
<1>6. WorkersAreKnown'
  BY <1>0 DEF WriteCreating, IInv, places, records, Goto, TypeOK, WorkersAreKnown,
     OneTransaction, UnderWay, Begun, Undecided, Pending, Knows, At
<1>7. Knows(p)'
  BY <1>0 DEF WriteCreating, IInv, places, records, Goto, TypeOK, Journal, Directory,
     PlacesAreKnown, OneTransaction, CurrentIsKnown, WorkersAreKnown, Untouched,
     UnderWay, Finished, Begun, Busy, Undecided, Pending, Knows, At, Building,
     RollingBack
<1>8. ASSUME NEW q \in Procs PROVE Knows(q)'
  <2>1. CASE q = p
    BY <1>7, <2>1
  <2>2. CASE q # p
    <3>1. At(q, "idle")'
      BY <1>0, <2>2 DEF WriteCreating, places, records, Goto, At, TypeOK
    <3> QED BY <3>1, IdleKnows
  <2> QED BY <2>1, <2>2
<1> QED BY <1>1, <1>2, <1>3, <1>4, <1>5, <1>6, <1>8 DEF IInv

\* The worker waits for its release.
LEMMA SpawnKeeps ==
    ASSUME NEW p \in Procs, Spawn(p), IInv
    PROVE  IInv'
<1>0. /\ GuardIsHeld /\ TypeOK /\ Knows(p) /\ hand[p].id \in Ids
      /\ \A q \in Procs \ {p} : At(q, "idle")
  BY GuardAlone DEF Spawn, IInv, Knows, At
<1>1. TypeOK'
  <2>1. pc' \in [Procs -> Steps]
    BY <1>0 DEF Spawn, TypeOK, Goto, Return, At, Steps, Building, Settling, RollingBack
  <2>2. /\ hand' \in [Procs -> [id : Ids \cup {None}, next : Interpreters \cup {None}]]
        /\ guard' \in Procs \cup {None}
    BY <1>0 DEF Spawn, TypeOK, Goto, Return, EmptyHand
  <2>3. /\ current' \in Directory \cup {None}
        /\ backup' \in [Ids -> Directory \cup {None}]
        /\ staging' \in [Ids -> Directory \cup {None}]
    BY <1>0, DirectoryType, PartsType DEF Spawn, TypeOK, Knows, At, places, Building,
       RollingBack
  <2>4. journal' \in [Ids -> Journal \cup {None}]
    BY <1>0, JournalType, PartsType DEF Spawn, TypeOK, Knows, At, records, Pending,
       Building, RollingBack
  <2> QED BY <1>0, <2>1, <2>2, <2>3, <2>4 DEF Spawn, TypeOK, places, records
<1>2. GuardIsHeld'
  BY <1>0, GuardAlone DEF Spawn, GuardIsHeld, At, places, records, Goto, TypeOK, Steps
<1>3. OneTransaction'
  BY <1>0 DEF Spawn, IInv, OneTransaction, Pending, places, records, Goto, Knows, At,
     TypeOK, Journal, Building, RollingBack
<1>4. PlacesAreKnown'
  BY <1>0 DEF Spawn, IInv, places, records, Goto, TypeOK, PlacesAreKnown, Finished,
     Begun, Undecided, Pending, Knows, At
<1>5. CurrentIsKnown'
  BY <1>0 DEF Spawn, IInv, places, records, Goto, TypeOK, CurrentIsKnown,
     OneTransaction, Untouched, UnderWay, Finished, Begun, Undecided, Pending, Knows, At
<1>6. WorkersAreKnown'
  BY <1>0 DEF Spawn, IInv, places, records, Goto, TypeOK, WorkersAreKnown,
     OneTransaction, UnderWay, Begun, Undecided, Pending, Knows, At
<1>7. Knows(p)'
  BY <1>0 DEF Spawn, IInv, places, records, Goto, TypeOK, OneTransaction, Untouched,
     UnderWay, Finished, Begun, Busy, Undecided, Pending, Knows, At, Building,
     RollingBack
<1>8. ASSUME NEW q \in Procs PROVE Knows(q)'
  <2>1. CASE q = p
    BY <1>7, <2>1
  <2>2. CASE q # p
    <3>1. At(q, "idle")'
      BY <1>0, <2>2 DEF Spawn, places, records, Goto, At, TypeOK
    <3> QED BY <3>1, IdleKnows
  <2> QED BY <2>1, <2>2
<1> QED BY <1>1, <1>2, <1>3, <1>4, <1>5, <1>6, <1>8 DEF IInv

\* Its birth is on disk before it writes anything.
LEMMA RecordWorkerKeeps ==
    ASSUME NEW p \in Procs, RecordWorker(p), IInv
    PROVE  IInv'
<1>0. /\ GuardIsHeld /\ TypeOK /\ Knows(p) /\ hand[p].id \in Ids
      /\ \A q \in Procs \ {p} : At(q, "idle")
  BY GuardAlone DEF RecordWorker, IInv, Knows, At
<1>1. TypeOK'
  <2>1. pc' \in [Procs -> Steps]
    BY <1>0 DEF RecordWorker, TypeOK, Goto, Return, At, Steps, Building, Settling,
       RollingBack
  <2>2. /\ hand' \in [Procs -> [id : Ids \cup {None}, next : Interpreters \cup {None}]]
        /\ guard' \in Procs \cup {None}
    BY <1>0 DEF RecordWorker, TypeOK, Goto, Return, EmptyHand
  <2>3. /\ current' \in Directory \cup {None}
        /\ backup' \in [Ids -> Directory \cup {None}]
        /\ staging' \in [Ids -> Directory \cup {None}]
    BY <1>0, DirectoryType, PartsType DEF RecordWorker, TypeOK, Knows, At, places,
       Building, RollingBack
  <2>4. journal' \in [Ids -> Journal \cup {None}]
    BY <1>0, JournalType, PartsType DEF RecordWorker, TypeOK, Knows, At, records,
       Pending, Building, RollingBack
  <2> QED BY <1>0, <2>1, <2>2, <2>3, <2>4 DEF RecordWorker, TypeOK, places, records
<1>2. GuardIsHeld'
  BY <1>0, GuardAlone DEF RecordWorker, GuardIsHeld, At, places, records, Goto, TypeOK,
     Steps
<1>a. /\ journal'[hand[p].id] # None /\ journal'[hand[p].id].worker
      /\ journal'[hand[p].id].phase = journal[hand[p].id].phase
      /\ journal'[hand[p].id].before = journal[hand[p].id].before
      /\ \A a \in Ids \ {hand[p].id} : journal'[a] = journal[a]
      /\ Pending' = Pending /\ Undecided' = Undecided
  <2>1. hand[p].id \in Pending
    BY <1>0 DEF RecordWorker, Knows, At
  <2>2. journal[hand[p].id] \in Journal
    BY <1>0, <2>1, PartsType DEF Pending
  <2>3. [journal[hand[p].id] EXCEPT !.worker = TRUE] \in Journal
    BY <2>2, JournalType
  <2>4. /\ [journal[hand[p].id] EXCEPT !.worker = TRUE].worker
        /\ [journal[hand[p].id] EXCEPT !.worker = TRUE].phase = journal[hand[p].id].phase
        /\ [journal[hand[p].id] EXCEPT !.worker = TRUE].before = journal[hand[p].id].before
    BY <2>2 DEF Journal
  <2>5. /\ journal'[hand[p].id] = [journal[hand[p].id] EXCEPT !.worker = TRUE]
        /\ \A a \in Ids \ {hand[p].id} : journal'[a] = journal[a]
    BY <1>0 DEF RecordWorker, TypeOK
  <2>6. journal'[hand[p].id] # None /\ journal[hand[p].id] # None
    BY <2>1, <2>3, <2>5 DEF Pending
  <2>7. \A a \in Ids : journal'[a] # None <=> journal[a] # None
    BY <2>5, <2>6
  <2>8. \A a \in Ids : journal'[a].phase = journal[a].phase
    BY <2>4, <2>5
  <2>9. Pending' = Pending
    BY <2>7 DEF Pending
  <2>10. Undecided' = Undecided
    BY <2>8, <2>9 DEF Undecided, Pending
  <2> QED BY <2>4, <2>5, <2>6, <2>9, <2>10
<1>3. OneTransaction'
  BY <1>a DEF RecordWorker, IInv, OneTransaction
<1>4. PlacesAreKnown'
  BY <1>0 DEF RecordWorker, IInv, places, records, Goto, TypeOK, PlacesAreKnown,
     Finished, Begun, Undecided, Pending, Knows, At
<1>5. CurrentIsKnown'
  BY <1>0, <1>a DEF RecordWorker, IInv, places, records, Goto, TypeOK, CurrentIsKnown,
     OneTransaction, Untouched, UnderWay, Finished, Begun, Undecided, Pending, Knows, At
<1>6. WorkersAreKnown'
  BY <1>0 DEF RecordWorker, IInv, places, records, Goto, TypeOK, WorkersAreKnown,
     OneTransaction, UnderWay, Begun, Undecided, Pending, Knows, At
<1>7. Knows(p)'
  <2>1. At(p, "release")' /\ UNCHANGED <<places, marker, worker, hand>>
    BY <1>0 DEF RecordWorker, Goto, At, TypeOK
  <2>2. /\ hand[p].id \in Pending /\ hand[p].next \in Interpreters
        /\ marker = hand[p].id /\ current # None /\ UnderWay(hand[p].id)
        /\ current.token = hand[p].id /\ worker[hand[p].id] = "waiting"
        /\ journal[hand[p].id].phase = "creating"
    BY <1>0 DEF RecordWorker, Knows, At, Building
  <2>3. UnderWay(hand[p].id)'
    BY <1>a, <2>1, <2>2 DEF UnderWay, Begun, places
  <2> QED BY <1>0, <1>a, <2>1, <2>2, <2>3 DEF Knows, At, places, Building, RollingBack
<1>8. ASSUME NEW q \in Procs PROVE Knows(q)'
  <2>1. CASE q = p
    BY <1>7, <2>1
  <2>2. CASE q # p
    <3>1. At(q, "idle")'
      BY <1>0, <2>2 DEF RecordWorker, places, records, Goto, At, TypeOK
    <3> QED BY <3>1, IdleKnows
  <2> QED BY <2>1, <2>2
<1> QED BY <1>1, <1>2, <1>3, <1>4, <1>5, <1>6, <1>8 DEF IInv

\* The worker writes, its parent waits.
LEMMA ReleaseKeeps ==
    ASSUME NEW p \in Procs, Release(p), IInv
    PROVE  IInv'
<1>0. /\ GuardIsHeld /\ TypeOK /\ Knows(p) /\ hand[p].id \in Ids
      /\ \A q \in Procs \ {p} : At(q, "idle")
  BY GuardAlone DEF Release, IInv, Knows, At
<1>1. TypeOK'
  <2>1. pc' \in [Procs -> Steps]
    BY <1>0 DEF Release, TypeOK, Goto, Return, At, Steps, Building, Settling,
       RollingBack
  <2>2. /\ hand' \in [Procs -> [id : Ids \cup {None}, next : Interpreters \cup {None}]]
        /\ guard' \in Procs \cup {None}
    BY <1>0 DEF Release, TypeOK, Goto, Return, EmptyHand
  <2>3. /\ current' \in Directory \cup {None}
        /\ backup' \in [Ids -> Directory \cup {None}]
        /\ staging' \in [Ids -> Directory \cup {None}]
    BY <1>0, DirectoryType, PartsType DEF Release, TypeOK, Knows, At, places, Building,
       RollingBack
  <2>4. journal' \in [Ids -> Journal \cup {None}]
    BY <1>0, JournalType, PartsType DEF Release, TypeOK, Knows, At, records, Pending,
       Building, RollingBack
  <2> QED BY <1>0, <2>1, <2>2, <2>3, <2>4 DEF Release, TypeOK, places, records
<1>2. GuardIsHeld'
  BY <1>0, GuardAlone DEF Release, GuardIsHeld, At, places, records, Goto, TypeOK, Steps
<1>3. OneTransaction'
  BY <1>0 DEF Release, IInv, OneTransaction, Pending, places, records, Goto, Knows, At,
     TypeOK, Journal, Building, RollingBack
<1>4. PlacesAreKnown'
  BY <1>0 DEF Release, IInv, places, records, Goto, TypeOK, PlacesAreKnown, Finished,
     Begun, Undecided, Pending, Knows, At
<1>5. CurrentIsKnown'
  BY <1>0 DEF Release, IInv, places, records, Goto, TypeOK, CurrentIsKnown,
     OneTransaction, Untouched, UnderWay, Finished, Begun, Undecided, Pending, Knows, At
<1>6. WorkersAreKnown'
  BY <1>0 DEF Release, IInv, places, records, Goto, TypeOK, WorkersAreKnown,
     OneTransaction, UnderWay, Begun, Undecided, Pending, Knows, At
<1>7. Knows(p)'
  BY <1>0 DEF Release, IInv, places, records, Goto, TypeOK, OneTransaction, Untouched,
     UnderWay, Finished, Begun, Busy, Undecided, Pending, Knows, At, Building,
     RollingBack
<1>8. ASSUME NEW q \in Procs PROVE Knows(q)'
  <2>1. CASE q = p
    BY <1>7, <2>1
  <2>2. CASE q # p
    <3>1. At(q, "idle")'
      BY <1>0, <2>2 DEF Release, places, records, Goto, At, TypeOK
    <3> QED BY <3>1, IdleKnows
  <2> QED BY <2>1, <2>2
<1> QED BY <1>1, <1>2, <1>3, <1>4, <1>5, <1>6, <1>8 DEF IInv

\* The parent goes on when the worker has ended.
LEMMA WaitKeeps ==
    ASSUME NEW p \in Procs, Wait(p), IInv
    PROVE  IInv'
<1>0. /\ GuardIsHeld /\ TypeOK /\ Knows(p) /\ hand[p].id \in Ids
      /\ \A q \in Procs \ {p} : At(q, "idle")
  BY GuardAlone DEF Wait, IInv, Knows, At
<1>1. TypeOK'
  <2>1. pc' \in [Procs -> Steps]
    BY <1>0 DEF Wait, TypeOK, Goto, Return, At, Steps, Building, Settling, RollingBack
  <2>2. /\ hand' \in [Procs -> [id : Ids \cup {None}, next : Interpreters \cup {None}]]
        /\ guard' \in Procs \cup {None}
    BY <1>0 DEF Wait, TypeOK, Goto, Return, EmptyHand
  <2>3. /\ current' \in Directory \cup {None}
        /\ backup' \in [Ids -> Directory \cup {None}]
        /\ staging' \in [Ids -> Directory \cup {None}]
    BY <1>0, DirectoryType, PartsType DEF Wait, TypeOK, Knows, At, places, Building,
       RollingBack
  <2>4. journal' \in [Ids -> Journal \cup {None}]
    BY <1>0, JournalType, PartsType DEF Wait, TypeOK, Knows, At, records, Pending,
       Building, RollingBack
  <2> QED BY <1>0, <2>1, <2>2, <2>3, <2>4 DEF Wait, TypeOK, places, records
<1>2. GuardIsHeld'
  BY <1>0, GuardAlone DEF Wait, GuardIsHeld, At, places, records, Goto, TypeOK, Steps
<1>3. OneTransaction'
  BY <1>0 DEF Wait, IInv, OneTransaction, Pending, places, records, Goto, Knows, At,
     TypeOK, Journal, Building, RollingBack
<1>4. PlacesAreKnown'
  BY <1>0 DEF Wait, IInv, places, records, Goto, TypeOK, PlacesAreKnown, Finished,
     Begun, Undecided, Pending, Knows, At
<1>5. CurrentIsKnown'
  BY <1>0 DEF Wait, IInv, places, records, Goto, TypeOK, CurrentIsKnown, OneTransaction,
     Untouched, UnderWay, Finished, Begun, Undecided, Pending, Knows, At
<1>6. WorkersAreKnown'
  BY <1>0 DEF Wait, IInv, places, records, Goto, TypeOK, WorkersAreKnown,
     OneTransaction, UnderWay, Begun, Undecided, Pending, Knows, At
<1>7. Knows(p)'
  BY <1>0 DEF Wait, IInv, places, records, Goto, TypeOK, OneTransaction, Untouched,
     UnderWay, Finished, Begun, Busy, Undecided, Pending, Knows, At, Building,
     RollingBack
<1>8. ASSUME NEW q \in Procs PROVE Knows(q)'
  <2>1. CASE q = p
    BY <1>7, <2>1
  <2>2. CASE q # p
    <3>1. At(q, "idle")'
      BY <1>0, <2>2 DEF Wait, places, records, Goto, At, TypeOK
    <3> QED BY <3>1, IdleKnows
  <2> QED BY <2>1, <2>2
<1> QED BY <1>1, <1>2, <1>3, <1>4, <1>5, <1>6, <1>8 DEF IInv

\* The environment gets its owner record.
LEMMA WriteOwnerKeeps ==
    ASSUME NEW p \in Procs, WriteOwner(p), IInv
    PROVE  IInv'
<1>0. /\ GuardIsHeld /\ TypeOK /\ Knows(p) /\ hand[p].id \in Ids
      /\ \A q \in Procs \ {p} : At(q, "idle")
  BY GuardAlone DEF WriteOwner, IInv, Knows, At
<1>1. TypeOK'
  <2>1. pc' \in [Procs -> Steps]
    BY <1>0 DEF WriteOwner, TypeOK, Goto, Return, At, Steps, Building, Settling,
       RollingBack
  <2>2. /\ hand' \in [Procs -> [id : Ids \cup {None}, next : Interpreters \cup {None}]]
        /\ guard' \in Procs \cup {None}
    BY <1>0 DEF WriteOwner, TypeOK, Goto, Return, EmptyHand
  <2>3. /\ current' \in Directory \cup {None}
        /\ backup' \in [Ids -> Directory \cup {None}]
        /\ staging' \in [Ids -> Directory \cup {None}]
    BY <1>0, DirectoryType, PartsType DEF WriteOwner, TypeOK, Knows, At, places,
       Building, RollingBack
  <2>4. journal' \in [Ids -> Journal \cup {None}]
    BY <1>0, JournalType, PartsType DEF WriteOwner, TypeOK, Knows, At, records, Pending,
       Building, RollingBack
  <2> QED BY <1>0, <2>1, <2>2, <2>3, <2>4 DEF WriteOwner, TypeOK, places, records
<1>2. GuardIsHeld'
  BY <1>0, GuardAlone DEF WriteOwner, GuardIsHeld, At, places, records, Goto, TypeOK,
     Steps
<1>3. OneTransaction'
  BY <1>0 DEF WriteOwner, IInv, OneTransaction, Pending, places, records, Goto, Knows,
     At, TypeOK, Journal, Building, RollingBack
<1>4. PlacesAreKnown'
  BY <1>0 DEF WriteOwner, IInv, places, records, Goto, TypeOK, PlacesAreKnown, Finished,
     Begun, Undecided, Pending, Knows, At
<1>5. CurrentIsKnown'
  BY <1>0 DEF WriteOwner, IInv, places, records, Goto, TypeOK, CurrentIsKnown,
     OneTransaction, Untouched, UnderWay, Finished, Begun, Undecided, Pending, Knows, At
<1>6. WorkersAreKnown'
  BY <1>0 DEF WriteOwner, IInv, places, records, Goto, TypeOK, WorkersAreKnown,
     OneTransaction, UnderWay, Begun, Undecided, Pending, Knows, At
<1>7. Knows(p)'
  BY <1>0 DEF WriteOwner, IInv, places, records, Goto, TypeOK, Journal, Directory,
     PlacesAreKnown, OneTransaction, CurrentIsKnown, WorkersAreKnown, Untouched,
     UnderWay, Finished, Begun, Busy, Undecided, Pending, Knows, At, Building,
     RollingBack
<1>8. ASSUME NEW q \in Procs PROVE Knows(q)'
  <2>1. CASE q = p
    BY <1>7, <2>1
  <2>2. CASE q # p
    <3>1. At(q, "idle")'
      BY <1>0, <2>2 DEF WriteOwner, places, records, Goto, At, TypeOK
    <3> QED BY <3>1, IdleKnows
  <2> QED BY <2>1, <2>2
<1> QED BY <1>1, <1>2, <1>3, <1>4, <1>5, <1>6, <1>8 DEF IInv

\* Validation changes nothing.
LEMMA ValidateKeeps ==
    ASSUME NEW p \in Procs, Validate(p), IInv
    PROVE  IInv'
<1>0. /\ GuardIsHeld /\ TypeOK /\ Knows(p) /\ hand[p].id \in Ids
      /\ \A q \in Procs \ {p} : At(q, "idle")
  BY GuardAlone DEF Validate, IInv, Knows, At
<1>1. TypeOK'
  <2>1. pc' \in [Procs -> Steps]
    BY <1>0 DEF Validate, TypeOK, Goto, Return, At, Steps, Building, Settling,
       RollingBack
  <2>2. /\ hand' \in [Procs -> [id : Ids \cup {None}, next : Interpreters \cup {None}]]
        /\ guard' \in Procs \cup {None}
    BY <1>0 DEF Validate, TypeOK, Goto, Return, EmptyHand
  <2>3. /\ current' \in Directory \cup {None}
        /\ backup' \in [Ids -> Directory \cup {None}]
        /\ staging' \in [Ids -> Directory \cup {None}]
    BY <1>0, DirectoryType, PartsType DEF Validate, TypeOK, Knows, At, places, Building,
       RollingBack
  <2>4. journal' \in [Ids -> Journal \cup {None}]
    BY <1>0, JournalType, PartsType DEF Validate, TypeOK, Knows, At, records, Pending,
       Building, RollingBack
  <2> QED BY <1>0, <2>1, <2>2, <2>3, <2>4 DEF Validate, TypeOK, places, records
<1>2. GuardIsHeld'
  BY <1>0, GuardAlone DEF Validate, GuardIsHeld, At, places, records, Goto, TypeOK,
     Steps
<1>3. OneTransaction'
  BY <1>0 DEF Validate, IInv, OneTransaction, Pending, places, records, Goto, Knows, At,
     TypeOK, Journal, Building, RollingBack
<1>4. PlacesAreKnown'
  BY <1>0 DEF Validate, IInv, places, records, Goto, TypeOK, PlacesAreKnown, Finished,
     Begun, Undecided, Pending, Knows, At
<1>5. CurrentIsKnown'
  BY <1>0 DEF Validate, IInv, places, records, Goto, TypeOK, CurrentIsKnown,
     OneTransaction, Untouched, UnderWay, Finished, Begun, Undecided, Pending, Knows, At
<1>6. WorkersAreKnown'
  BY <1>0 DEF Validate, IInv, places, records, Goto, TypeOK, WorkersAreKnown,
     OneTransaction, UnderWay, Begun, Undecided, Pending, Knows, At
<1>7. Knows(p)'
  BY <1>0 DEF Validate, IInv, places, records, Goto, TypeOK, OneTransaction, Untouched,
     UnderWay, Finished, Begun, Busy, Undecided, Pending, Knows, At, Building,
     RollingBack
<1>8. ASSUME NEW q \in Procs PROVE Knows(q)'
  <2>1. CASE q = p
    BY <1>7, <2>1
  <2>2. CASE q # p
    <3>1. At(q, "idle")'
      BY <1>0, <2>2 DEF Validate, places, records, Goto, At, TypeOK
    <3> QED BY <3>1, IdleKnows
  <2> QED BY <2>1, <2>2
<1> QED BY <1>1, <1>2, <1>3, <1>4, <1>5, <1>6, <1>8 DEF IInv

\* From here the environment is kept.
LEMMA CommitKeeps ==
    ASSUME NEW p \in Procs, Commit(p), IInv
    PROVE  IInv'
<1>0. /\ GuardIsHeld /\ TypeOK /\ Knows(p) /\ hand[p].id \in Ids
      /\ \A q \in Procs \ {p} : At(q, "idle")
  BY GuardAlone DEF Commit, IInv, Knows, At
<1>1. TypeOK'
  <2>1. pc' \in [Procs -> Steps]
    BY <1>0 DEF Commit, TypeOK, Goto, Return, At, Steps, Building, Settling, RollingBack
  <2>2. /\ hand' \in [Procs -> [id : Ids \cup {None}, next : Interpreters \cup {None}]]
        /\ guard' \in Procs \cup {None}
    BY <1>0 DEF Commit, TypeOK, Goto, Return, EmptyHand
  <2>3. /\ current' \in Directory \cup {None}
        /\ backup' \in [Ids -> Directory \cup {None}]
        /\ staging' \in [Ids -> Directory \cup {None}]
    BY <1>0, DirectoryType, PartsType DEF Commit, TypeOK, Knows, At, places, Building,
       RollingBack
  <2>4. journal' \in [Ids -> Journal \cup {None}]
    BY <1>0, JournalType, PartsType DEF Commit, TypeOK, Knows, At, records, Pending,
       Building, RollingBack
  <2> QED BY <1>0, <2>1, <2>2, <2>3, <2>4 DEF Commit, TypeOK, places, records
<1>2. GuardIsHeld'
  BY <1>0, GuardAlone DEF Commit, GuardIsHeld, At, places, records, Goto, TypeOK, Steps
<1>3. OneTransaction'
  BY <1>0 DEF Commit, IInv, OneTransaction, Pending, places, records, Goto, Knows, At,
     TypeOK, Journal, Building, RollingBack
<1>4. PlacesAreKnown'
  BY <1>0 DEF Commit, IInv, places, records, Goto, TypeOK, PlacesAreKnown, Finished,
     Begun, Undecided, Pending, Knows, At
<1>5. CurrentIsKnown'
  BY <1>0 DEF Commit, IInv, places, records, Goto, TypeOK, Journal, Directory,
     PlacesAreKnown, OneTransaction, CurrentIsKnown, WorkersAreKnown, Untouched,
     UnderWay, Finished, Begun, Busy, Undecided, Pending, Knows, At, Building,
     RollingBack
<1>6. WorkersAreKnown'
  BY <1>0 DEF Commit, IInv, places, records, Goto, TypeOK, WorkersAreKnown,
     OneTransaction, UnderWay, Begun, Undecided, Pending, Knows, At
<1>7. Knows(p)'
  BY <1>0 DEF Commit, IInv, places, records, Goto, TypeOK, Journal, Directory,
     PlacesAreKnown, OneTransaction, CurrentIsKnown, WorkersAreKnown, Untouched,
     UnderWay, Finished, Begun, Busy, Undecided, Pending, Knows, At, Building,
     RollingBack
<1>8. ASSUME NEW q \in Procs PROVE Knows(q)'
  <2>1. CASE q = p
    BY <1>7, <2>1
  <2>2. CASE q # p
    <3>1. At(q, "idle")'
      BY <1>0, <2>2 DEF Commit, places, records, Goto, At, TypeOK
    <3> QED BY <3>1, IdleKnows
  <2> QED BY <2>1, <2>2
<1> QED BY <1>1, <1>2, <1>3, <1>4, <1>5, <1>6, <1>8 DEF IInv

\* The token goes once the journal says so.
LEMMA DropTokenKeeps ==
    ASSUME NEW p \in Procs, DropToken(p), IInv
    PROVE  IInv'
<1>0. /\ GuardIsHeld /\ TypeOK /\ Knows(p) /\ hand[p].id \in Ids
      /\ \A q \in Procs \ {p} : At(q, "idle")
  BY GuardAlone DEF DropToken, IInv, Knows, At
<1>1. TypeOK'
  <2>1. pc' \in [Procs -> Steps]
    BY <1>0 DEF DropToken, TypeOK, Goto, Return, At, Steps, Building, Settling,
       RollingBack
  <2>2. /\ hand' \in [Procs -> [id : Ids \cup {None}, next : Interpreters \cup {None}]]
        /\ guard' \in Procs \cup {None}
    BY <1>0 DEF DropToken, TypeOK, Goto, Return, EmptyHand
  <2>3. /\ current' \in Directory \cup {None}
        /\ backup' \in [Ids -> Directory \cup {None}]
        /\ staging' \in [Ids -> Directory \cup {None}]
    BY <1>0, DirectoryType, PartsType DEF DropToken, TypeOK, Knows, At, places,
       Building, RollingBack
  <2>4. journal' \in [Ids -> Journal \cup {None}]
    BY <1>0, JournalType, PartsType DEF DropToken, TypeOK, Knows, At, records, Pending,
       Building, RollingBack
  <2> QED BY <1>0, <2>1, <2>2, <2>3, <2>4 DEF DropToken, TypeOK, places, records
<1>2. GuardIsHeld'
  BY <1>0, GuardAlone DEF DropToken, GuardIsHeld, At, places, records, Goto, TypeOK,
     Steps
<1>3. OneTransaction'
  BY <1>0 DEF DropToken, IInv, OneTransaction, Pending, places, records, Goto, Knows,
     At, TypeOK, Journal, Building, RollingBack
<1>4. PlacesAreKnown'
  BY <1>0 DEF DropToken, IInv, places, records, Goto, TypeOK, PlacesAreKnown, Finished,
     Begun, Undecided, Pending, Knows, At
<1>5. CurrentIsKnown'
  BY <1>0 DEF DropToken, IInv, places, records, Goto, TypeOK, CurrentIsKnown,
     OneTransaction, Untouched, UnderWay, Finished, Begun, Undecided, Pending, Knows, At
<1>6. WorkersAreKnown'
  BY <1>0 DEF DropToken, IInv, places, records, Goto, TypeOK, WorkersAreKnown,
     OneTransaction, UnderWay, Begun, Undecided, Pending, Knows, At
<1>7. Knows(p)'
  BY <1>0 DEF DropToken, IInv, places, records, Goto, TypeOK, Journal, Directory,
     PlacesAreKnown, OneTransaction, CurrentIsKnown, WorkersAreKnown, Untouched,
     UnderWay, Finished, Begun, Busy, Undecided, Pending, Knows, At, Building,
     RollingBack
<1>8. ASSUME NEW q \in Procs PROVE Knows(q)'
  <2>1. CASE q = p
    BY <1>7, <2>1
  <2>2. CASE q # p
    <3>1. At(q, "idle")'
      BY <1>0, <2>2 DEF DropToken, places, records, Goto, At, TypeOK
    <3> QED BY <3>1, IdleKnows
  <2> QED BY <2>1, <2>2
<1> QED BY <1>1, <1>2, <1>3, <1>4, <1>5, <1>6, <1>8 DEF IInv

\* The marker goes when .venv is settled.
LEMMA ClearMarkerKeeps ==
    ASSUME NEW p \in Procs, ClearMarker(p), IInv
    PROVE  IInv'
<1>0. /\ GuardIsHeld /\ TypeOK /\ Knows(p) /\ hand[p].id \in Ids
      /\ \A q \in Procs \ {p} : At(q, "idle")
  BY GuardAlone DEF ClearMarker, IInv, Knows, At
<1>1. TypeOK'
  <2>1. pc' \in [Procs -> Steps]
    BY <1>0 DEF ClearMarker, TypeOK, Goto, Return, At, Steps, Building, Settling,
       RollingBack
  <2>2. /\ hand' \in [Procs -> [id : Ids \cup {None}, next : Interpreters \cup {None}]]
        /\ guard' \in Procs \cup {None}
    BY <1>0 DEF ClearMarker, TypeOK, Goto, Return, EmptyHand
  <2>3. /\ current' \in Directory \cup {None}
        /\ backup' \in [Ids -> Directory \cup {None}]
        /\ staging' \in [Ids -> Directory \cup {None}]
    BY <1>0, DirectoryType, PartsType DEF ClearMarker, TypeOK, Knows, At, places,
       Building, RollingBack
  <2>4. journal' \in [Ids -> Journal \cup {None}]
    BY <1>0, JournalType, PartsType DEF ClearMarker, TypeOK, Knows, At, records,
       Pending, Building, RollingBack
  <2> QED BY <1>0, <2>1, <2>2, <2>3, <2>4 DEF ClearMarker, TypeOK, places, records
<1>2. GuardIsHeld'
  BY <1>0, GuardAlone DEF ClearMarker, GuardIsHeld, At, places, records, Goto, TypeOK,
     Steps
<1>3. OneTransaction'
  BY <1>0 DEF ClearMarker, IInv, OneTransaction, Pending, places, records, Goto, Knows,
     At, TypeOK, Journal, Building, RollingBack
<1>4. PlacesAreKnown'
  BY <1>0 DEF ClearMarker, IInv, places, records, Goto, TypeOK, PlacesAreKnown,
     Finished, Begun, Undecided, Pending, Knows, At
<1>5. CurrentIsKnown'
  BY <1>0 DEF ClearMarker, IInv, places, records, Goto, TypeOK, CurrentIsKnown,
     OneTransaction, Untouched, UnderWay, Finished, Begun, Undecided, Pending, Knows, At
<1>6. WorkersAreKnown'
  BY <1>0 DEF ClearMarker, IInv, places, records, Goto, TypeOK, WorkersAreKnown,
     OneTransaction, UnderWay, Begun, Undecided, Pending, Knows, At
<1>7. Knows(p)'
  BY <1>0 DEF ClearMarker, IInv, places, records, Goto, TypeOK, OneTransaction,
     Untouched, UnderWay, Finished, Begun, Busy, Undecided, Pending, Knows, At,
     Building, RollingBack
<1>8. ASSUME NEW q \in Procs PROVE Knows(q)'
  <2>1. CASE q = p
    BY <1>7, <2>1
  <2>2. CASE q # p
    <3>1. At(q, "idle")'
      BY <1>0, <2>2 DEF ClearMarker, places, records, Goto, At, TypeOK
    <3> QED BY <3>1, IdleKnows
  <2> QED BY <2>1, <2>2
<1> QED BY <1>1, <1>2, <1>3, <1>4, <1>5, <1>6, <1>8 DEF IInv

\* Its journal follows.
LEMMA ClearJournalKeeps ==
    ASSUME NEW p \in Procs, ClearJournal(p), IInv
    PROVE  IInv'
<1>0. /\ GuardIsHeld /\ TypeOK /\ Knows(p) /\ hand[p].id \in Ids
      /\ \A q \in Procs \ {p} : At(q, "idle")
  BY GuardAlone DEF ClearJournal, IInv, Knows, At
<1>1. TypeOK'
  <2>1. pc' \in [Procs -> Steps]
    BY <1>0 DEF ClearJournal, TypeOK, Goto, Return, At, Steps, Building, Settling,
       RollingBack
  <2>2. /\ hand' \in [Procs -> [id : Ids \cup {None}, next : Interpreters \cup {None}]]
        /\ guard' \in Procs \cup {None}
    BY <1>0 DEF ClearJournal, TypeOK, Goto, Return, EmptyHand
  <2>3. /\ current' \in Directory \cup {None}
        /\ backup' \in [Ids -> Directory \cup {None}]
        /\ staging' \in [Ids -> Directory \cup {None}]
    BY <1>0, DirectoryType, PartsType DEF ClearJournal, TypeOK, Knows, At, places,
       Building, RollingBack
  <2>4. journal' \in [Ids -> Journal \cup {None}]
    BY <1>0, JournalType, PartsType DEF ClearJournal, TypeOK, Knows, At, records,
       Pending, Building, RollingBack
  <2> QED BY <1>0, <2>1, <2>2, <2>3, <2>4 DEF ClearJournal, TypeOK, places, records
<1>2. GuardIsHeld'
  BY <1>0, GuardAlone DEF ClearJournal, GuardIsHeld, At, places, records, Goto, Return,
     EmptyHand, TypeOK, Steps
<1>3. OneTransaction'
  BY <1>0 DEF ClearJournal, IInv, OneTransaction, Pending, places, records, Goto,
     Return, EmptyHand, Knows, At, TypeOK, Journal, Building, RollingBack
<1>4. PlacesAreKnown'
  BY <1>0 DEF ClearJournal, IInv, places, records, Goto, Return, EmptyHand, TypeOK,
     PlacesAreKnown, Finished, Begun, Undecided, Pending, Knows, At
<1>5. CurrentIsKnown'
  BY <1>0 DEF ClearJournal, IInv, places, records, Goto, Return, EmptyHand, TypeOK,
     CurrentIsKnown, OneTransaction, Untouched, UnderWay, Finished, Begun, Undecided,
     Pending, Knows, At
<1>6. WorkersAreKnown'
  BY <1>0 DEF ClearJournal, IInv, places, records, Goto, Return, EmptyHand, TypeOK,
     WorkersAreKnown, OneTransaction, UnderWay, Begun, Undecided, Pending, Knows, At
<1>7. Knows(p)'
  BY <1>0 DEF ClearJournal, IInv, places, records, Goto, Return, EmptyHand, TypeOK,
     OneTransaction, Untouched, UnderWay, Finished, Begun, Busy, Undecided, Pending,
     Knows, At, Building, RollingBack
<1>8. ASSUME NEW q \in Procs PROVE Knows(q)'
  <2>1. CASE q = p
    BY <1>7, <2>1
  <2>2. CASE q # p
    <3>1. At(q, "idle")'
      BY <1>0, <2>2 DEF ClearJournal, places, records, Goto, Return, EmptyHand, At,
         TypeOK
    <3> QED BY <3>1, IdleKnows
  <2> QED BY <2>1, <2>2
<1> QED BY <1>1, <1>2, <1>3, <1>4, <1>5, <1>6, <1>8 DEF IInv

\* A rollback goes on only if it can give everything back.
LEMMA CheckKeeps ==
    ASSUME NEW p \in Procs, Check(p), IInv
    PROVE  IInv'
<1>0. /\ GuardIsHeld /\ TypeOK /\ Knows(p) /\ hand[p].id \in Ids
      /\ \A q \in Procs \ {p} : At(q, "idle")
  BY GuardAlone DEF Check, IInv, Knows, At
<1>1. TypeOK'
  <2>1. pc' \in [Procs -> Steps]
    BY <1>0 DEF Check, TypeOK, Goto, Return, At, Steps, Building, Settling, RollingBack
  <2>2. /\ hand' \in [Procs -> [id : Ids \cup {None}, next : Interpreters \cup {None}]]
        /\ guard' \in Procs \cup {None}
    BY <1>0 DEF Check, TypeOK, Goto, Return, EmptyHand
  <2>3. /\ current' \in Directory \cup {None}
        /\ backup' \in [Ids -> Directory \cup {None}]
        /\ staging' \in [Ids -> Directory \cup {None}]
    BY <1>0, DirectoryType, PartsType DEF Check, TypeOK, Knows, At, places, Building,
       RollingBack
  <2>4. journal' \in [Ids -> Journal \cup {None}]
    BY <1>0, JournalType, PartsType DEF Check, TypeOK, Knows, At, records, Pending,
       Building, RollingBack
  <2> QED BY <1>0, <2>1, <2>2, <2>3, <2>4 DEF Check, TypeOK, places, records
<1>2. GuardIsHeld'
  BY <1>0, GuardAlone DEF Check, GuardIsHeld, At, places, records, Goto, Return,
     EmptyHand, TypeOK, Steps
<1>3. OneTransaction'
  BY <1>0 DEF Check, IInv, OneTransaction, Pending, places, records, Goto, Return,
     EmptyHand, Knows, At, TypeOK, Journal, Building, RollingBack
<1>4. PlacesAreKnown'
  BY <1>0 DEF Check, IInv, places, records, Goto, Return, EmptyHand, TypeOK,
     PlacesAreKnown, Finished, Begun, Undecided, Pending, Knows, At
<1>5. CurrentIsKnown'
  BY <1>0 DEF Check, IInv, places, records, Goto, Return, EmptyHand, TypeOK,
     CurrentIsKnown, OneTransaction, Untouched, UnderWay, Finished, Begun, Undecided,
     Pending, Knows, At
<1>6. WorkersAreKnown'
  BY <1>0 DEF Check, IInv, places, records, Goto, Return, EmptyHand, TypeOK,
     WorkersAreKnown, OneTransaction, UnderWay, Begun, Undecided, Pending, Knows, At
<1>7. Knows(p)'
  <2>1. CASE ~Restorable(hand[p].id)
    <3>1. At(p, "idle")'
      BY <1>0, <2>1 DEF Check, Return, Goto, At, TypeOK
    <3> QED BY <3>1, IdleKnows
  <2>2. CASE Restorable(hand[p].id)
    <3>1. /\ hand[p].id \in Pending /\ journal[hand[p].id].phase # "committed" /\ ~Busy(hand[p].id)
          /\ UNCHANGED <<places, records, worker, hand>>
      BY <1>0, <2>2 DEF Check, Knows, At, RollingBack
    <3>2. CASE current # None /\ Owns(hand[p].id, current)
      <4>1. UnderWay(hand[p].id)
        BY <1>0, <3>1, <3>2 DEF IInv, CurrentIsKnown, OneTransaction, Untouched,
           Finished, Owns
      <4>2. pc'[p] = "remove"
        BY <2>2, <3>2 DEF Check, Goto, IInv, TypeOK
      <4> QED BY <1>0, <3>1, <3>2, <4>1, <4>2 DEF Knows, At, Busy, UnderWay, Begun,
         Pending, places, records, Building, RollingBack
    <3>3. CASE ~(current # None /\ Owns(hand[p].id, current))
      <4>1. pc'[p] = "restore"
        BY <2>2, <3>3 DEF Check, Goto, IInv, TypeOK
      <4>2. current # None => Untouched /\ backup[hand[p].id] = None
        BY <2>2, <3>1, <3>3 DEF IInv, CurrentIsKnown, OneTransaction, UnderWay,
           Restorable, Owns
      <4> QED BY <1>0, <3>1, <4>1, <4>2 DEF Knows, At, Busy, Untouched, Finished,
         Undecided, Begun, Pending, places, records, Building, RollingBack
    <3> QED BY <3>2, <3>3
  <2> QED BY <2>1, <2>2
<1>8. ASSUME NEW q \in Procs PROVE Knows(q)'
  <2>1. CASE q = p
    BY <1>7, <2>1
  <2>2. CASE q # p
    <3>1. At(q, "idle")'
      BY <1>0, <2>2 DEF Check, places, records, Goto, Return, EmptyHand, At, TypeOK
    <3> QED BY <3>1, IdleKnows
  <2> QED BY <2>1, <2>2
<1> QED BY <1>1, <1>2, <1>3, <1>4, <1>5, <1>6, <1>8 DEF IInv

\* What the transaction made is removed piece by piece.
LEMMA RemoveKeeps ==
    ASSUME NEW p \in Procs, Remove(p), IInv
    PROVE  IInv'
<1>0. /\ GuardIsHeld /\ TypeOK /\ Knows(p) /\ hand[p].id \in Ids
      /\ \A q \in Procs \ {p} : At(q, "idle")
  BY GuardAlone DEF Remove, IInv, Knows, At
<1>1. TypeOK'
  <2>1. pc' \in [Procs -> Steps]
    BY <1>0 DEF Remove, TypeOK, Goto, Return, At, Steps, Building, Settling, RollingBack
  <2>2. /\ hand' \in [Procs -> [id : Ids \cup {None}, next : Interpreters \cup {None}]]
        /\ guard' \in Procs \cup {None}
    BY <1>0 DEF Remove, TypeOK, Goto, Return, EmptyHand
  <2>3. /\ current' \in Directory \cup {None}
        /\ backup' \in [Ids -> Directory \cup {None}]
        /\ staging' \in [Ids -> Directory \cup {None}]
    <3>1. current \in Directory
      BY <1>0, PartsType DEF Remove, Knows, At
    <3>2. current' \in Directory \cup {None}
      <4>1. /\ [current EXCEPT !.token = None] \in Directory
            /\ [current EXCEPT !.owner = None] \in Directory
            /\ \A left \in {"none", "part"} : [current EXCEPT !.packages = left] \in Directory
        BY <3>1, DirectoryType
      <4> QED BY <4>1 DEF Remove
    <3> QED BY <1>0, <3>2 DEF Remove, TypeOK
  <2>4. journal' \in [Ids -> Journal \cup {None}]
    BY <1>0, JournalType, PartsType DEF Remove, TypeOK, Knows, At, records, Pending,
       Building, RollingBack
  <2> QED BY <1>0, <2>1, <2>2, <2>3, <2>4 DEF Remove, TypeOK, places, records
<1>2. GuardIsHeld'
  BY <1>0, GuardAlone DEF Remove, GuardIsHeld, At, places, records, Goto, TypeOK, Steps
<1>3. OneTransaction'
  BY <1>0 DEF Remove, IInv, OneTransaction, Pending, places, records, Goto, Knows, At,
     TypeOK, Journal, Building, RollingBack
<1>4. PlacesAreKnown'
  BY <1>0 DEF Remove, IInv, places, records, Goto, TypeOK, PlacesAreKnown, Finished,
     Begun, Undecided, Pending, Knows, At
<1>5. CurrentIsKnown'
  BY <1>0 DEF Remove, IInv, places, records, Goto, TypeOK, Journal, Directory,
     PlacesAreKnown, OneTransaction, CurrentIsKnown, WorkersAreKnown, Untouched,
     UnderWay, Finished, Begun, Busy, Undecided, Pending, Knows, At, Building,
     RollingBack
<1>6. WorkersAreKnown'
  BY <1>0 DEF Remove, IInv, places, records, Goto, TypeOK, WorkersAreKnown,
     OneTransaction, UnderWay, Begun, Undecided, Pending, Knows, At
<1>7. Knows(p)'
  BY <1>0 DEF Remove, IInv, places, records, Goto, TypeOK, Journal, Directory,
     PlacesAreKnown, OneTransaction, CurrentIsKnown, WorkersAreKnown, Untouched,
     UnderWay, Finished, Begun, Busy, Undecided, Pending, Knows, At, Building,
     RollingBack
<1>8. ASSUME NEW q \in Procs PROVE Knows(q)'
  <2>1. CASE q = p
    BY <1>7, <2>1
  <2>2. CASE q # p
    <3>1. At(q, "idle")'
      BY <1>0, <2>2 DEF Remove, places, records, Goto, At, TypeOK
    <3> QED BY <3>1, IdleKnows
  <2> QED BY <2>1, <2>2
<1> QED BY <1>1, <1>2, <1>3, <1>4, <1>5, <1>6, <1>8 DEF IInv

\* The old environment comes back to an empty place.
LEMMA RestoreKeeps ==
    ASSUME NEW p \in Procs, Restore(p), IInv
    PROVE  IInv'
<1>0. /\ GuardIsHeld /\ TypeOK /\ Knows(p) /\ hand[p].id \in Ids
      /\ \A q \in Procs \ {p} : At(q, "idle")
  BY GuardAlone DEF Restore, IInv, Knows, At
<1>1. TypeOK'
  <2>1. pc' \in [Procs -> Steps]
    BY <1>0 DEF Restore, TypeOK, Goto, Return, At, Steps, Building, Settling,
       RollingBack
  <2>2. /\ hand' \in [Procs -> [id : Ids \cup {None}, next : Interpreters \cup {None}]]
        /\ guard' \in Procs \cup {None}
    BY <1>0 DEF Restore, TypeOK, Goto, Return, EmptyHand
  <2>3. /\ current' \in Directory \cup {None}
        /\ backup' \in [Ids -> Directory \cup {None}]
        /\ staging' \in [Ids -> Directory \cup {None}]
    BY <1>0, PartsType DEF Restore, TypeOK
  <2>4. journal' \in [Ids -> Journal \cup {None}]
    BY <1>0, JournalType, PartsType DEF Restore, TypeOK, Knows, At, records, Pending,
       Building, RollingBack
  <2> QED BY <1>0, <2>1, <2>2, <2>3, <2>4 DEF Restore, TypeOK, places, records
<1>2. GuardIsHeld'
  BY <1>0, GuardAlone DEF Restore, GuardIsHeld, At, places, records, Goto, TypeOK, Steps
<1>3. OneTransaction'
  BY <1>0 DEF Restore, IInv, OneTransaction, Pending, places, records, Goto, Knows, At,
     TypeOK, Journal, Building, RollingBack
<1>4. PlacesAreKnown'
  BY <1>0 DEF Restore, IInv, places, records, Goto, TypeOK, PlacesAreKnown, Finished,
     Begun, Undecided, Pending, Knows, At
<1>5. CurrentIsKnown'
  BY <1>0 DEF Restore, IInv, places, records, Goto, TypeOK, Journal, Directory,
     PlacesAreKnown, OneTransaction, CurrentIsKnown, WorkersAreKnown, Untouched,
     UnderWay, Finished, Begun, Busy, Undecided, Pending, Knows, At, Building,
     RollingBack
<1>6. WorkersAreKnown'
  BY <1>0 DEF Restore, IInv, places, records, Goto, TypeOK, WorkersAreKnown,
     OneTransaction, UnderWay, Begun, Undecided, Pending, Knows, At
<1>7. Knows(p)'
  BY <1>0 DEF Restore, IInv, places, records, Goto, TypeOK, Journal, Directory,
     PlacesAreKnown, OneTransaction, CurrentIsKnown, WorkersAreKnown, Untouched,
     UnderWay, Finished, Begun, Busy, Undecided, Pending, Knows, At, Building,
     RollingBack
<1>8. ASSUME NEW q \in Procs PROVE Knows(q)'
  <2>1. CASE q = p
    BY <1>7, <2>1
  <2>2. CASE q # p
    <3>1. At(q, "idle")'
      BY <1>0, <2>2 DEF Restore, places, records, Goto, At, TypeOK
    <3> QED BY <3>1, IdleKnows
  <2> QED BY <2>1, <2>2
<1> QED BY <1>1, <1>2, <1>3, <1>4, <1>5, <1>6, <1>8 DEF IInv

\* What was not published is removed.
LEMMA DropStagingKeeps ==
    ASSUME NEW p \in Procs, DropStaging(p), IInv
    PROVE  IInv'
<1>0. /\ GuardIsHeld /\ TypeOK /\ Knows(p) /\ hand[p].id \in Ids
      /\ \A q \in Procs \ {p} : At(q, "idle")
  BY GuardAlone DEF DropStaging, IInv, Knows, At
<1>a. /\ staging' \in [Ids -> Directory \cup {None}]
      /\ \A id \in Ids : staging'[id] # None =>
            staging'[id].made = id /\ staging'[id].token \in {None, id}
  <2> DEFINE id == hand[p].id
             untold == [staging[id] EXCEPT !.token = None]
  <2>1. \A i \in Ids : staging[i] # None =>
            staging[i].made = i /\ staging[i].token \in {None, i}
    BY DEF IInv, PlacesAreKnown
  <2>2. \/ staging[id] # None /\ staging' = [staging EXCEPT ![id] = untold]
        \/ staging' = [staging EXCEPT ![id] = None]
    BY DEF DropStaging
  <2>3. staging[id] # None => untold \in Directory /\ untold.made = id /\ untold.token = None
    <3>1. staging[id] # None => staging[id] \in Directory /\ staging[id].made = id
      BY <1>0, <2>1 DEF TypeOK
    <3> QED BY <3>1 DEF Directory
  <2> HIDE DEF untold
  <2> QED BY <1>0, <2>1, <2>2, <2>3 DEF TypeOK
<1>1. TypeOK'
  <2>1. pc' \in [Procs -> Steps]
    BY <1>0 DEF DropStaging, TypeOK, Goto, Return, At, Steps, Building, Settling,
       RollingBack
  <2>2. /\ hand' \in [Procs -> [id : Ids \cup {None}, next : Interpreters \cup {None}]]
        /\ guard' \in Procs \cup {None}
    BY <1>0 DEF DropStaging, TypeOK, Goto, Return, EmptyHand
  <2>3. /\ current' \in Directory \cup {None}
        /\ backup' \in [Ids -> Directory \cup {None}]
        /\ staging' \in [Ids -> Directory \cup {None}]
    BY <1>0, <1>a DEF DropStaging, TypeOK
  <2>4. journal' \in [Ids -> Journal \cup {None}]
    BY <1>0, JournalType, PartsType DEF DropStaging, TypeOK, Knows, At, records,
       Pending, Building, RollingBack
  <2> QED BY <1>0, <2>1, <2>2, <2>3, <2>4 DEF DropStaging, TypeOK, places, records
<1>2. GuardIsHeld'
  BY <1>0, GuardAlone DEF DropStaging, GuardIsHeld, At, places, records, Goto, TypeOK,
     Steps
<1>3. OneTransaction'
  BY <1>0 DEF DropStaging, IInv, OneTransaction, Pending, places, records, Goto, Knows,
     At, TypeOK, Journal, Building, RollingBack
<1>4. PlacesAreKnown'
  BY <1>0, <1>a DEF DropStaging, IInv, places, records, Goto, PlacesAreKnown,
     Finished, Begun, Undecided, Pending, Knows, At
<1>5. CurrentIsKnown'
  BY <1>0 DEF DropStaging, IInv, places, records, Goto, TypeOK, CurrentIsKnown,
     OneTransaction, Untouched, UnderWay, Finished, Begun, Undecided, Pending, Knows, At
<1>6. WorkersAreKnown'
  BY <1>0 DEF DropStaging, IInv, places, records, Goto, TypeOK, WorkersAreKnown,
     OneTransaction, UnderWay, Begun, Undecided, Pending, Knows, At
<1>7. Knows(p)'
  BY <1>0 DEF DropStaging, IInv, places, records, Goto, TypeOK, OneTransaction,
     Untouched, UnderWay, Finished, Begun, Busy, Undecided, Pending, Knows, At,
     Building, RollingBack
<1>8. ASSUME NEW q \in Procs PROVE Knows(q)'
  <2>1. CASE q = p
    BY <1>7, <2>1
  <2>2. CASE q # p
    <3>1. At(q, "idle")'
      BY <1>0, <2>2 DEF DropStaging, places, records, Goto, At, TypeOK
    <3> QED BY <3>1, IdleKnows
  <2> QED BY <2>1, <2>2
<1> QED BY <1>1, <1>2, <1>3, <1>4, <1>5, <1>6, <1>8 DEF IInv

\* The journal says that the rollback is over.
LEMMA WriteRolledBackKeeps ==
    ASSUME NEW p \in Procs, WriteRolledBack(p), IInv
    PROVE  IInv'
<1>0. /\ GuardIsHeld /\ TypeOK /\ Knows(p) /\ hand[p].id \in Ids
      /\ \A q \in Procs \ {p} : At(q, "idle")
  BY GuardAlone DEF WriteRolledBack, IInv, Knows, At
<1>1. TypeOK'
  <2>1. pc' \in [Procs -> Steps]
    BY <1>0 DEF WriteRolledBack, TypeOK, Goto, Return, At, Steps, Building, Settling,
       RollingBack
  <2>2. /\ hand' \in [Procs -> [id : Ids \cup {None}, next : Interpreters \cup {None}]]
        /\ guard' \in Procs \cup {None}
    BY <1>0 DEF WriteRolledBack, TypeOK, Goto, Return, EmptyHand
  <2>3. /\ current' \in Directory \cup {None}
        /\ backup' \in [Ids -> Directory \cup {None}]
        /\ staging' \in [Ids -> Directory \cup {None}]
    BY <1>0, DirectoryType, PartsType DEF WriteRolledBack, TypeOK, Knows, At, places,
       Building, RollingBack
  <2>4. journal' \in [Ids -> Journal \cup {None}]
    BY <1>0, JournalType, PartsType DEF WriteRolledBack, TypeOK, Knows, At, records,
       Pending, Building, RollingBack
  <2> QED BY <1>0, <2>1, <2>2, <2>3, <2>4 DEF WriteRolledBack, TypeOK, places, records
<1>2. GuardIsHeld'
  BY <1>0, GuardAlone DEF WriteRolledBack, GuardIsHeld, At, places, records, Goto,
     TypeOK, Steps
<1>3. OneTransaction'
  BY <1>0 DEF WriteRolledBack, IInv, OneTransaction, Pending, places, records, Goto,
     Knows, At, TypeOK, Journal, Building, RollingBack
<1>4. PlacesAreKnown'
  BY <1>0 DEF WriteRolledBack, IInv, places, records, Goto, TypeOK, Journal, Directory,
     PlacesAreKnown, OneTransaction, CurrentIsKnown, WorkersAreKnown, Untouched,
     UnderWay, Finished, Begun, Busy, Undecided, Pending, Knows, At, Building,
     RollingBack
<1>5. CurrentIsKnown'
  BY <1>0 DEF WriteRolledBack, IInv, places, records, Goto, TypeOK, Journal, Directory,
     PlacesAreKnown, OneTransaction, CurrentIsKnown, WorkersAreKnown, Untouched,
     UnderWay, Finished, Begun, Busy, Undecided, Pending, Knows, At, Building,
     RollingBack
<1>6. WorkersAreKnown'
  BY <1>0 DEF WriteRolledBack, IInv, places, records, Goto, TypeOK, WorkersAreKnown,
     OneTransaction, UnderWay, Begun, Undecided, Pending, Knows, At
<1>7. Knows(p)'
  BY <1>0 DEF WriteRolledBack, IInv, places, records, Goto, TypeOK, Journal, Directory,
     PlacesAreKnown, OneTransaction, CurrentIsKnown, WorkersAreKnown, Untouched,
     UnderWay, Finished, Begun, Busy, Undecided, Pending, Knows, At, Building,
     RollingBack
<1>8. ASSUME NEW q \in Procs PROVE Knows(q)'
  <2>1. CASE q = p
    BY <1>7, <2>1
  <2>2. CASE q # p
    <3>1. At(q, "idle")'
      BY <1>0, <2>2 DEF WriteRolledBack, places, records, Goto, At, TypeOK
    <3> QED BY <3>1, IdleKnows
  <2> QED BY <2>1, <2>2
<1> QED BY <1>1, <1>2, <1>3, <1>4, <1>5, <1>6, <1>8 DEF IInv

\* Self repair takes the lock and one journal.
LEMMA RepairKeeps ==
    ASSUME NEW p \in Procs, Repair(p), IInv
    PROVE  IInv'
<1>0. /\ GuardIsHeld /\ TypeOK /\ At(p, "idle") /\ guard = None
      /\ \A q \in Procs : At(q, "idle")
  BY DEF Repair, IInv, GuardIsHeld
<1>1. TypeOK'
  <2>1. pc' \in [Procs -> Steps]
    BY <1>0 DEF Repair, TypeOK, Goto, Return, At, Steps, Building, Settling, RollingBack
  <2>2. /\ hand' \in [Procs -> [id : Ids \cup {None}, next : Interpreters \cup {None}]]
        /\ guard' \in Procs \cup {None}
    BY <1>0 DEF Repair, TypeOK, Goto, Pending
  <2>3. /\ current' \in Directory \cup {None}
        /\ backup' \in [Ids -> Directory \cup {None}]
        /\ staging' \in [Ids -> Directory \cup {None}]
    BY <1>0, DirectoryType, PartsType DEF Repair, TypeOK, Knows, At, places, Building,
       RollingBack
  <2>4. journal' \in [Ids -> Journal \cup {None}]
    BY <1>0, JournalType, PartsType DEF Repair, TypeOK, Knows, At, records, Pending,
       Building, RollingBack
  <2> QED BY <1>0, <2>1, <2>2, <2>3, <2>4 DEF Repair, TypeOK, places, records
<1>2. GuardIsHeld'
  BY <1>0, GuardAlone DEF Repair, GuardIsHeld, At, places, records, Goto, TypeOK, Steps
<1>3. OneTransaction'
  BY <1>0 DEF Repair, IInv, OneTransaction, Pending, places, records, Goto, Knows, At,
     TypeOK, Journal, Building, RollingBack
<1>4. PlacesAreKnown'
  BY <1>0 DEF Repair, IInv, places, records, Goto, TypeOK, PlacesAreKnown, Finished,
     Begun, Undecided, Pending, Knows, At
<1>5. CurrentIsKnown'
  BY <1>0 DEF Repair, IInv, places, records, Goto, TypeOK, CurrentIsKnown,
     OneTransaction, Untouched, UnderWay, Finished, Begun, Undecided, Pending, Knows, At
<1>6. WorkersAreKnown'
  BY <1>0 DEF Repair, IInv, places, records, Goto, TypeOK, WorkersAreKnown,
     OneTransaction, UnderWay, Begun, Undecided, Pending, Knows, At
<1>7. Knows(p)'
  BY <1>0 DEF Repair, IInv, places, records, Goto, TypeOK, OneTransaction, Untouched,
     UnderWay, Finished, Begun, Busy, Undecided, Pending, Knows, At, Building,
     RollingBack
<1>8. ASSUME NEW q \in Procs PROVE Knows(q)'
  <2>1. CASE q = p
    BY <1>7, <2>1
  <2>2. CASE q # p
    <3>1. At(q, "idle")'
      BY <1>0, <2>2 DEF Repair, places, records, Goto, At, TypeOK
    <3> QED BY <3>1, IdleKnows
  <2> QED BY <2>1, <2>2
<1> QED BY <1>1, <1>2, <1>3, <1>4, <1>5, <1>6, <1>8 DEF IInv

\* It waits for a worker, completes a commit or rolls back.
LEMMA RecoverKeeps ==
    ASSUME NEW p \in Procs, Recover(p), IInv
    PROVE  IInv'
<1>0. /\ GuardIsHeld /\ TypeOK /\ Knows(p) /\ hand[p].id \in Ids
      /\ \A q \in Procs \ {p} : At(q, "idle")
  BY GuardAlone DEF Recover, IInv, Knows, At
<1>1. TypeOK'
  <2>1. pc' \in [Procs -> Steps]
    BY <1>0 DEF Recover, TypeOK, Goto, Return, At, Steps, Building, Settling,
       RollingBack
  <2>2. /\ hand' \in [Procs -> [id : Ids \cup {None}, next : Interpreters \cup {None}]]
        /\ guard' \in Procs \cup {None}
    BY <1>0 DEF Recover, TypeOK, Goto, Return, EmptyHand
  <2>3. /\ current' \in Directory \cup {None}
        /\ backup' \in [Ids -> Directory \cup {None}]
        /\ staging' \in [Ids -> Directory \cup {None}]
    BY <1>0, DirectoryType, PartsType DEF Recover, TypeOK, Knows, At, places, Building,
       RollingBack
  <2>4. journal' \in [Ids -> Journal \cup {None}]
    BY <1>0, JournalType, PartsType DEF Recover, TypeOK, Knows, At, records, Pending,
       Building, RollingBack
  <2> QED BY <1>0, <2>1, <2>2, <2>3, <2>4 DEF Recover, TypeOK, places, records
<1>2. GuardIsHeld'
  BY <1>0, GuardAlone DEF Recover, GuardIsHeld, At, places, records, Goto, Return,
     EmptyHand, TypeOK, Steps
<1>3. OneTransaction'
  BY <1>0 DEF Recover, IInv, OneTransaction, Pending, places, records, Goto, Return,
     EmptyHand, Knows, At, TypeOK, Journal, Building, RollingBack
<1>4. PlacesAreKnown'
  BY <1>0 DEF Recover, IInv, places, records, Goto, Return, EmptyHand, TypeOK,
     PlacesAreKnown, Finished, Begun, Undecided, Pending, Knows, At
<1>5. CurrentIsKnown'
  BY <1>0 DEF Recover, IInv, places, records, Goto, Return, EmptyHand, TypeOK,
     CurrentIsKnown, OneTransaction, Untouched, UnderWay, Finished, Begun, Undecided,
     Pending, Knows, At
<1>6. WorkersAreKnown'
  BY <1>0 DEF Recover, IInv, places, records, Goto, Return, EmptyHand, TypeOK,
     WorkersAreKnown, OneTransaction, UnderWay, Begun, Undecided, Pending, Knows, At
<1>7. Knows(p)'
  BY <1>0 DEF Recover, IInv, places, records, Goto, Return, EmptyHand, TypeOK, Journal,
     Directory, PlacesAreKnown, OneTransaction, CurrentIsKnown, WorkersAreKnown,
     Untouched, UnderWay, Finished, Begun, Busy, Undecided, Pending, Knows, At,
     Building, RollingBack
<1>8. ASSUME NEW q \in Procs PROVE Knows(q)'
  <2>1. CASE q = p
    BY <1>7, <2>1
  <2>2. CASE q # p
    <3>1. At(q, "idle")'
      BY <1>0, <2>2 DEF Recover, places, records, Goto, Return, EmptyHand, At, TypeOK
    <3> QED BY <3>1, IdleKnows
  <2> QED BY <2>1, <2>2
<1> QED BY <1>1, <1>2, <1>3, <1>4, <1>5, <1>6, <1>8 DEF IInv

\* An error while building kills the worker; any other one ends the command.
LEMMA FailsKeeps ==
    ASSUME NEW p \in Procs, Fails(p), IInv
    PROVE  IInv'
<1>0. /\ GuardIsHeld /\ TypeOK /\ Knows(p) /\ hand[p].id \in Ids
      /\ \A q \in Procs \ {p} : At(q, "idle")
  BY GuardAlone DEF Fails, IInv, Knows, At
<1>1. TypeOK'
  <2>1. pc' \in [Procs -> Steps]
    BY <1>0 DEF Fails, TypeOK, Goto, Return, At, Steps, Building, Settling, RollingBack
  <2>2. /\ hand' \in [Procs -> [id : Ids \cup {None}, next : Interpreters \cup {None}]]
        /\ guard' \in Procs \cup {None}
    BY <1>0 DEF Fails, TypeOK, Goto, Return, EmptyHand
  <2>3. /\ current' \in Directory \cup {None}
        /\ backup' \in [Ids -> Directory \cup {None}]
        /\ staging' \in [Ids -> Directory \cup {None}]
    BY <1>0, DirectoryType, PartsType DEF Fails, TypeOK, Knows, At, places, Building,
       RollingBack
  <2>4. journal' \in [Ids -> Journal \cup {None}]
    BY <1>0, JournalType, PartsType DEF Fails, TypeOK, Knows, At, records, Pending,
       Building, RollingBack
  <2> QED BY <1>0, <2>1, <2>2, <2>3, <2>4 DEF Fails, TypeOK, places, records
<1>2. GuardIsHeld'
  BY <1>0, GuardAlone DEF Fails, GuardIsHeld, At, places, records, Goto, Return,
     EmptyHand, TypeOK, Steps
<1>3. OneTransaction'
  BY <1>0 DEF Fails, IInv, OneTransaction, Pending, places, records, Goto, Return,
     EmptyHand, Knows, At, TypeOK, Journal, Building, RollingBack
<1>4. PlacesAreKnown'
  BY <1>0 DEF Fails, IInv, places, records, Goto, Return, EmptyHand, TypeOK,
     PlacesAreKnown, Finished, Begun, Undecided, Pending, Knows, At
<1>5. CurrentIsKnown'
  BY <1>0 DEF Fails, IInv, places, records, Goto, Return, EmptyHand, TypeOK,
     CurrentIsKnown, OneTransaction, Untouched, UnderWay, Finished, Begun, Undecided,
     Pending, Knows, At
<1>6. WorkersAreKnown'
  BY <1>0 DEF Fails, IInv, places, records, Goto, Return, EmptyHand, TypeOK, Journal,
     Directory, PlacesAreKnown, OneTransaction, CurrentIsKnown, WorkersAreKnown,
     Untouched, UnderWay, Finished, Begun, Busy, Undecided, Pending, Knows, At,
     Building, RollingBack
<1>7. Knows(p)'
  BY <1>0 DEF Fails, IInv, places, records, Goto, Return, EmptyHand, TypeOK,
     OneTransaction, Untouched, UnderWay, Finished, Begun, Busy, Undecided, Pending,
     Knows, At, Building, RollingBack
<1>8. ASSUME NEW q \in Procs PROVE Knows(q)'
  <2>1. CASE q = p
    BY <1>7, <2>1
  <2>2. CASE q # p
    <3>1. At(q, "idle")'
      BY <1>0, <2>2 DEF Fails, places, records, Goto, Return, EmptyHand, At, TypeOK
    <3> QED BY <3>1, IdleKnows
  <2> QED BY <2>1, <2>2
<1> QED BY <1>1, <1>2, <1>3, <1>4, <1>5, <1>6, <1>8 DEF IInv

\* Nothing in memory outlives a killed command but its worker.
LEMMA DieKeeps ==
    ASSUME NEW p \in Procs, Die(p), IInv
    PROVE  IInv'
<1>0. /\ GuardIsHeld /\ TypeOK /\ Knows(p) /\ hand[p].id \in Ids
      /\ \A q \in Procs \ {p} : At(q, "idle")
  BY GuardAlone DEF Die, IInv, Knows, At
<1>1. TypeOK'
  <2>1. pc' \in [Procs -> Steps]
    BY <1>0 DEF Die, TypeOK, Goto, Return, At, Steps, Building, Settling, RollingBack
  <2>2. /\ hand' \in [Procs -> [id : Ids \cup {None}, next : Interpreters \cup {None}]]
        /\ guard' \in Procs \cup {None}
    BY <1>0 DEF Die, TypeOK, Goto, Return, EmptyHand
  <2>3. /\ current' \in Directory \cup {None}
        /\ backup' \in [Ids -> Directory \cup {None}]
        /\ staging' \in [Ids -> Directory \cup {None}]
    BY <1>0, DirectoryType, PartsType DEF Die, TypeOK, Knows, At, places, Building,
       RollingBack
  <2>4. journal' \in [Ids -> Journal \cup {None}]
    BY <1>0, JournalType, PartsType DEF Die, TypeOK, Knows, At, records, Pending,
       Building, RollingBack
  <2> QED BY <1>0, <2>1, <2>2, <2>3, <2>4 DEF Die, TypeOK, places, records
<1>2. GuardIsHeld'
  BY <1>0, GuardAlone DEF Die, GuardIsHeld, At, places, records, Goto, Return,
     EmptyHand, TypeOK, Steps
<1>3. OneTransaction'
  BY <1>0 DEF Die, IInv, OneTransaction, Pending, places, records, Goto, Return,
     EmptyHand, Knows, At, TypeOK, Journal, Building, RollingBack
<1>4. PlacesAreKnown'
  BY <1>0 DEF Die, IInv, places, records, Goto, Return, EmptyHand, TypeOK,
     PlacesAreKnown, Finished, Begun, Undecided, Pending, Knows, At
<1>5. CurrentIsKnown'
  BY <1>0 DEF Die, IInv, places, records, Goto, Return, EmptyHand, TypeOK,
     CurrentIsKnown, OneTransaction, Untouched, UnderWay, Finished, Begun, Undecided,
     Pending, Knows, At
<1>6. WorkersAreKnown'
  BY <1>0 DEF Die, IInv, places, records, Goto, Return, EmptyHand, TypeOK,
     WorkersAreKnown, OneTransaction, UnderWay, Begun, Undecided, Pending, Knows, At
<1>7. Knows(p)'
  BY <1>0 DEF Die, IInv, places, records, Goto, Return, EmptyHand, TypeOK,
     OneTransaction, Untouched, UnderWay, Finished, Begun, Busy, Undecided, Pending,
     Knows, At, Building, RollingBack
<1>8. ASSUME NEW q \in Procs PROVE Knows(q)'
  <2>1. CASE q = p
    BY <1>7, <2>1
  <2>2. CASE q # p
    <3>1. At(q, "idle")'
      BY <1>0, <2>2 DEF Die, places, records, Goto, Return, EmptyHand, At, TypeOK
    <3> QED BY <3>1, IdleKnows
  <2> QED BY <2>1, <2>2
<1> QED BY <1>1, <1>2, <1>3, <1>4, <1>5, <1>6, <1>8 DEF IInv

\* A worker writes to the directory made for it.
LEMMA WorkerWritesKeeps ==
    ASSUME NEW id \in Ids, WorkerWrites(id), IInv
    PROVE  IInv'
<1>1. TypeOK'
  BY DirectoryType, PartsType DEF WorkerWrites, IInv, TypeOK, places, records,
     Directory, Whole, Users
<1>2. GuardIsHeld'
  BY DEF WorkerWrites, IInv, GuardIsHeld, At
<1>3. OneTransaction'
  BY DEF WorkerWrites, IInv, OneTransaction, Pending, records
<1>4. PlacesAreKnown'
  BY DEF WorkerWrites, IInv, places, records, TypeOK, Journal, Directory,
     PlacesAreKnown, OneTransaction, CurrentIsKnown, WorkersAreKnown, Untouched,
     UnderWay, Finished, Begun, Busy, Undecided, Pending, Knows, At, Building,
     RollingBack
<1>5. CurrentIsKnown'
  BY DEF WorkerWrites, IInv, places, records, TypeOK, Journal, Directory,
     PlacesAreKnown, OneTransaction, CurrentIsKnown, WorkersAreKnown, Untouched,
     UnderWay, Finished, Begun, Busy, Undecided, Pending, Knows, At, Building,
     RollingBack, Whole, Users
<1>6. WorkersAreKnown'
  BY DEF WorkerWrites, IInv, places, records, TypeOK, Journal, Directory,
     PlacesAreKnown, OneTransaction, CurrentIsKnown, WorkersAreKnown, Untouched,
     UnderWay, Finished, Begun, Busy, Undecided, Pending, Knows, At, Building,
     RollingBack
<1>7. ASSUME NEW p \in Procs PROVE Knows(p)'
  BY <1>5 DEF WorkerWrites, IInv, places, records, TypeOK, Journal, Directory,
     PlacesAreKnown, OneTransaction, CurrentIsKnown, WorkersAreKnown, Untouched,
     UnderWay, Finished, Begun, Busy, Undecided, Pending, Knows, At, Building,
     RollingBack, Whole, Users
<1> QED BY <1>1, <1>2, <1>3, <1>4, <1>5, <1>6, <1>7 DEF IInv

\* And completes it or fails.
LEMMA WorkerEndsKeeps ==
    ASSUME NEW id \in Ids, WorkerEnds(id), IInv
    PROVE  IInv'
<1>1. TypeOK'
  <2>1. current # None => [current EXCEPT !.packages = "whole"] \in Directory
    BY DirectoryType, PartsType DEF IInv
  <2>2. current' \in Directory \cup {None}
    BY <2>1 DEF WorkerEnds, IInv, TypeOK
  <2>3. worker' \in [Ids -> {"none", "waiting", "building", "done", "failed"}]
    BY DEF WorkerEnds, IInv, TypeOK
  <2> QED BY <2>2, <2>3 DEF WorkerEnds, IInv, TypeOK, records
<1>2. GuardIsHeld'
  BY DEF WorkerEnds, IInv, GuardIsHeld, At
<1>3. OneTransaction'
  BY DEF WorkerEnds, IInv, OneTransaction, Pending, records
<1>4. PlacesAreKnown'
  BY DEF WorkerEnds, IInv, places, records, TypeOK, Journal, Directory, PlacesAreKnown,
     OneTransaction, CurrentIsKnown, WorkersAreKnown, Untouched, UnderWay, Finished,
     Begun, Busy, Undecided, Pending, Knows, At, Building, RollingBack
<1>5. CurrentIsKnown'
  BY DEF WorkerEnds, IInv, places, records, TypeOK, Journal, Directory, PlacesAreKnown,
     OneTransaction, CurrentIsKnown, WorkersAreKnown, Untouched, UnderWay, Finished,
     Begun, Busy, Undecided, Pending, Knows, At, Building, RollingBack, Whole, Users
<1>6. WorkersAreKnown'
  BY DEF WorkerEnds, IInv, places, records, TypeOK, Journal, Directory, PlacesAreKnown,
     OneTransaction, CurrentIsKnown, WorkersAreKnown, Untouched, UnderWay, Finished,
     Begun, Busy, Undecided, Pending, Knows, At, Building, RollingBack
<1>7. ASSUME NEW p \in Procs PROVE Knows(p)'
  BY <1>5 DEF WorkerEnds, IInv, places, records, TypeOK, Journal, Directory,
     PlacesAreKnown, OneTransaction, CurrentIsKnown, WorkersAreKnown, Untouched,
     UnderWay, Finished, Begun, Busy, Undecided, Pending, Knows, At, Building,
     RollingBack, Whole, Users
<1> QED BY <1>1, <1>2, <1>3, <1>4, <1>5, <1>6, <1>7 DEF IInv

\* The user changes .venv while nothing works on it.
LEMMA UserReplacesKeeps ==
    ASSUME UserReplaces, IInv
    PROVE  IInv'
<1>1. TypeOK'
  <2>1. Users \in Directory
    BY DEF Users, Whole, Directory
  <2>2. users' \in 0 .. MaxUsers
    BY DEF UserReplaces, IInv, TypeOK
  <2> QED BY <2>1, <2>2 DEF UserReplaces, IInv, TypeOK, records
<1>2. GuardIsHeld'
  BY DEF UserReplaces, IInv, GuardIsHeld, At
<1>3. OneTransaction'
  BY DEF UserReplaces, IInv, OneTransaction, Pending, records
<1>4. PlacesAreKnown'
  BY DEF UserReplaces, IInv, places, records, TypeOK, Journal, Directory,
     PlacesAreKnown, OneTransaction, CurrentIsKnown, WorkersAreKnown, Untouched,
     UnderWay, Finished, Begun, Busy, Undecided, Pending, Knows, At, Building,
     RollingBack
<1>5. CurrentIsKnown'
  BY DEF UserReplaces, IInv, places, records, TypeOK, Journal, Directory,
     PlacesAreKnown, OneTransaction, CurrentIsKnown, WorkersAreKnown, Untouched,
     UnderWay, Finished, Begun, Busy, Undecided, Pending, Knows, At, Building,
     RollingBack, Whole, Users
<1>6. WorkersAreKnown'
  BY DEF UserReplaces, IInv, places, records, TypeOK, Journal, Directory,
     PlacesAreKnown, OneTransaction, CurrentIsKnown, WorkersAreKnown, Untouched,
     UnderWay, Finished, Begun, Busy, Undecided, Pending, Knows, At, Building,
     RollingBack
<1>7. ASSUME NEW p \in Procs PROVE Knows(p)'
  <2>1. At(p, "idle")'
    BY DEF UserReplaces, IInv, GuardIsHeld, At
  <2> QED BY <2>1, IdleKnows
<1> QED BY <1>1, <1>2, <1>3, <1>4, <1>5, <1>6, <1>7 DEF IInv

LEMMA NextInv == IInv /\ [Next]_vars => IInv'
<1> SUFFICES ASSUME IInv, [Next]_vars PROVE IInv'
  OBVIOUS
<1>1. CASE UNCHANGED vars
  BY <1>1 DEF vars, places, records, IInv, TypeOK, GuardIsHeld, OneTransaction,
     PlacesAreKnown, CurrentIsKnown, WorkersAreKnown, Untouched, UnderWay, Finished,
     Begun, Busy, Undecided, Pending, Knows, At
<1>2. ASSUME NEW p \in Procs, Creating(p) PROVE IInv'
  BY <1>2, CreateKeeps, WriteJournalKeeps, WritePendingKeeps, MoveAwayKeeps,
     PublishKeeps,
     WriteCreatingKeeps, SpawnKeeps, RecordWorkerKeeps, ReleaseKeeps, WaitKeeps,
     WriteOwnerKeeps, ValidateKeeps, CommitKeeps, DropTokenKeeps, ClearMarkerKeeps,
     ClearJournalKeeps DEF Creating
<1>3. ASSUME NEW p \in Procs, Recovering(p) PROVE IInv'
  BY <1>3, RepairKeeps, RecoverKeeps, CheckKeeps, RemoveKeeps, RestoreKeeps,
     DropStagingKeeps, WriteRolledBackKeeps DEF Recovering
<1>4. ASSUME NEW p \in Procs, Fails(p) \/ Die(p) PROVE IInv'
  BY <1>4, FailsKeeps, DieKeeps
<1>5. ASSUME NEW id \in Ids, WorkerWrites(id) \/ WorkerEnds(id) PROVE IInv'
  BY <1>5, WorkerWritesKeeps, WorkerEndsKeeps
<1> QED BY <1>1, <1>2, <1>3, <1>4, <1>5, UserReplacesKeeps DEF Next

\* What each step of a command may rely on, however it is interrupted.
THEOREM VenvInvariantHolds == Spec => []IInv
  BY InitInv, NextInv, PTL DEF Spec

\* What a route finds in .venv while there is no marker is a finished
\* environment, never one that a transaction or a recovery left half-made.
THEOREM RoutesFindWhole == Spec => []UsableIsWhole
<1>1. IInv => UsableIsWhole
  BY DEF IInv, UsableIsWhole, CurrentIsKnown, Untouched, Finished, UnderWay,
     OneTransaction, Pending, TypeOK
<1> QED BY <1>1, VenvInvariantHolds, PTL

\* Nothing takes the directory away that a worker writes to, so it never writes
\* to the environment that was there before, or to one of the user's.
THEOREM WorkersAreConfined == Spec => []WorkersKeepToTheirOwn
<1>1. IInv => WorkersKeepToTheirOwn
  BY DEF IInv, WorkersKeepToTheirOwn, WorkersAreKnown, UnderWay
<1> QED BY <1>1, VenvInvariantHolds, PTL

-----------------------------------------------------------------------------
(* Nothing finished is lost.                                               *)

\* What is kept was made by a transaction that has begun, if by any.
LEMMA KeptHasBegun ==
    ASSUME IInv, NEW made \in Ids \cup {"before", "user"}, Kept(made)
    PROVE  Begun(made)
  BY DEF IInv, Kept, PlacesAreKnown, CurrentIsKnown, Untouched, UnderWay, Undecided

\* A transaction that is not decided is the only one, and what it makes is not
\* kept.
LEMMA UndecidedIsAlone ==
    ASSUME IInv, NEW id \in Undecided, current # None
    PROVE  Untouched \/ current.made = id
  BY DEF IInv, CurrentIsKnown, OneTransaction, UnderWay, Undecided

\* What leaves the directories alone loses nothing, unless it begins a
\* transaction.
LEMMA KeptWithDirectories ==
    ASSUME UNCHANGED <<current, backup>>, Undecided' \subseteq Undecided,
           NEW made, Kept(made)
    PROVE  Kept(made)'
  BY DEF Kept

LEMMA CreatingKeeps ==
    ASSUME IInv, NEW p \in Procs, Creating(p),
           NEW made \in Ids \cup {"before", "user"}, Kept(made)
    PROVE  Kept(made)'
<1>0. TypeOK /\ Knows(p)
  BY DEF IInv
<1>1. CASE \/ Create(p) \/ WritePending(p) \/ Spawn(p) \/ Release(p) \/ Wait(p)
           \/ Validate(p) \/ ClearMarker(p)
  <2>1. UNCHANGED <<current, backup>> /\ Undecided' = Undecided
    BY <1>1 DEF Create, WritePending, Spawn, Release, Wait, Validate, ClearMarker,
       places, records, Undecided, Pending
  <2> QED BY <2>1, KeptWithDirectories
<1>2. CASE WriteJournal(p)
  <2>1. hand[p].id \in Ids /\ worker[hand[p].id] = "none"
    BY <1>0, <1>2 DEF WriteJournal, Knows, At
  <2>2. Undecided' \subseteq Undecided \cup {hand[p].id}
    BY <1>0, <1>2, <2>1 DEF WriteJournal, Undecided, Pending, TypeOK
  <2>3. made # hand[p].id
    BY <2>1, KeptHasBegun DEF Begun
  <2> QED BY <1>2, <2>2, <2>3 DEF WriteJournal, places, Kept
<1>3. CASE MoveAway(p)
  <2>1. hand[p].id \in Ids /\ backup[hand[p].id] = None
    BY <1>0, <1>3 DEF MoveAway, Knows, At
  <2>2. Undecided' = Undecided
    BY <1>3 DEF MoveAway, records, Undecided, Pending
  <2>3. backup'[hand[p].id] = current /\ \A id \in Ids \ {hand[p].id} : backup'[id] = backup[id]
    BY <1>0, <1>3, <2>1 DEF MoveAway, TypeOK
  <2> QED BY <2>1, <2>2, <2>3 DEF Kept
<1>4. CASE Publish(p)
  <2>1. current = None
    BY <1>0, <1>4 DEF Publish, Knows, At
  <2> QED BY <1>4, <2>1 DEF Publish, records, Kept, Undecided, Pending
<1>5. CASE WriteCreating(p) \/ RecordWorker(p) \/ Commit(p) \/ ClearJournal(p)
  <2>1. hand[p].id \in Pending /\ journal[hand[p].id] \in Journal /\ hand[p].id \in Ids
    BY <1>0, <1>5, PartsType DEF WriteCreating, RecordWorker, Commit, ClearJournal,
       Knows, At, Pending
  <2>2. /\ [journal[hand[p].id] EXCEPT !.worker = TRUE].phase = journal[hand[p].id].phase
        /\ [journal[hand[p].id] EXCEPT !.phase = "creating"].phase = "creating"
        /\ [journal[hand[p].id] EXCEPT !.phase = "committed"].phase = "committed"
    BY <2>1 DEF Journal
  <2>3. WriteCreating(p) => journal[hand[p].id].phase = "prepared"
    BY <1>0 DEF WriteCreating, Knows, At
  <2>4. Undecided' \subseteq Undecided
    BY <1>0, <1>5, <2>1, <2>2, <2>3 DEF WriteCreating, RecordWorker, Commit,
       ClearJournal,
       Undecided, Pending, TypeOK
  <2>5. UNCHANGED <<current, backup>>
    BY <1>5 DEF WriteCreating, RecordWorker, Commit, ClearJournal, places
  <2> QED BY <2>4, <2>5, KeptWithDirectories
<1>6. CASE WriteOwner(p) \/ DropToken(p)
  <2>1. current \in Directory /\ (WriteOwner(p) => hand[p].next \in Interpreters)
    BY <1>0, <1>6, PartsType DEF WriteOwner, DropToken, Knows, At, Building
  <2>2. current' # None /\ current'.made = current.made /\ current'.packages = current.packages
    <3>1. CASE WriteOwner(p)
      <4>1. [current EXCEPT !.owner = hand[p].next] \in Directory
        BY <2>1, <3>1, DirectoryType
      <4>2. /\ [current EXCEPT !.owner = hand[p].next].made = current.made
            /\ [current EXCEPT !.owner = hand[p].next].packages = current.packages
        BY <2>1 DEF Directory
      <4> QED BY <3>1, <4>1, <4>2 DEF WriteOwner
    <3>2. CASE DropToken(p)
      BY <2>1, <3>2 DEF DropToken, Directory
    <3> QED BY <1>6, <3>1, <3>2
  <2> QED BY <1>6, <2>2 DEF WriteOwner, DropToken, records, Kept, Undecided, Pending
<1> QED BY <1>1, <1>2, <1>3, <1>4, <1>5, <1>6 DEF Creating

LEMMA RecoveringKeeps ==
    ASSUME IInv, NEW p \in Procs, Recovering(p),
           NEW made \in Ids \cup {"before", "user"}, Kept(made)
    PROVE  Kept(made)'
<1>0. TypeOK /\ Knows(p)
  BY DEF IInv
<1>1. CASE Repair(p) \/ Recover(p) \/ Check(p) \/ DropStaging(p)
  <2>1. UNCHANGED <<current, backup, journal>>
    BY <1>1 DEF Repair, Recover, Check, DropStaging, places, records
  <2> QED BY <2>1, KeptWithDirectories DEF Undecided, Pending
<1>2. CASE Remove(p)
  <2>1. hand[p].id \in Undecided /\ current # None /\ current.made = hand[p].id
    BY <1>0, <1>2 DEF Remove, Knows, At, RollingBack, UnderWay, Undecided
  <2>2. UNCHANGED <<backup, journal>>
    BY <1>2 DEF Remove, records
  <2> QED BY <2>1, <2>2 DEF Kept, Undecided, Pending
<1>3. CASE Restore(p)
  <2>1. hand[p].id \in Ids /\ (backup[hand[p].id] # None => current = None)
    BY <1>0, <1>3 DEF Restore, Knows, At
  <2>2. \A id \in Ids : backup[id] # None => backup[id].packages = "whole"
    BY DEF IInv, PlacesAreKnown, Finished
  <2>3. Undecided' = Undecided
    BY <1>3 DEF Restore, records, Undecided, Pending
  <2> QED BY <1>0, <1>3, <2>1, <2>2, <2>3 DEF Restore, Kept, TypeOK
<1>4. CASE WriteRolledBack(p)
  <2>1. Undecided' \subseteq Undecided
    BY <1>0, <1>4 DEF WriteRolledBack, Knows, At, RollingBack, Undecided, Pending,
       TypeOK
  <2> QED BY <1>4, <2>1, KeptWithDirectories DEF WriteRolledBack, places
<1> QED BY <1>1, <1>2, <1>3, <1>4 DEF Recovering

LEMMA WorkerKeeps ==
    ASSUME IInv, NEW id \in Ids, WorkerWrites(id) \/ WorkerEnds(id),
           NEW made \in Ids \cup {"before", "user"}, Kept(made)
    PROVE  Kept(made)'
<1>1. id \in Undecided /\ current # None /\ current.made = id
  BY DEF WorkerWrites, WorkerEnds, IInv, WorkersAreKnown, UnderWay, Undecided
<1>2. UNCHANGED <<backup, journal>>
  BY DEF WorkerWrites, WorkerEnds, records
<1> QED BY <1>1, <1>2 DEF Kept, Undecided, Pending

\* A finished environment is moved, given back or in place, whoever is killed
\* when; only the user takes one away.
THEOREM NothingFinishedIsLost == Spec => NothingLost
<1>1. ASSUME IInv, [Next]_vars, users' = users,
             NEW made \in Ids \cup {"before", "user"}, Kept(made)
      PROVE  Kept(made)'
  <2>1. CASE UNCHANGED vars
    BY <1>1, <2>1, KeptWithDirectories DEF vars, places, records, Undecided, Pending
  <2>2. ASSUME NEW p \in Procs, Fails(p) \/ Die(p) PROVE Kept(made)'
    BY <1>1, <2>2, KeptWithDirectories DEF Fails, Die, places, records, Undecided,
       Pending
  <2>3. ~UserReplaces
    BY <1>1 DEF UserReplaces, IInv, TypeOK
  <2> QED BY <1>1, <2>1, <2>2, <2>3, CreatingKeeps, RecoveringKeeps, WorkerKeeps DEF
     Next
<1>2. IInv /\ [Next]_vars =>
        [users' = users => \A made \in Ids \cup {"before", "user"} : Kept(made) => Kept(made)']_vars
  BY <1>1
<1> QED BY <1>2, VenvInvariantHolds, PTL DEF Spec, NothingLost

-----------------------------------------------------------------------------
(* Replacing an environment implements Environment.                        *)

\* With one transaction at most, Settled is what its backup holds, or what is
\* in .venv if that is not of its making.
SettledIs ==
    /\ \A id \in Undecided :
        backup[id] # None => Settled = Whole(backup[id].made, backup[id].owner)
    /\ (\A id \in Undecided : backup[id] = None) =>
        Settled = IF current = None \/ current.made \in Undecided THEN None
                  ELSE Whole(current.made, current.owner)

LEMMA SettledIsOne == IInv => SettledIs
<1> SUFFICES ASSUME IInv PROVE SettledIs
  OBVIOUS
<1>1. \A a, b \in Undecided : a = b
  BY DEF IInv, OneTransaction, Undecided
<1>2. ASSUME NEW id \in Undecided, backup[id] # None
      PROVE  Settled = Whole(backup[id].made, backup[id].owner)
  <2>1. (CHOOSE a \in Undecided : backup[a] # None) = id
    BY <1>1, <1>2
  <2> QED BY <1>2, <2>1 DEF Settled
<1> QED BY <1>2 DEF SettledIs, Settled

LEMMA SameSettled ==
    ASSUME SettledIs, SettledIs', UNCHANGED <<current, backup>>, Undecided' = Undecided
    PROVE  Settled' = Settled
  BY DEF SettledIs

LEMMA CreatingSettles ==
    ASSUME IInv, SettledIs, SettledIs', NEW p \in Procs, Creating(p)
    PROVE  Settled' = Settled \/ (Commit(p) /\ Abstract!Replace)
<1>0. TypeOK /\ Knows(p) /\ \A a, b \in Pending : a = b
  BY DEF IInv, OneTransaction
<1>1. CASE \/ Create(p) \/ WritePending(p) \/ Spawn(p) \/ Release(p) \/ Wait(p)
           \/ Validate(p) \/ ClearMarker(p)
  <2>1. UNCHANGED <<current, backup>> /\ Undecided' = Undecided
    BY <1>1 DEF Create, WritePending, Spawn, Release, Wait, Validate, ClearMarker,
       places, records, Undecided, Pending
  <2> QED BY <2>1, SameSettled
<1>2. CASE WriteJournal(p)
  <2>1. /\ hand[p].id \in Ids /\ Pending = {} /\ worker[hand[p].id] = "none"
        /\ backup[hand[p].id] = None /\ (current # None => Untouched)
    BY <1>0, <1>2 DEF WriteJournal, Knows, At
  <2>2. Undecided = {} /\ Undecided' \subseteq {hand[p].id}
    BY <1>0, <1>2, <2>1 DEF WriteJournal, Undecided, Pending, TypeOK
  <2>3. current # None => current.made # hand[p].id
    BY <2>1 DEF Untouched, Begun
  <2> QED BY <1>2, <2>1, <2>2, <2>3 DEF WriteJournal, places, SettledIs
<1>3. CASE MoveAway(p)
  <2>1. /\ hand[p].id \in Undecided /\ hand[p].id \in Ids
        /\ backup[hand[p].id] = None /\ (current # None => Untouched)
    BY <1>0, <1>3 DEF MoveAway, Knows, At, Undecided
  <2>2. Undecided' = Undecided /\ Undecided = {hand[p].id}
    BY <1>0, <1>3, <2>1 DEF MoveAway, records, Undecided, Pending
  <2>3. backup'[hand[p].id] = current /\ current' = None
    BY <1>0, <1>3, <2>1 DEF MoveAway, TypeOK
  <2> QED BY <2>1, <2>2, <2>3 DEF SettledIs, Untouched
<1>4. CASE Publish(p)
  <2>1. /\ hand[p].id \in Undecided /\ current = None
        /\ staging[hand[p].id] # None /\ staging[hand[p].id].made = hand[p].id
    BY <1>0, <1>4 DEF Publish, Knows, At, IInv, PlacesAreKnown, Undecided, Building
  <2>2. Undecided' = Undecided /\ UNCHANGED backup /\ current' = staging[hand[p].id]
    BY <1>4 DEF Publish, records, Undecided, Pending
  <2> QED BY <2>1, <2>2 DEF SettledIs
<1>5. CASE WriteCreating(p) \/ RecordWorker(p)
  <2>1. /\ hand[p].id \in Pending /\ journal[hand[p].id] \in Journal /\ hand[p].id \in Ids
        /\ journal[hand[p].id].phase # "committed"
    BY <1>0, <1>5, PartsType DEF WriteCreating, RecordWorker, Knows, At, Pending
  <2>a. /\ [journal[hand[p].id] EXCEPT !.worker = TRUE] # None
        /\ [journal[hand[p].id] EXCEPT !.phase = "creating"] # None
    BY <2>1, JournalType
  <2>2. /\ [journal[hand[p].id] EXCEPT !.worker = TRUE] # None
        /\ [journal[hand[p].id] EXCEPT !.worker = TRUE].phase = journal[hand[p].id].phase
        /\ [journal[hand[p].id] EXCEPT !.phase = "creating"] # None
        /\ [journal[hand[p].id] EXCEPT !.phase = "creating"].phase = "creating"
    BY <2>1, <2>a DEF Journal
  <2>3. Undecided' = Undecided
    BY <1>0, <1>5, <2>1, <2>2 DEF WriteCreating, RecordWorker, Undecided, Pending,
       TypeOK
  <2>4. UNCHANGED <<current, backup>>
    BY <1>5 DEF WriteCreating, RecordWorker, places
  <2> QED BY <2>3, <2>4, SameSettled
<1>6. CASE WriteOwner(p)
  <2>1. /\ hand[p].id \in Undecided /\ current \in Directory /\ current.made = hand[p].id
        /\ hand[p].next \in Interpreters
    BY <1>0, <1>6, PartsType DEF WriteOwner, Knows, At, UnderWay, Undecided, Building
  <2>2. current' # None /\ current'.made = hand[p].id
    <3>1. [current EXCEPT !.owner = hand[p].next] \in Directory
      BY <2>1, DirectoryType
    <3>2. [current EXCEPT !.owner = hand[p].next].made = current.made
      BY <2>1 DEF Directory
    <3> QED BY <1>6, <2>1, <3>1, <3>2 DEF WriteOwner
  <2>3. Undecided' = Undecided /\ UNCHANGED backup
    BY <1>6 DEF WriteOwner, records, Undecided, Pending
  <2> QED BY <2>1, <2>2, <2>3 DEF SettledIs
<1>7. CASE DropToken(p)
  <2>1. current \in Directory
    BY <1>0, <1>7, PartsType DEF DropToken, Knows, At
  <2>2. current' # None /\ current'.made = current.made /\ current'.owner = current.owner
    BY <1>7, <2>1 DEF DropToken, Directory
  <2>3. Undecided' = Undecided /\ UNCHANGED backup
    BY <1>7 DEF DropToken, records, Undecided, Pending
  <2> QED BY <2>1, <2>2, <2>3 DEF SettledIs
<1>8. CASE Commit(p)
  <2>1. /\ hand[p].id \in Undecided /\ hand[p].id \in Ids /\ hand[p].next \in Interpreters
        /\ journal[hand[p].id] \in Journal
        /\ current # None /\ current.made = hand[p].id /\ current.owner = hand[p].next
    BY <1>0, <1>8, PartsType DEF Commit, Knows, At, UnderWay, Undecided, Pending,
       Building
  <2>2. [journal[hand[p].id] EXCEPT !.phase = "committed"].phase = "committed"
    BY <2>1 DEF Journal
  <2>3. Undecided' = {} /\ UNCHANGED <<current, backup, users>>
    BY <1>0, <1>8, <2>1, <2>2 DEF Commit, places, Undecided, Pending, TypeOK
  <2>4. Settled' = Whole(hand[p].id, hand[p].next)
    BY <2>1, <2>3 DEF SettledIs
  <2>5. Settled # Users
    <3>1. backup[hand[p].id] # None => backup[hand[p].id].owner # None
      BY <2>1 DEF IInv, PlacesAreKnown
    <3>2. Undecided = {hand[p].id}
      BY <1>0, <2>1 DEF Undecided
    <3>3. CASE backup[hand[p].id] # None
      BY <2>1, <3>1, <3>3 DEF SettledIs, Whole, Users
    <3>4. CASE backup[hand[p].id] = None
      <4>1. Settled = None
        BY <2>1, <3>2, <3>4 DEF SettledIs
      <4>2. Users \in Directory
        BY DEF Users, Whole, Directory
      <4> QED BY <4>1, <4>2
    <3> QED BY <3>3, <3>4
  <2> QED BY <1>8, <2>1, <2>3, <2>4, <2>5 DEF Abstract!Replace
<1>9. CASE ClearJournal(p)
  <2>1. /\ hand[p].id \in Pending /\ hand[p].id \in Ids /\ (current # None => Untouched)
        /\ hand[p].id \in Undecided => backup[hand[p].id] = None
    BY <1>0, <1>9 DEF ClearJournal, Knows, At, Undecided
  <2>2. Undecided' = {} /\ UNCHANGED <<current, backup>> /\ Undecided \subseteq {hand[p].id}
    BY <1>0, <1>9, <2>1 DEF ClearJournal, places, Undecided, Pending, TypeOK
  <2> QED BY <2>1, <2>2 DEF SettledIs, Untouched
<1> QED BY <1>1, <1>2, <1>3, <1>4, <1>5, <1>6, <1>7, <1>8, <1>9 DEF Creating

LEMMA RecoveringSettles ==
    ASSUME IInv, SettledIs, SettledIs', NEW p \in Procs, Recovering(p)
    PROVE  Settled' = Settled
<1>0. TypeOK /\ Knows(p) /\ \A a, b \in Pending : a = b
  BY DEF IInv, OneTransaction
<1>1. CASE Repair(p) \/ Recover(p) \/ Check(p) \/ DropStaging(p)
  <2>1. UNCHANGED <<current, backup, journal>>
    BY <1>1 DEF Repair, Recover, Check, DropStaging, places, records
  <2> QED BY <2>1, SameSettled DEF Undecided, Pending
<1>2. CASE Remove(p)
  <2>1. hand[p].id \in Undecided /\ current \in Directory /\ current.made = hand[p].id
    BY <1>0, <1>2, PartsType DEF Remove, Knows, At, RollingBack, UnderWay, Undecided
  <2>2. current' # None => current'.made = hand[p].id
    BY <1>2, <2>1 DEF Remove, Directory
  <2>3. Undecided' = Undecided /\ UNCHANGED backup
    BY <1>2 DEF Remove, records, Undecided, Pending
  <2> QED BY <2>1, <2>2, <2>3 DEF SettledIs
<1>3. CASE Restore(p)
  <2>1. hand[p].id \in Undecided /\ hand[p].id \in Ids /\ (backup[hand[p].id] # None => current = None)
    BY <1>0, <1>3 DEF Restore, Knows, At, RollingBack, Undecided
  <2>2. Undecided' = Undecided /\ Undecided = {hand[p].id}
    BY <1>0, <1>3, <2>1 DEF Restore, records, Undecided, Pending
  <2>3. CASE backup[hand[p].id] = None
    <3>1. UNCHANGED <<current, backup>>
      BY <1>3, <2>3 DEF Restore
    <3> QED BY <2>2, <3>1, SameSettled
  <2>4. CASE backup[hand[p].id] # None
    <3>1. current' = backup[hand[p].id] /\ backup'[hand[p].id] = None
      BY <1>0, <1>3, <2>1, <2>4 DEF Restore, TypeOK
    <3>2. backup[hand[p].id].made \notin Undecided
      BY <2>1, <2>4 DEF IInv, PlacesAreKnown
    <3> QED BY <2>1, <2>2, <2>4, <3>1, <3>2 DEF SettledIs
  <2> QED BY <2>3, <2>4
<1>4. CASE WriteRolledBack(p)
  <2>1. /\ hand[p].id \in Pending /\ journal[hand[p].id] \in Journal /\ hand[p].id \in Ids
        /\ journal[hand[p].id].phase # "committed"
    BY <1>0, <1>4, PartsType DEF WriteRolledBack, Knows, At, RollingBack, Pending
  <2>2. /\ [journal[hand[p].id] EXCEPT !.phase = "rolled-back"] # None
        /\ [journal[hand[p].id] EXCEPT !.phase = "rolled-back"].phase = "rolled-back"
    BY <2>1, JournalType DEF Journal
  <2>3. Undecided' = Undecided /\ UNCHANGED <<current, backup>>
    BY <1>0, <1>4, <2>1, <2>2 DEF WriteRolledBack, places, Undecided, Pending, TypeOK
  <2> QED BY <2>3, SameSettled
<1> QED BY <1>1, <1>2, <1>3, <1>4 DEF Recovering

LEMMA WorkerSettles ==
    ASSUME IInv, SettledIs, SettledIs', NEW id \in Ids, WorkerWrites(id) \/ WorkerEnds(id)
    PROVE  Settled' = Settled
<1>1. id \in Undecided /\ current \in Directory /\ current.made = id
  BY PartsType DEF WorkerWrites, WorkerEnds, IInv, WorkersAreKnown, UnderWay, Undecided
<1>2. current' # None /\ current'.made = id
  BY <1>1 DEF WorkerWrites, WorkerEnds, Directory
<1>3. Undecided' = Undecided /\ UNCHANGED backup
  BY DEF WorkerWrites, WorkerEnds, records, Undecided, Pending
<1> QED BY <1>1, <1>2, <1>3 DEF SettledIs

LEMMA UserSettles ==
    ASSUME IInv, SettledIs, SettledIs', UserReplaces
    PROVE  Abstract!UserReplaces
<1>1. Undecided' = Undecided /\ UNCHANGED backup /\ users' = users + 1 /\ current' \in {None, Users}
  BY DEF UserReplaces, records, Undecided, Pending
<1>2. CASE \E id \in Undecided : backup[id] # None
  BY <1>1, <1>2 DEF SettledIs, Abstract!UserReplaces
<1>3. CASE \A id \in Undecided : backup[id] = None
  <2>1. Users.made = "user" /\ Users.owner = None /\ "user" \notin Undecided
    BY DEF Users, Whole, Undecided, Pending
  <2> QED BY <1>1, <1>3, <2>1 DEF SettledIs, Users, Abstract!UserReplaces
<1> QED BY <1>2, <1>3

LEMMA InitRefines == Init => Abstract!Init
<1> SUFFICES ASSUME Init PROVE Abstract!Init
  OBVIOUS
<1>1. IInv /\ Undecided = {}
  BY InitInv DEF Init, Undecided, Pending
<1>2. Settled = IF current = None THEN None ELSE Whole(current.made, current.owner)
  BY <1>1, SettledIsOne DEF SettledIs
<1> QED BY <1>2 DEF Init, Abstract!Init, Whole, Users

LEMMA NextRefines ==
    ASSUME IInv, [Next]_vars, SettledIs, SettledIs'
    PROVE  [Abstract!Next]_<<Settled, users>>
<1>1. CASE UNCHANGED vars
  <2>1. UNCHANGED <<current, backup, users>> /\ Undecided' = Undecided
    BY <1>1 DEF vars, places, records, Undecided, Pending
  <2> QED BY <2>1, SameSettled
<1>2. ASSUME NEW p \in Procs, Creating(p) PROVE [Abstract!Next]_<<Settled, users>>
  <2>1. UNCHANGED users
    BY <1>2 DEF Creating, Create, WriteJournal, WritePending, MoveAway, Publish,
       WriteCreating, Spawn, RecordWorker, Release, Wait, WriteOwner, Validate, Commit,
       DropToken, ClearMarker, ClearJournal
  <2> QED BY <1>2, <2>1, CreatingSettles DEF Abstract!Next
<1>3. ASSUME NEW p \in Procs, Recovering(p) PROVE UNCHANGED <<Settled, users>>
  BY <1>3, RecoveringSettles DEF Recovering, Repair, Recover, Check, Remove, Restore,
     DropStaging, WriteRolledBack
<1>4. ASSUME NEW p \in Procs, Fails(p) \/ Die(p) PROVE UNCHANGED <<Settled, users>>
  <2>1. UNCHANGED <<current, backup, users>> /\ Undecided' = Undecided
    BY <1>4 DEF Fails, Die, places, records, Undecided, Pending
  <2> QED BY <2>1, SameSettled
<1>5. ASSUME NEW id \in Ids, WorkerWrites(id) \/ WorkerEnds(id) PROVE UNCHANGED <<Settled, users>>
  BY <1>5, WorkerSettles DEF WorkerWrites, WorkerEnds
<1>6. CASE UserReplaces
  BY <1>6, UserSettles DEF Abstract!Next
<1> QED BY <1>1, <1>2, <1>3, <1>4, <1>5, <1>6 DEF Next

\* However it is interrupted, a replacement is seen as one step: the commit.
THEOREM VenvImplementsEnvironment == Spec => ReplacesAtOnce
<1>1. Init => Abstract!Init
  BY InitRefines
<1>2. IInv /\ SettledIs /\ SettledIs' /\ [Next]_vars => [Abstract!Next]_<<Settled, users>>
  BY NextRefines
<1> QED BY <1>1, <1>2, SettledIsOne, VenvInvariantHolds, PTL DEF Spec, ReplacesAtOnce,
   Abstract!Spec

=============================================================================
