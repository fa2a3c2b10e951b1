--------------------------- MODULE ProfilesProofs ---------------------------
(***************************************************************************)
(* Proofs about Profiles, for any number of processes, profiles, values,   *)
(* keys and edits.  First what one edit makes of the contents, then that   *)
(* IInv is inductive, then that the commands implement ProfileStore.       *)
(***************************************************************************)
EXTENDS Profiles, TLAPS

USE ContentsAssumption, NoneIsNoContents, ProfilesAssumption, NoneIsNoMarker

-----------------------------------------------------------------------------
(* One edit of the contents.                                               *)

\* Replacing the authorization and the file of one profile keeps the type.
LEMMA ReplacedType ==
    ASSUME NEW s \in Contents, NEW n \in Profiles,
           NEW a \in Authorization \cup {None}, NEW f \in File \cup {None}
    PROVE  [s EXCEPT !.config.profiles[n] = a, !.files[n] = f] \in Contents
  BY DEF Contents, Config

LEMMA RefiledType ==
    ASSUME NEW s \in Contents, NEW n \in Profiles, NEW f \in File \cup {None}
    PROVE  [s EXCEPT !.files[n] = f] \in Contents
  BY DEF Contents

\* Encrypting for a set of keys gives a file.
LEMMA EncryptedForType ==
    ASSUME NEW f \in File, NEW keys \in SUBSET Keys
    PROVE  EncryptedFor(f, keys) \in File
  BY DEF EncryptedFor, File, Encrypted

LEMMA UnionType ==
    ASSUME NEW a \in Authorization
    PROVE  /\ RecipientUnion(a) \in SUBSET Keys
           /\ WithUnion(a) \in Authorization
           /\ WithUnion(a).owners = a.owners
           /\ WithUnion(a).recipients = RecipientUnion(a)
           /\ RecipientUnion(WithUnion(a)) = RecipientUnion(a)
  BY DEF Authorization, RecipientUnion, WithUnion

LEMMA FreshType == Fresh \in Authorization /\ Authorized(Fresh)
  BY DEF Fresh, Authorization, Authorized, RecipientUnion

\* A request granted or withdrawn.
LEMMA RegrantedType ==
    ASSUME NEW a \in Authorization, NEW r \in Requests, NEW k \in Keys \cup {None}
    PROVE  /\ [a EXCEPT !.grants[r] = k] \in Authorization
           /\ [a EXCEPT !.grants[r] = k].owners = a.owners
  BY DEF Authorization

\* What every edit of a profile's readers makes.
LEMMA ReencryptedKeeps ==
    ASSUME NEW s \in Contents, NEW n \in Profiles, CanEdit(s, n), Consistent(s),
           NEW r \in Requests, NEW k \in Keys \cup {None},
           NEW a, a = WithUnion([s.config.profiles[n] EXCEPT !.grants[r] = k]),
           NEW t, t = [s EXCEPT !.config.profiles[n] = a,
                                !.files[n] = EncryptedFor(s.files[n], a.recipients)]
    PROVE  t \in Contents /\ Consistent(t)
           /\ t.files = [s.files EXCEPT ![n] = t.files[n]]
<1>1. s.config.profiles[n] \in Authorization /\ s.files[n] \in File
  BY DEF Contents, Config, CanEdit
<1>2. s.config.profiles[n].owners # {}
  BY DEF CanEdit, Authorized
<1>3. a \in Authorization /\ Authorized(a)
  <2> DEFINE b == [s.config.profiles[n] EXCEPT !.grants[r] = k]
  <2>1. b \in Authorization /\ b.owners # {}
    BY <1>1, <1>2, RegrantedType
  <2>2. a \in Authorization /\ a.owners = b.owners /\ a.recipients = RecipientUnion(a)
    <3> HIDE DEF b
    <3> QED BY <2>1, UnionType DEF b
  <2> QED BY <2>1, <2>2 DEF Authorized
<1>4. a.recipients \in SUBSET Keys
  BY <1>3 DEF Authorization
<1>5. EncryptedFor(s.files[n], a.recipients) \in File
  BY <1>1, <1>4, EncryptedForType
<1>6. t \in Contents
  BY <1>3, <1>5, ReplacedType
<1>7. t.config.profiles = [s.config.profiles EXCEPT ![n] = a]
      /\ t.config.default = s.config.default
      /\ t.files = [s.files EXCEPT ![n] = EncryptedFor(s.files[n], a.recipients)]
  BY DEF Contents, Config
<1>8. \A v \in Set(t.files[n]) : t.files[n][v].readers = a.recipients
  BY <1>1, <1>7 DEF Set, EncryptedFor, Contents, File, Encrypted
<1>9. Consistent(t)
  BY <1>1, <1>3, <1>5, <1>7, <1>8 DEF Consistent, ValidConfig, Contents, Config
<1> QED BY <1>6, <1>7, <1>9 DEF Contents

\* Granting and revoking change no file but that of the profile.
LEMMA GrantedFrame ==
    ASSUME NEW s \in Contents, NEW n \in Profiles, NEW r \in Requests, NEW k \in Keys
    PROVE  Granted(s, n, r, k).files = [s.files EXCEPT ![n] = Granted(s, n, r, k).files[n]]
  BY DEF Granted, Contents

LEMMA RevokedFrame ==
    ASSUME NEW s \in Contents, NEW n \in Profiles, NEW r \in Requests
    PROVE  Revoked(s, n, r).files = [s.files EXCEPT ![n] = Revoked(s, n, r).files[n]]
  BY DEF Revoked, Contents

LEMMA InitializedKeeps ==
    ASSUME NEW s \in Contents, NEW n \in Profiles, Consistent(s)
    PROVE  Initialized(s, n) \in Contents /\ Consistent(Initialized(s, n))
           /\ Initialized(s, n).files = [s.files EXCEPT ![n] = Initialized(s, n).files[n]]
<1> DEFINE t == Initialized(s, n)
<1>1. EmptyFile \in File /\ Set(EmptyFile) = {}
  BY DEF EmptyFile, File, Set
<1>2. t \in Contents
  BY <1>1, FreshType, ReplacedType DEF Initialized
<1>3. t.config.profiles = [s.config.profiles EXCEPT ![n] = Fresh]
      /\ t.config.default = s.config.default
      /\ t.files = [s.files EXCEPT ![n] = EmptyFile]
  BY DEF Initialized, Contents, Config
<1>4. Consistent(t)
  BY <1>1, <1>3, FreshType DEF Consistent, ValidConfig, Contents, Config
<1> QED BY <1>2, <1>3, <1>4 DEF Contents

LEMMA RemovedKeeps ==
    ASSUME NEW s \in Contents, NEW n \in Profiles, Consistent(s)
    PROVE  Removed(s, n) \in Contents /\ Consistent(Removed(s, n))
           /\ Removed(s, n).files = [s.files EXCEPT ![n] = Removed(s, n).files[n]]
<1> DEFINE t == Removed(s, n)
           d == IF s.config.default = n THEN None ELSE s.config.default
           c == [profiles |-> [s.config.profiles EXCEPT ![n] = None],
                 default |-> d, rest |-> s.config.rest]
<1>a. s.config \in Config /\ s.files \in [Profiles -> File \cup {None}]
  BY DEF Contents
<1>b. d \in Profiles \cup {None} /\ d # n
  BY <1>a DEF Config
<1>d. c \in Config
  BY <1>a, <1>b DEF Config
<1>c. t = [config |-> c, files |-> [s.files EXCEPT ![n] = None]]
  <2> DEFINE e == [s.config EXCEPT !.profiles[n] = None, !.default = IF @ = n THEN None ELSE @]
  <2>1. e.profiles = c.profiles /\ e.default = c.default /\ e.rest = c.rest
    BY <1>a DEF Config
  <2> HIDE DEF c, d
  <2>2. e \in Config
    BY <1>a DEF Config
  <2>3. e = c
    BY <2>1, <2>2, <1>d DEF Config
  <2> QED BY <2>3 DEF Removed
<1>1. t \in Contents
  BY <1>a, <1>c, <1>d DEF Contents
<1>2. t.config.profiles = [s.config.profiles EXCEPT ![n] = None]
      /\ t.config.default = d /\ t.files = [s.files EXCEPT ![n] = None]
  BY <1>c
<1> HIDE DEF c, d, t
<1>3. Consistent(t)
  <2>1. d # None => s.config.profiles[d] # None
    BY DEF d, Consistent, ValidConfig
  <2>2. ValidConfig(t.config)
    BY <1>1, <1>2, <1>a, <1>b, <2>1 DEF Consistent, ValidConfig, Config
  <2> QED BY <1>1, <1>2, <1>a, <2>2 DEF Consistent, Config
<1>4. t.files = [s.files EXCEPT ![n] = t.files[n]]
  BY <1>2, <1>a
<1> QED BY <1>1, <1>3, <1>4 DEF t

\* One value set or unset.
LEMMA ValuesKeep ==
    ASSUME NEW s \in Contents, NEW n \in Profiles, CanEdit(s, n), Consistent(s),
           NEW v \in Variables, NEW e \in Encrypted \cup {None},
           e # None => e.readers = s.config.profiles[n].recipients,
           NEW t, t = [s EXCEPT !.files[n][v] = e]
    PROVE  t \in Contents /\ Consistent(t)
           /\ t.files = [s.files EXCEPT ![n] = t.files[n]]
<1>1. s.files[n] \in File
  BY DEF Contents, CanEdit
<1>2. [s.files[n] EXCEPT ![v] = e] \in File
  BY <1>1 DEF File
<1>3. t = [s EXCEPT !.files[n] = [s.files[n] EXCEPT ![v] = e]]
  BY DEF Contents
<1>4. t \in Contents
  BY <1>2, <1>3, RefiledType
<1>5. t.config = s.config
      /\ t.files = [s.files EXCEPT ![n] = [s.files[n] EXCEPT ![v] = e]]
  BY <1>3 DEF Contents
<1>6. \A w \in Set(t.files[n]) : t.files[n][w].readers = s.config.profiles[n].recipients
  BY <1>1, <1>5 DEF Consistent, CanEdit, Set, Contents, File
<1>7. Consistent(t)
  BY <1>1, <1>2, <1>5, <1>6 DEF Consistent, ValidConfig, Contents
<1> QED BY <1>4, <1>5, <1>7 DEF Contents

LEMMA ConfiguredKeeps ==
    ASSUME NEW s \in Contents, Consistent(s)
    PROVE  /\ \A n \in Profiles \cup {None} : CanUse(s, n) =>
                /\ Defaulting(s, n) \in Contents /\ Consistent(Defaulting(s, n))
                /\ Defaulting(s, n).files = s.files
           /\ \A rest \in Rests :
                /\ Reconfigured(s, rest) \in Contents /\ Consistent(Reconfigured(s, rest))
                /\ Reconfigured(s, rest).files = s.files
                /\ Alike(Reconfigured(s, rest).config, s.config)
<1>1. ASSUME NEW n \in Profiles \cup {None}, CanUse(s, n)
      PROVE  /\ Defaulting(s, n) \in Contents /\ Consistent(Defaulting(s, n))
             /\ Defaulting(s, n).files = s.files
  BY <1>1 DEF Defaulting, CanUse, Declared, Contents, Config, Consistent, ValidConfig
<1>2. ASSUME NEW rest \in Rests
      PROVE  /\ Reconfigured(s, rest) \in Contents /\ Consistent(Reconfigured(s, rest))
             /\ Reconfigured(s, rest).files = s.files
             /\ Alike(Reconfigured(s, rest).config, s.config)
  BY <1>2 DEF Reconfigured, Contents, Config, Consistent, ValidConfig, Alike
<1> QED BY <1>1, <1>2

\* Every edit leaves contents that every named recipient, and no one else, can
\* read: of consistent contents it makes consistent ones.
LEMMA EditsKeep ==
    ASSUME NEW s \in Contents, Consistent(s), NEW t \in Edits(s)
    PROVE  t \in Contents /\ Consistent(t)
<1>1. CASE t \in ByInit(s)
  BY <1>1, InitializedKeeps DEF ByInit
<1>2. CASE t \in ByUse(s)
  BY <1>2, ConfiguredKeeps DEF ByUse
<1>3. CASE t \in ByRemove(s)
  BY <1>3, RemovedKeeps DEF ByRemove
<1>4. CASE t \in BySet(s)
  <2>1. PICK n \in Profiles, v \in Variables, x \in Values :
          CanEdit(s, n) /\ t = WithValue(s, n, v, x)
    BY <1>4 DEF BySet
  <2>2. [value |-> x, readers |-> s.config.profiles[n].recipients] \in Encrypted
    BY <2>1 DEF CanEdit, Contents, Config, Authorization, Encrypted
  <2> QED BY <2>1, <2>2, ValuesKeep DEF WithValue
<1>5. CASE t \in ByUnset(s)
  <2>1. PICK n \in Profiles, v \in Variables : CanEdit(s, n) /\ t = WithoutValue(s, n, v)
    BY <1>5 DEF ByUnset
  <2> QED BY <2>1, ValuesKeep DEF WithoutValue
<1>6. CASE t \in ByGrant(s)
  <2>1. PICK n \in Profiles, r \in Requests, k \in Keys :
          CanGrant(s, n, r) /\ t = Granted(s, n, r, k)
    BY <1>6 DEF ByGrant
  <2> QED BY <2>1, ReencryptedKeeps DEF CanGrant, Granted
<1>7. CASE t \in ByRevoke(s)
  <2>1. PICK n \in Profiles, r \in Requests : CanRevoke(s, n, r) /\ t = Revoked(s, n, r)
    BY <1>7 DEF ByRevoke
  <2> QED BY <2>1, ReencryptedKeeps DEF CanRevoke, Revoked
<1>8. CASE t \in ByConfigure(s)
  BY <1>8, ConfiguredKeeps DEF ByConfigure
<1> QED BY <1>1, <1>2, <1>3, <1>4, <1>5, <1>6, <1>7, <1>8 DEF Edits

-----------------------------------------------------------------------------
(* What the invariant says of the contents.                                *)

LEMMA PartsType ==
    ASSUME IInv
    PROVE  /\ config \in Config /\ files \in [Profiles -> File \cup {None}]
           /\ Now \in Contents /\ Settled \in Contents
           /\ Settled.config \in Config /\ Settled.files \in [Profiles -> File \cup {None}]
           /\ marker # None => /\ marker.before \in Contents
                               /\ marker.before.config \in Config
                               /\ marker.before.files \in [Profiles -> File \cup {None}]
  BY DEF IInv, TypeOK, Contents, Now, Settled, Marker

LEMMA FingerprintType ==
    ASSUME NEW c \in Config, NEW f \in [Profiles -> File \cup {None}]
    PROVE  Fingerprint(c, f) \in Contents /\ Fingerprint(c, f).config = c
  BY DEF Fingerprint, Contents

\* Whoever holds the lock is alone between its first and its last write.
LEMMA GuardAlone ==
    ASSUME IInv, NEW p \in Procs, NEW q \in Procs, p # q,
           pc[p] \in Writing \cup Repairing
    PROVE  pc[q] \notin Writing \cup Repairing
  BY DEF IInv, GuardIsHeld

\* What an edit is going to write are consistent contents.
LEMMA ProposedType ==
    ASSUME IInv, NEW p \in Procs,
           pc[p] \in {"check-again", "begin", "write-config", "write-file", "drop-local", "commit"}
    PROVE  /\ hand[p].next \in Contents /\ Consistent(hand[p].next)
           /\ hand[p].next.config \in Config
           /\ hand[p].next.files \in [Profiles -> File \cup {None}]
           /\ hand[p].next = [config |-> hand[p].next.config, files |-> hand[p].next.files]
           /\ hand[p].next \in Edits(Settled)
<1>1. Proposes(hand[p], Settled)
  BY DEF IInv, Written, Settled, Prepared
<1>2. Settled \in Contents /\ Consistent(Settled)
  BY PartsType DEF IInv, EncryptedForRecipients
<1>3. hand[p].next \in Edits(Settled)
  BY <1>1 DEF Proposes
<1>4. hand[p].next \in Contents /\ Consistent(hand[p].next)
  BY <1>2, <1>3, EditsKeep
<1> QED BY <1>3, <1>4 DEF Contents

\* A recovery settles for what it has restored.
LEMMA MarkRecoveredSettles ==
    ASSUME IInv, NEW p \in Procs, MarkRecovered(p)
    PROVE  Settled' = Settled
<1>1. /\ marker \in Marker /\ marker.phase = "prepared"
      /\ config = marker.before.config /\ files = marker.before.files
  BY DEF MarkRecovered, At, IInv, TypeOK, Written, Repairing, Prepared
<1>2. Now = marker.before
  BY <1>1 DEF Now, Marker, Contents
<1>3. marker' \in Marker /\ marker'.phase = "recovered"
  BY <1>1 DEF MarkRecovered, Marker
<1> QED BY <1>1, <1>2, <1>3 DEF MarkRecovered, Settled, Now, contents

-----------------------------------------------------------------------------
(* Every step keeps the invariant.                                         *)

\* Choosing a profile for this machine touches nothing the invariant is about.
LEMMA ProfileUseLocalInv ==
    ASSUME IInv, NEW p \in Procs, ProfileUseLocal(p)
    PROVE  IInv'
<1> USE DEF ProfileUseLocal, At, Goto, contents
<1>1. TypeOK'
  BY DEF IInv, TypeOK, Stop, Return, Marker, Commands, Writing, Repairing, Reading,
     EmptyHand
<1>2. GuardIsHeld'
  BY DEF IInv, TypeOK, GuardIsHeld, Writing, Repairing, Reading, Stop, Return
<1>3. ASSUME NEW q \in Procs PROVE HandIsFull(q)'
  BY <1>3 DEF IInv, TypeOK, HandIsFull, Stop, Return, EmptyHand, Writing, Repairing,
     Reading, Renewing, Verified, GuardIsHeld, Contents
<1>4. ASSUME NEW q \in Procs PROVE Written(q)'
  BY <1>4 DEF IInv, TypeOK, GuardIsHeld, Written, Stop, Return, Writing, Repairing,
     Prepared, Now, HandIsFull
<1>5. Settled' = Settled
  BY DEF IInv, Settled, Now, Written, Prepared, Stop, Return, TypeOK, Marker
<1>6. EncryptedForRecipients'
  BY <1>5 DEF IInv, EncryptedForRecipients
<1>7. Unreviewed'
  BY <1>5 DEF IInv, TypeOK, Unreviewed, Stop, Return, Written, Prepared, Settled, Now,
     GuardIsHeld, HandIsFull, Writing, Repairing
<1>8. ASSUME NEW q \in Procs PROVE Unseen(q)'
  BY <1>5, <1>8 DEF IInv, TypeOK, Unseen, Stop, Return, EmptyHand, Verified, HandIsFull,
     Writing, Repairing, Reading
<1> QED BY <1>1, <1>2, <1>3, <1>4, <1>6, <1>7, <1>8 DEF IInv

\* Asking for the trust once more changes nothing.
LEMMA CheckAgainInv ==
    ASSUME IInv, NEW p \in Procs, CheckAgain(p)
    PROVE  IInv'
<1> USE DEF CheckAgain, At, Goto, contents
<1>1. TypeOK'
  BY DEF IInv, TypeOK, Stop, Return, Marker, Commands, Writing, Repairing, Reading,
     EmptyHand
<1>2. GuardIsHeld'
  BY DEF IInv, TypeOK, GuardIsHeld, Writing, Repairing, Reading, Stop, Return
<1>3. ASSUME NEW q \in Procs PROVE HandIsFull(q)'
  BY <1>3 DEF IInv, TypeOK, HandIsFull, Stop, Return, EmptyHand, Writing, Repairing,
     Reading, Renewing, Verified, GuardIsHeld, Contents
<1>4. ASSUME NEW q \in Procs PROVE Written(q)'
  BY <1>4 DEF IInv, TypeOK, GuardIsHeld, Written, Stop, Return, Writing, Repairing,
     Prepared, Now, HandIsFull
<1>5. Settled' = Settled
  BY DEF IInv, Settled, Now, Written, Prepared, Stop, Return, TypeOK, Marker
<1>6. EncryptedForRecipients'
  BY <1>5 DEF IInv, EncryptedForRecipients
<1>7. Unreviewed'
  BY <1>5 DEF IInv, TypeOK, Unreviewed, Stop, Return, Written, Prepared, Settled, Now,
     GuardIsHeld, HandIsFull, Writing, Repairing
<1>8. ASSUME NEW q \in Procs PROVE Unseen(q)'
  BY <1>5, <1>8 DEF IInv, TypeOK, Unseen, Stop, Return, EmptyHand, Verified, HandIsFull,
     Writing, Repairing, Reading
<1> QED BY <1>1, <1>2, <1>3, <1>4, <1>6, <1>7, <1>8 DEF IInv

\* The transaction begins with the contents the edit was made from.
LEMMA BeginInv ==
    ASSUME IInv, NEW p \in Procs, Begin(p)
    PROVE  IInv'
<1> USE DEF Begin, At, Goto, contents
<1>1. TypeOK'
  BY PartsType DEF IInv, TypeOK, Marker, Writing
<1>2. GuardIsHeld'
  BY DEF IInv, TypeOK, GuardIsHeld, Writing, Repairing, Reading, Stop, Return
<1>3. ASSUME NEW q \in Procs PROVE HandIsFull(q)'
  BY <1>3 DEF IInv, TypeOK, HandIsFull, Stop, Return, EmptyHand, Writing, Repairing,
     Reading, Renewing, Verified, GuardIsHeld, Contents
<1>a. marker' # None /\ marker'.phase = "prepared" /\ marker'.before = Now
  BY PartsType DEF IInv, TypeOK, Marker
<1>4. ASSUME NEW q \in Procs PROVE Written(q)'
  <2>1. CASE q = p
    BY <1>a, <2>1 DEF IInv, TypeOK, Written, Repairing, Prepared, Proposes, Now
  <2>2. CASE q # p
    BY <2>2, GuardAlone DEF IInv, TypeOK, Written, Prepared, Writing, Repairing
  <2> QED BY <2>1, <2>2
<1>5. Settled' = Settled
  BY DEF IInv, Settled, Now, Written, Prepared, Stop, Return, TypeOK, Marker
<1>6. EncryptedForRecipients'
  BY <1>5 DEF IInv, EncryptedForRecipients
<1>7. Unreviewed'
  BY <1>5 DEF IInv, TypeOK, Unreviewed, Stop, Return, Written, Prepared, Settled, Now,
     GuardIsHeld, HandIsFull, Writing, Repairing
<1>8. ASSUME NEW q \in Procs PROVE Unseen(q)'
  BY <1>5, <1>8 DEF IInv, TypeOK, Unseen, Stop, Return, EmptyHand, Verified, HandIsFull,
     Writing, Repairing, Reading
<1> QED BY <1>1, <1>2, <1>3, <1>4, <1>6, <1>7, <1>8 DEF IInv

\* The configuration of the edit is written first.
LEMMA WriteConfigInv ==
    ASSUME IInv, NEW p \in Procs, WriteConfig(p)
    PROVE  IInv'
<1> USE DEF WriteConfig, At, Goto, contents
<1>1. TypeOK'
  BY ProposedType, PartsType DEF IInv, TypeOK, Contents, Writing
<1>2. GuardIsHeld'
  BY DEF IInv, TypeOK, GuardIsHeld, Writing, Repairing, Reading, Stop, Return
<1>3. ASSUME NEW q \in Procs PROVE HandIsFull(q)'
  BY <1>3 DEF IInv, TypeOK, HandIsFull, Stop, Return, EmptyHand, Writing, Repairing,
     Reading, Renewing, Verified, GuardIsHeld, Contents
<1>a. /\ config' = hand[p].next.config /\ files = marker.before.files
      /\ hand[p].profile = None => hand[p].next = [config |-> config', files |-> files]
  <2>1. files = marker.before.files /\ Proposes(hand[p], marker.before)
    BY PartsType DEF IInv, Written, Now
  <2> QED BY <2>1, ProposedType DEF Proposes
<1>4. ASSUME NEW q \in Procs PROVE Written(q)'
  <2>1. CASE q = p
    BY <1>a, <2>1 DEF IInv, TypeOK, Written, Repairing, Prepared, Proposes, Now
  <2>2. CASE q # p
    BY <2>2, GuardAlone DEF IInv, TypeOK, Written, Prepared, Writing, Repairing
  <2> QED BY <2>1, <2>2
<1>5. Settled' = Settled
  BY DEF IInv, Settled, Now, Written, Prepared, Stop, Return, TypeOK, Marker
<1>6. EncryptedForRecipients'
  BY <1>5 DEF IInv, EncryptedForRecipients
<1>7. Unreviewed'
  <2> SUFFICES ASSUME ~reviewed PROVE Unreviewed'
    BY DEF Unreviewed
  <2>1. Prepared /\ Proposes(hand[p], marker.before) /\ hand[p].command = "configure"
    BY DEF IInv, Written, HandIsFull, Writing
  <2>2. marker.before \in Contents /\ Consistent(marker.before)
    BY <2>1, PartsType DEF IInv, EncryptedForRecipients, Settled, Prepared
  <2>3. Alike(hand[p].next.config, marker.before.config)
    BY <2>1, <2>2, ConfiguredKeeps DEF Proposes
  <2> QED BY <1>5, <2>1, <2>3 DEF IInv, Unreviewed, Settled, Prepared
<1>8. ASSUME NEW q \in Procs PROVE Unseen(q)'
  BY <1>5, <1>8 DEF IInv, TypeOK, Unseen, Stop, Return, EmptyHand, Verified, HandIsFull,
     Writing, Repairing, Reading
<1> QED BY <1>1, <1>2, <1>3, <1>4, <1>6, <1>7, <1>8 DEF IInv

\* Then the file of its profile.
LEMMA WriteFileInv ==
    ASSUME IInv, NEW p \in Procs, WriteFile(p)
    PROVE  IInv'
<1> USE DEF WriteFile, At, Goto, contents
<1>1. TypeOK'
  <2>1. hand[p].profile \in Profiles
    BY DEF IInv, TypeOK, Written
  <2>2. files' \in [Profiles -> File \cup {None}]
    BY <2>1, PartsType, ProposedType
  <2> QED BY <2>2, PartsType DEF IInv, TypeOK, Contents, Writing
<1>2. GuardIsHeld'
  BY DEF IInv, TypeOK, GuardIsHeld, Writing, Repairing, Reading, Stop, Return
<1>3. ASSUME NEW q \in Procs PROVE HandIsFull(q)'
  BY <1>3 DEF IInv, TypeOK, HandIsFull, Stop, Return, EmptyHand, Writing, Repairing,
     Reading, Renewing, Verified, GuardIsHeld, Contents
<1>a. hand[p].next = [config |-> config, files |-> files']
  BY ProposedType, PartsType DEF IInv, TypeOK, Written, Proposes
<1>4. ASSUME NEW q \in Procs PROVE Written(q)'
  <2>1. CASE q = p
    BY <1>a, <2>1 DEF IInv, TypeOK, Written, Repairing, Prepared, Proposes, Now
  <2>2. CASE q # p
    BY <2>2, GuardAlone DEF IInv, TypeOK, Written, Prepared, Writing, Repairing
  <2> QED BY <2>1, <2>2
<1>5. Settled' = Settled
  BY DEF IInv, Settled, Now, Written, Prepared, Stop, Return, TypeOK, Marker
<1>6. EncryptedForRecipients'
  BY <1>5 DEF IInv, EncryptedForRecipients
<1>7. Unreviewed'
  BY DEF IInv, Unreviewed, Written, Proposes, HandIsFull, Writing
<1>8. ASSUME NEW q \in Procs PROVE Unseen(q)'
  BY <1>5, <1>8 DEF IInv, TypeOK, Unseen, Stop, Return, EmptyHand, Verified, HandIsFull,
     Writing, Repairing, Reading
<1> QED BY <1>1, <1>2, <1>3, <1>4, <1>6, <1>7, <1>8 DEF IInv

\* A removal that finds no file leaves its transaction to self repair.
LEMMA FileIsGoneInv ==
    ASSUME IInv, NEW p \in Procs, FileIsGone(p)
    PROVE  IInv'
<1>a. pc[p] \in Writing
  BY DEF FileIsGone, At, Writing
<1>b. /\ guard = p /\ guard' = None /\ \A q \in Procs : pc[q] \in Writing \cup Repairing => q = p
      /\ UNCHANGED <<config, files, local, trust, marker, reviewed, edits, deaths, pulls>>
      /\ Stop(p)
  BY <1>a DEF FileIsGone, Return, contents, IInv, GuardIsHeld
<1>1. /\ pc'[p] = "idle" /\ hand'[p] = EmptyHand
      /\ \A q \in Procs \ {p} : pc'[q] = pc[q] /\ hand'[q] = hand[q]
  BY <1>b DEF Stop, Goto, IInv, TypeOK
<1>2. TypeOK'
  BY <1>b DEF IInv, TypeOK, Stop, Goto, EmptyHand
<1>3. GuardIsHeld'
  BY <1>1, <1>b DEF IInv, GuardIsHeld, Writing, Repairing
<1>4. Settled' = Settled /\ Now' = Now
  BY <1>b DEF Settled, Now
<1>5. ASSUME NEW q \in Procs PROVE HandIsFull(q)' /\ Written(q)' /\ Unseen(q)'
  <2>1. CASE q = p
    BY <1>1, <2>1 DEF HandIsFull, Written, Unseen, EmptyHand, Writing, Repairing, Reading,
       Verified
  <2>2. CASE q # p
    BY <1>1, <1>4, <1>b, <2>2 DEF IInv, HandIsFull, Written, Prepared, Unseen
  <2> QED BY <2>1, <2>2
<1>6. EncryptedForRecipients' /\ Unreviewed'
  BY <1>4, <1>b DEF IInv, EncryptedForRecipients, Unreviewed
<1> QED BY <1>2, <1>3, <1>5, <1>6 DEF IInv

\* The choice of this machine is no part of the contents.
LEMMA DropLocalInv ==
    ASSUME IInv, NEW p \in Procs, DropLocal(p)
    PROVE  IInv'
<1> USE DEF DropLocal, At, Goto, contents
<1>1. TypeOK'
  BY DEF IInv, TypeOK, Stop, Return, Marker, Commands, Writing, Repairing, Reading,
     EmptyHand
<1>2. GuardIsHeld'
  BY DEF IInv, TypeOK, GuardIsHeld, Writing, Repairing, Reading, Stop, Return
<1>3. ASSUME NEW q \in Procs PROVE HandIsFull(q)'
  BY <1>3 DEF IInv, TypeOK, HandIsFull, Stop, Return, EmptyHand, Writing, Repairing,
     Reading, Renewing, Verified, GuardIsHeld, Contents
<1>4. ASSUME NEW q \in Procs PROVE Written(q)'
  BY <1>4 DEF IInv, TypeOK, GuardIsHeld, Written, Stop, Return, Writing, Repairing,
     Prepared, Now, HandIsFull
<1>5. Settled' = Settled
  BY DEF IInv, Settled, Now, Written, Prepared, Stop, Return, TypeOK, Marker
<1>6. EncryptedForRecipients'
  BY <1>5 DEF IInv, EncryptedForRecipients
<1>7. Unreviewed'
  BY <1>5 DEF IInv, TypeOK, Unreviewed, Stop, Return, Written, Prepared, Settled, Now,
     GuardIsHeld, HandIsFull, Writing, Repairing
<1>8. ASSUME NEW q \in Procs PROVE Unseen(q)'
  BY <1>5, <1>8 DEF IInv, TypeOK, Unseen, Stop, Return, EmptyHand, Verified, HandIsFull,
     Writing, Repairing, Reading
<1> QED BY <1>1, <1>2, <1>3, <1>4, <1>6, <1>7, <1>8 DEF IInv

\* A marker goes only when its transaction is settled.
LEMMA ClearMarkerInv ==
    ASSUME IInv, NEW p \in Procs, ClearMarker(p)
    PROVE  IInv'
<1> USE DEF ClearMarker, At, Goto, contents
<1>1. TypeOK'
  BY DEF IInv, TypeOK, Writing, Return, Stop, EmptyHand
<1>2. GuardIsHeld'
  BY DEF IInv, TypeOK, GuardIsHeld, Writing, Repairing, Reading, Stop, Return
<1>3. ASSUME NEW q \in Procs PROVE HandIsFull(q)'
  BY <1>3 DEF IInv, TypeOK, HandIsFull, Stop, Return, EmptyHand, Writing, Repairing,
     Reading, Renewing, Verified, GuardIsHeld, Contents
<1>4. ASSUME NEW q \in Procs PROVE Written(q)'
  BY <1>4 DEF IInv, TypeOK, GuardIsHeld, Written, Stop, Return, Writing, Repairing,
     Prepared, Now, HandIsFull
<1>5. Settled' = Settled
  BY DEF IInv, Settled, Now, Written, Prepared, Stop, Return, TypeOK, Marker
<1>6. EncryptedForRecipients'
  BY <1>5 DEF IInv, EncryptedForRecipients
<1>7. Unreviewed'
  BY <1>5 DEF IInv, TypeOK, Unreviewed, Stop, Return, Written, Prepared, Settled, Now,
     GuardIsHeld, HandIsFull, Writing, Repairing
<1>8. ASSUME NEW q \in Procs PROVE Unseen(q)'
  BY <1>5, <1>8 DEF IInv, TypeOK, Unseen, Stop, Return, EmptyHand, Verified, HandIsFull,
     Writing, Repairing, Reading
<1> QED BY <1>1, <1>2, <1>3, <1>4, <1>6, <1>7, <1>8 DEF IInv

\* An edit renews the trust of contents that were reviewed before it.
LEMMA RefreshTrustInv ==
    ASSUME IInv, NEW p \in Procs, RefreshTrust(p)
    PROVE  IInv'
<1> USE DEF RefreshTrust, At, Goto, contents
<1>1. TypeOK'
  BY PartsType, FingerprintType DEF IInv, TypeOK, Return, Stop, EmptyHand
<1>2. GuardIsHeld'
  BY DEF IInv, TypeOK, GuardIsHeld, Writing, Repairing, Reading, Stop, Return
<1>3. ASSUME NEW q \in Procs PROVE HandIsFull(q)'
  BY <1>3 DEF IInv, TypeOK, HandIsFull, Stop, Return, EmptyHand, Writing, Repairing,
     Reading, Renewing, Verified, GuardIsHeld, Contents
<1>4. ASSUME NEW q \in Procs PROVE Written(q)'
  BY <1>4 DEF IInv, TypeOK, GuardIsHeld, Written, Stop, Return, Writing, Repairing,
     Prepared, Now, HandIsFull
<1>5. Settled' = Settled
  BY DEF IInv, Settled, Now, Written, Prepared, Stop, Return, TypeOK, Marker
<1>6. EncryptedForRecipients'
  BY <1>5 DEF IInv, EncryptedForRecipients
<1>7. Unreviewed'
  BY <1>5 DEF IInv, TypeOK, Unreviewed, Stop, Return, Written, Prepared, Settled, Now,
     GuardIsHeld, HandIsFull, Writing, Repairing
<1>8. ASSUME NEW q \in Procs PROVE Unseen(q)'
  BY <1>5, <1>8 DEF IInv, TypeOK, Unseen, Stop, Return, EmptyHand, Verified, HandIsFull,
     Writing, Repairing, Reading
<1> QED BY <1>1, <1>2, <1>3, <1>4, <1>6, <1>7, <1>8 DEF IInv

\* Recovery begins at the phase it finds.
LEMMA RepairInv ==
    ASSUME IInv, NEW p \in Procs, Repair(p)
    PROVE  IInv'
<1> USE DEF Repair, At, Goto, contents
<1>1. TypeOK'
  BY DEF IInv, TypeOK, Stop, Return, Marker, Commands, Writing, Repairing, Reading,
     EmptyHand
<1>2. GuardIsHeld'
  BY DEF IInv, TypeOK, GuardIsHeld, Writing, Repairing, Reading, Stop, Return
<1>3. ASSUME NEW q \in Procs PROVE HandIsFull(q)'
  BY <1>3 DEF IInv, TypeOK, HandIsFull, Stop, Return, EmptyHand, Writing, Repairing,
     Reading, Renewing, Verified, GuardIsHeld, Contents
<1>4. ASSUME NEW q \in Procs PROVE Written(q)'
  BY <1>4 DEF IInv, TypeOK, GuardIsHeld, Written, Stop, Return, Writing, Repairing,
     Prepared, Now, HandIsFull
<1>5. Settled' = Settled
  BY DEF IInv, Settled, Now, Written, Prepared, Stop, Return, TypeOK, Marker
<1>6. EncryptedForRecipients'
  BY <1>5 DEF IInv, EncryptedForRecipients
<1>7. Unreviewed'
  BY <1>5 DEF IInv, TypeOK, Unreviewed, Stop, Return, Written, Prepared, Settled, Now,
     GuardIsHeld, HandIsFull, Writing, Repairing
<1>8. ASSUME NEW q \in Procs PROVE Unseen(q)'
  BY <1>5, <1>8 DEF IInv, TypeOK, Unseen, Stop, Return, EmptyHand, Verified, HandIsFull,
     Writing, Repairing, Reading
<1> QED BY <1>1, <1>2, <1>3, <1>4, <1>6, <1>7, <1>8 DEF IInv

\* A rollback gives back the configuration.
LEMMA RestoreConfigInv ==
    ASSUME IInv, NEW p \in Procs, RestoreConfig(p)
    PROVE  IInv'
<1> USE DEF RestoreConfig, At, Goto, contents
<1>1. TypeOK'
  BY PartsType DEF IInv, TypeOK, Contents, Written, Prepared, Repairing
<1>2. GuardIsHeld'
  BY DEF IInv, TypeOK, GuardIsHeld, Writing, Repairing, Reading, Stop, Return
<1>3. ASSUME NEW q \in Procs PROVE HandIsFull(q)'
  BY <1>3 DEF IInv, TypeOK, HandIsFull, Stop, Return, EmptyHand, Writing, Repairing,
     Reading, Renewing, Verified, GuardIsHeld, Contents
<1>4. ASSUME NEW q \in Procs PROVE Written(q)'
  BY <1>4 DEF IInv, TypeOK, GuardIsHeld, Written, Stop, Return, Writing, Repairing,
     Prepared, Now, HandIsFull
<1>b. Prepared
  BY DEF IInv, Written, Repairing
<1>5. Settled' = Settled
  BY <1>b DEF Settled, Prepared
<1>6. EncryptedForRecipients'
  BY <1>5 DEF IInv, EncryptedForRecipients
<1>7. Unreviewed'
  BY <1>5, <1>b DEF IInv, Unreviewed, Settled, Prepared, Alike
<1>8. ASSUME NEW q \in Procs PROVE Unseen(q)'
  BY <1>5, <1>8 DEF IInv, TypeOK, Unseen, Stop, Return, EmptyHand, Verified, HandIsFull,
     Writing, Repairing, Reading
<1> QED BY <1>1, <1>2, <1>3, <1>4, <1>6, <1>7, <1>8 DEF IInv

\* Then the files.
LEMMA RestoreFileInv ==
    ASSUME IInv, NEW p \in Procs, RestoreFile(p)
    PROVE  IInv'
<1> USE DEF RestoreFile, At, Goto, contents
<1>1. TypeOK'
  BY PartsType DEF IInv, TypeOK, Contents, Written, Prepared, Repairing
<1>2. GuardIsHeld'
  BY DEF IInv, TypeOK, GuardIsHeld, Writing, Repairing, Reading, Stop, Return
<1>3. ASSUME NEW q \in Procs PROVE HandIsFull(q)'
  BY <1>3 DEF IInv, TypeOK, HandIsFull, Stop, Return, EmptyHand, Writing, Repairing,
     Reading, Renewing, Verified, GuardIsHeld, Contents
<1>4. ASSUME NEW q \in Procs PROVE Written(q)'
  BY <1>4 DEF IInv, TypeOK, GuardIsHeld, Written, Stop, Return, Writing, Repairing,
     Prepared, Now, HandIsFull
<1>b. Prepared
  BY DEF IInv, Written, Repairing
<1>5. Settled' = Settled
  BY <1>b DEF Settled, Prepared
<1>6. EncryptedForRecipients'
  BY <1>5 DEF IInv, EncryptedForRecipients
<1>7. Unreviewed'
  BY <1>5 DEF IInv, TypeOK, Unreviewed, Stop, Return, Written, Prepared, Settled, Now,
     GuardIsHeld, HandIsFull, Writing, Repairing
<1>8. ASSUME NEW q \in Procs PROVE Unseen(q)'
  BY <1>5, <1>8 DEF IInv, TypeOK, Unseen, Stop, Return, EmptyHand, Verified, HandIsFull,
     Writing, Repairing, Reading
<1> QED BY <1>1, <1>2, <1>3, <1>4, <1>6, <1>7, <1>8 DEF IInv

\* It is settled when everything is back.
LEMMA MarkRecoveredInv ==
    ASSUME IInv, NEW p \in Procs, MarkRecovered(p)
    PROVE  IInv'
<1> USE DEF MarkRecovered, At, Goto, contents
<1>b. Prepared
  BY DEF IInv, Written, Repairing
<1>c. marker \in Marker
  BY <1>b DEF IInv, TypeOK, Prepared
<1>d. marker' \in Marker /\ marker'.phase = "recovered"
  BY <1>c DEF Marker
<1>1. TypeOK'
  BY <1>d DEF IInv, TypeOK, Writing
<1>2. GuardIsHeld'
  BY DEF IInv, TypeOK, GuardIsHeld, Writing, Repairing, Reading, Stop, Return
<1>3. ASSUME NEW q \in Procs PROVE HandIsFull(q)'
  BY <1>3 DEF IInv, TypeOK, HandIsFull, Stop, Return, EmptyHand, Writing, Repairing,
     Reading, Renewing, Verified, GuardIsHeld, Contents
<1>4. ASSUME NEW q \in Procs PROVE Written(q)'
  <2>1. CASE q = p
    BY <1>d, <2>1 DEF IInv, TypeOK, Written, Repairing, Prepared
  <2>2. CASE q # p
    BY <2>2, GuardAlone DEF IInv, TypeOK, Written, Prepared, Writing, Repairing
  <2> QED BY <2>1, <2>2
<1>5. Settled' = Settled
  BY MarkRecoveredSettles
<1>6. EncryptedForRecipients'
  BY <1>5 DEF IInv, EncryptedForRecipients
<1>7. Unreviewed'
  BY <1>5 DEF IInv, TypeOK, Unreviewed, Stop, Return, Written, Prepared, Settled, Now,
     GuardIsHeld, HandIsFull, Writing, Repairing
<1>8. ASSUME NEW q \in Procs PROVE Unseen(q)'
  BY <1>5, <1>8 DEF IInv, TypeOK, Unseen, Stop, Return, EmptyHand, Verified, HandIsFull,
     Writing, Repairing, Reading
<1> QED BY <1>1, <1>2, <1>3, <1>4, <1>6, <1>7, <1>8 DEF IInv

\* An exec starts without a lock.
LEMMA ExecInv ==
    ASSUME IInv, NEW p \in Procs, Exec(p)
    PROVE  IInv'
<1> USE DEF Exec, At, Goto, contents
<1>1. TypeOK'
  BY PartsType DEF IInv, TypeOK, Commands, Reading, Declared
<1>2. GuardIsHeld'
  BY DEF IInv, TypeOK, GuardIsHeld, Writing, Repairing, Reading, Stop, Return
<1>3. ASSUME NEW q \in Procs PROVE HandIsFull(q)'
  BY <1>3 DEF IInv, TypeOK, HandIsFull, Stop, Return, EmptyHand, Writing, Repairing,
     Reading, Renewing, Verified, GuardIsHeld, Contents
<1>4. ASSUME NEW q \in Procs PROVE Written(q)'
  BY <1>4 DEF IInv, TypeOK, GuardIsHeld, Written, Stop, Return, Writing, Repairing,
     Prepared, Now, HandIsFull
<1>5. Settled' = Settled
  BY DEF IInv, Settled, Now, Written, Prepared, Stop, Return, TypeOK, Marker
<1>6. EncryptedForRecipients'
  BY <1>5 DEF IInv, EncryptedForRecipients
<1>7. Unreviewed'
  BY <1>5 DEF IInv, TypeOK, Unreviewed, Stop, Return, Written, Prepared, Settled, Now,
     GuardIsHeld, HandIsFull, Writing, Repairing
<1>8. ASSUME NEW q \in Procs PROVE Unseen(q)'
  BY <1>5, <1>8 DEF IInv, TypeOK, Unseen, Stop, Return, EmptyHand, Verified, HandIsFull,
     Writing, Repairing, Reading
<1> QED BY <1>1, <1>2, <1>3, <1>4, <1>6, <1>7, <1>8 DEF IInv

\* So does trust add.
LEMMA TrustAddInv ==
    ASSUME IInv, NEW p \in Procs, TrustAdd(p)
    PROVE  IInv'
<1> USE DEF TrustAdd, At, Goto, contents
<1>1. TypeOK'
  BY DEF IInv, TypeOK, Stop, Return, Marker, Commands, Writing, Repairing, Reading,
     EmptyHand
<1>2. GuardIsHeld'
  BY DEF IInv, TypeOK, GuardIsHeld, Writing, Repairing, Reading, Stop, Return
<1>3. ASSUME NEW q \in Procs PROVE HandIsFull(q)'
  BY <1>3 DEF IInv, TypeOK, HandIsFull, Stop, Return, EmptyHand, Writing, Repairing,
     Reading, Renewing, Verified, GuardIsHeld, Contents
<1>4. ASSUME NEW q \in Procs PROVE Written(q)'
  BY <1>4 DEF IInv, TypeOK, GuardIsHeld, Written, Stop, Return, Writing, Repairing,
     Prepared, Now, HandIsFull
<1>5. Settled' = Settled
  BY DEF IInv, Settled, Now, Written, Prepared, Stop, Return, TypeOK, Marker
<1>6. EncryptedForRecipients'
  BY <1>5 DEF IInv, EncryptedForRecipients
<1>7. Unreviewed'
  BY <1>5 DEF IInv, TypeOK, Unreviewed, Stop, Return, Written, Prepared, Settled, Now,
     GuardIsHeld, HandIsFull, Writing, Repairing
<1>8. ASSUME NEW q \in Procs PROVE Unseen(q)'
  BY <1>5, <1>8 DEF IInv, TypeOK, Unseen, Stop, Return, EmptyHand, Verified, HandIsFull,
     Writing, Repairing, Reading
<1> QED BY <1>1, <1>2, <1>3, <1>4, <1>6, <1>7, <1>8 DEF IInv

\* A command without the lock may end at any step.
LEMMA StopInv ==
    ASSUME IInv, NEW p \in Procs, Stop(p), pc[p] \notin Writing \cup Repairing,
           UNCHANGED <<config, files, local, trust, marker, guard, reviewed, edits, deaths, pulls>>
    PROVE  IInv'
<1>1. /\ pc'[p] = "idle" /\ hand'[p] = EmptyHand
      /\ \A q \in Procs \ {p} : pc'[q] = pc[q] /\ hand'[q] = hand[q]
  BY DEF Stop, Goto, IInv, TypeOK
<1>2. TypeOK'
  BY DEF IInv, TypeOK, Stop, Goto, EmptyHand
<1>3. GuardIsHeld'
  BY <1>1 DEF IInv, GuardIsHeld, Writing, Repairing
<1>4. Settled' = Settled /\ Now' = Now
  BY DEF Settled, Now
<1>5. ASSUME NEW q \in Procs PROVE HandIsFull(q)' /\ Written(q)' /\ Unseen(q)'
  <2>1. CASE q = p
    BY <1>1, <2>1 DEF HandIsFull, Written, Unseen, EmptyHand, Writing, Repairing, Reading,
       Verified
  <2>2. CASE q # p
    BY <1>1, <1>4, <2>2 DEF IInv, HandIsFull, Written, Prepared, Unseen
  <2> QED BY <2>1, <2>2
<1>6. EncryptedForRecipients' /\ Unreviewed'
  BY <1>4 DEF IInv, EncryptedForRecipients, Unreviewed
<1> QED BY <1>2, <1>3, <1>5, <1>6 DEF IInv

\* The configuration is read outside any transaction.
LEMMA ReadConfigInv ==
    ASSUME IInv, NEW p \in Procs, ReadConfig(p)
    PROVE  IInv'
<1> USE DEF ReadConfig, At, Goto, contents
<1>a. [config |-> config, files |-> NoFiles] \in Contents
  BY PartsType DEF NoFiles, Contents
<1>1. TypeOK'
  BY <1>a DEF IInv, TypeOK, Reading, Stop, EmptyHand
<1>2. GuardIsHeld'
  BY DEF IInv, TypeOK, GuardIsHeld, Writing, Repairing, Reading, Stop, Return
<1>3. ASSUME NEW q \in Procs PROVE HandIsFull(q)'
  BY <1>3, <1>a DEF IInv, TypeOK, HandIsFull, Stop, EmptyHand, Writing, Repairing,
     Reading, Verified, NoFiles
<1>4. ASSUME NEW q \in Procs PROVE Written(q)'
  BY <1>4 DEF IInv, TypeOK, GuardIsHeld, Written, Stop, Return, Writing, Repairing,
     Prepared, Now, HandIsFull
<1>5. Settled' = Settled
  BY DEF IInv, Settled, Now, Written, Prepared, Stop, Return, TypeOK, Marker
<1>6. EncryptedForRecipients'
  BY <1>5 DEF IInv, EncryptedForRecipients
<1>7. Unreviewed'
  BY <1>5 DEF IInv, TypeOK, Unreviewed, Stop, Return, Written, Prepared, Settled, Now,
     GuardIsHeld, HandIsFull, Writing, Repairing
<1>8. ASSUME NEW q \in Procs PROVE Unseen(q)'
  <2>1. CASE q = p
    BY <1>5, <1>8, <2>1 DEF IInv, TypeOK, Unseen, Unreviewed, Stop, EmptyHand, Verified,
       Settled, Now, Alike, NoFiles
  <2>2. CASE q # p
    BY <1>5, <1>8, <2>2 DEF IInv, TypeOK, Unseen, Stop
  <2> QED BY <2>1, <2>2
<1> QED BY <1>1, <1>2, <1>3, <1>4, <1>6, <1>7, <1>8 DEF IInv

\* A file is read later: in a project that was not reviewed, only the rest of
\* the configuration can have changed meanwhile.
LEMMA ReadFileInv ==
    ASSUME IInv, NEW p \in Procs, ReadFile(p)
    PROVE  IInv'
<1> USE DEF At, Goto, contents
<1> DEFINE next(n) == [hand[p].next EXCEPT !.files[n] = files[n]]
           Reads(n) == pc' = pc /\ hand' = [hand EXCEPT ![p].next = next(n)]
<1>a. /\ UNCHANGED <<config, files, local, trust, marker, guard, reviewed, edits, deaths, pulls>>
      /\ \/ Stop(p)
         \/ \E n \in Declared(hand[p].next.config) : Reads(n)
  BY DEF ReadFile
<1>b. pc[p] = "read-files" /\ hand[p].next \in Contents
      /\ hand[p].next.files \in [Profiles -> File \cup {None}]
      /\ hand[p].command \in {"exec", "trust"}
  BY DEF ReadFile, IInv, HandIsFull, Reading, Contents
<1>c. ASSUME NEW n \in Declared(hand[p].next.config), Reads(n) PROVE IInv'
  <2>2. n \in Profiles
    BY DEF Declared
  <2>3. /\ next(n) \in Contents /\ next(n).config = hand[p].next.config
        /\ next(n).files = [hand[p].next.files EXCEPT ![n] = files[n]]
    BY <1>b, <2>2, PartsType DEF Contents
  <2>1. pc' = pc /\ hand' = [hand EXCEPT ![p].next = next(n)]
    BY <1>c
  <2> HIDE DEF next, Reads
  <2>4. /\ hand'[p].command = hand[p].command /\ hand'[p].next = next(n)
        /\ \A q \in Procs \ {p} : hand'[q] = hand[q]
        /\ hand' \in [Procs -> [command : Commands \cup {None}, profile : Profiles \cup {None},
                                next : Contents \cup {None}]]
    BY <2>1, <2>3 DEF IInv, TypeOK
  <2>6. TypeOK'
    BY <1>a, <2>1, <2>4 DEF IInv, TypeOK
  <2>7. GuardIsHeld'
    BY <1>a, <2>1 DEF IInv, GuardIsHeld
  <2>8. Settled' = Settled /\ Now' = Now
    BY <1>a DEF Settled, Now
  <2>9. ASSUME NEW q \in Procs PROVE HandIsFull(q)' /\ Written(q)' /\ Unseen(q)'
    <3>1. CASE q = p
      <4>1. HandIsFull(p)'
        BY <1>b, <2>1, <2>2, <2>3, <2>4 DEF IInv, HandIsFull, Writing, Repairing, Reading,
           Verified
      <4>2. Written(p)'
        BY <1>b, <2>1 DEF Written, Repairing
      <4>3. Unseen(p)'
        <5>1. ~reviewed => files = Settled.files
          BY DEF IInv, Unreviewed
        <5> QED BY <1>a, <1>b, <2>1, <2>2, <2>3, <2>4, <2>8, <5>1 DEF IInv, Unseen, Verified
      <4> QED BY <3>1, <4>1, <4>2, <4>3
    <3>2. CASE q # p
      BY <1>a, <2>1, <2>4, <2>8, <3>2
        DEF IInv, HandIsFull, Written, Prepared, Unseen
    <3> QED BY <3>1, <3>2
  <2>10. EncryptedForRecipients' /\ Unreviewed'
    BY <1>a, <2>8 DEF IInv, EncryptedForRecipients, Unreviewed
  <2> QED BY <2>6, <2>7, <2>9, <2>10 DEF IInv
<1>d. CASE Stop(p)
  BY <1>a, <1>b, <1>d, StopInv DEF Writing, Repairing
<1> QED BY <1>a, <1>c, <1>d

\* Once it has all the files, what a command has read is a fingerprint.
LEMMA ReadIsFingerprint ==
    ASSUME IInv, NEW p \in Procs, NEW command, HasRead(p, command), NEW f,
           \A n \in Profiles : hand[p].next.files[n] \in {None, f[n]}
    PROVE  hand[p].next = Fingerprint(hand[p].next.config, f)
<1> DEFINE h == hand[p].next
<1>1. /\ h \in Contents
      /\ \A n \in Profiles \ Declared(h.config) : h.files[n] = None
      /\ \A n \in Declared(h.config) : h.files[n] # None
  BY DEF HasRead, HasFiles, At, IInv, HandIsFull, Reading
<1>2. h = [config |-> h.config, files |-> h.files]
      /\ h.files = [n \in Profiles |-> h.files[n]]
  BY <1>1 DEF Contents
<1>3. \A n \in Profiles : h.files[n] = IF n \in Declared(h.config) THEN f[n] ELSE None
  BY <1>1
<1> QED BY <1>2, <1>3 DEF Fingerprint

\* What was not reviewed does not compare equal.
LEMMA CompareInv ==
    ASSUME IInv, NEW p \in Procs, Compare(p)
    PROVE  IInv'
<1>a. /\ pc[p] = "read-files" /\ hand[p].command = "exec" /\ HasRead(p, "exec")
      /\ UNCHANGED <<config, files, local, trust, marker, guard, reviewed, edits, deaths, pulls>>
      /\ \/ trust = hand[p].next /\ Goto(p, "confirm") /\ UNCHANGED hand
         \/ Stop(p)
  BY DEF Compare, HasRead, At, contents
<1>b. CASE Stop(p)
  BY <1>a, <1>b, StopInv DEF Writing, Repairing
<1>c. CASE trust = hand[p].next /\ Goto(p, "confirm") /\ UNCHANGED hand
  <2>1. reviewed
    <3> SUFFICES ASSUME ~reviewed PROVE FALSE
      OBVIOUS
    <3>1. /\ trust # Fingerprint(hand[p].next.config, Settled.files)
          /\ \A n \in Profiles : hand[p].next.files[n] \in {None, Settled.files[n]}
      BY <1>a DEF IInv, Unseen
    <3> QED BY <1>a, <1>c, <3>1, ReadIsFingerprint
  <2>2. pc'[p] = "confirm" /\ \A q \in Procs \ {p} : pc'[q] = pc[q]
    BY <1>c DEF Goto, IInv, TypeOK
  <2>3. TypeOK'
    BY <1>a, <1>c DEF IInv, TypeOK, Goto, Reading
  <2>4. GuardIsHeld'
    BY <1>a, <2>2 DEF IInv, GuardIsHeld, Writing, Repairing
  <2>5. Settled' = Settled /\ Now' = Now
    BY <1>a DEF Settled, Now
  <2>6. ASSUME NEW q \in Procs PROVE HandIsFull(q)' /\ Written(q)' /\ Unseen(q)'
    <3>1. CASE q = p
      BY <1>a, <1>c, <2>1, <2>2, <3>1 DEF IInv, HandIsFull, Written, Unseen, Writing,
         Repairing, Reading, Verified
    <3>2. CASE q # p
      BY <1>a, <1>c, <2>2, <2>5, <3>2 DEF IInv, HandIsFull, Written, Prepared, Unseen
    <3> QED BY <3>1, <3>2
  <2>7. EncryptedForRecipients' /\ Unreviewed'
    BY <1>a, <2>5 DEF IInv, EncryptedForRecipients, Unreviewed
  <2> QED BY <2>3, <2>4, <2>6, <2>7 DEF IInv
<1> QED BY <1>a, <1>b, <1>c

\* The second look lets nothing more pass.
LEMMA ConfirmInv ==
    ASSUME IInv, NEW p \in Procs, Confirm(p)
    PROVE  IInv'
<1> USE DEF Confirm, At, Goto, contents
<1>1. TypeOK'
  BY DEF IInv, TypeOK, Stop, Return, Marker, Commands, Writing, Repairing, Reading,
     EmptyHand
<1>2. GuardIsHeld'
  BY DEF IInv, TypeOK, GuardIsHeld, Writing, Repairing, Reading, Stop, Return
<1>3. ASSUME NEW q \in Procs PROVE HandIsFull(q)'
  BY <1>3 DEF IInv, TypeOK, HandIsFull, Stop, Return, EmptyHand, Writing, Repairing,
     Reading, Renewing, Verified, GuardIsHeld, Contents
<1>4. ASSUME NEW q \in Procs PROVE Written(q)'
  BY <1>4 DEF IInv, TypeOK, GuardIsHeld, Written, Stop, Return, Writing, Repairing,
     Prepared, Now, HandIsFull
<1>5. Settled' = Settled
  BY DEF IInv, Settled, Now, Written, Prepared, Stop, Return, TypeOK, Marker
<1>6. EncryptedForRecipients'
  BY <1>5 DEF IInv, EncryptedForRecipients
<1>7. Unreviewed'
  BY <1>5 DEF IInv, TypeOK, Unreviewed, Stop, Return, Written, Prepared, Settled, Now,
     GuardIsHeld, HandIsFull, Writing, Repairing
<1>8. ASSUME NEW q \in Procs PROVE Unseen(q)'
  BY <1>5, <1>8 DEF IInv, TypeOK, Unseen, Stop, Return, EmptyHand, Verified, HandIsFull,
     Writing, Repairing, Reading
<1> QED BY <1>1, <1>2, <1>3, <1>4, <1>6, <1>7, <1>8 DEF IInv

\* The values are read and the command ends.
LEMMA DecryptInv ==
    ASSUME IInv, NEW p \in Procs, Decrypt(p)
    PROVE  IInv'
<1> USE DEF Decrypt, At, Goto, contents
<1>1. TypeOK'
  BY DEF IInv, TypeOK, Stop, Return, Marker, Commands, Writing, Repairing, Reading,
     EmptyHand
<1>2. GuardIsHeld'
  BY DEF IInv, TypeOK, GuardIsHeld, Writing, Repairing, Reading, Stop, Return
<1>3. ASSUME NEW q \in Procs PROVE HandIsFull(q)'
  BY <1>3 DEF IInv, TypeOK, HandIsFull, Stop, Return, EmptyHand, Writing, Repairing,
     Reading, Renewing, Verified, GuardIsHeld, Contents
<1>4. ASSUME NEW q \in Procs PROVE Written(q)'
  BY <1>4 DEF IInv, TypeOK, GuardIsHeld, Written, Stop, Return, Writing, Repairing,
     Prepared, Now, HandIsFull
<1>5. Settled' = Settled
  BY DEF IInv, Settled, Now, Written, Prepared, Stop, Return, TypeOK, Marker
<1>6. EncryptedForRecipients'
  BY <1>5 DEF IInv, EncryptedForRecipients
<1>7. Unreviewed'
  BY <1>5 DEF IInv, TypeOK, Unreviewed, Stop, Return, Written, Prepared, Settled, Now,
     GuardIsHeld, HandIsFull, Writing, Repairing
<1>8. ASSUME NEW q \in Procs PROVE Unseen(q)'
  BY <1>5, <1>8 DEF IInv, TypeOK, Unseen, Stop, Return, EmptyHand, Verified, HandIsFull,
     Writing, Repairing, Reading
<1> QED BY <1>1, <1>2, <1>3, <1>4, <1>6, <1>7, <1>8 DEF IInv

\* Without a trust nothing is trusted.
LEMMA TrustRevokeInv ==
    ASSUME IInv, NEW p \in Procs, TrustRevoke(p)
    PROVE  IInv'
<1> USE DEF TrustRevoke, At, Goto, contents
<1>1. TypeOK'
  BY DEF IInv, TypeOK, Stop, Return, Marker, Commands, Writing, Repairing, Reading,
     EmptyHand
<1>2. GuardIsHeld'
  BY DEF IInv, TypeOK, GuardIsHeld, Writing, Repairing, Reading, Stop, Return
<1>3. ASSUME NEW q \in Procs PROVE HandIsFull(q)'
  BY <1>3 DEF IInv, TypeOK, HandIsFull, Stop, Return, EmptyHand, Writing, Repairing,
     Reading, Renewing, Verified, GuardIsHeld, Contents
<1>4. ASSUME NEW q \in Procs PROVE Written(q)'
  BY <1>4 DEF IInv, TypeOK, GuardIsHeld, Written, Stop, Return, Writing, Repairing,
     Prepared, Now, HandIsFull
<1>5. Settled' = Settled
  BY DEF IInv, Settled, Now, Written, Prepared, Stop, Return, TypeOK, Marker
<1>6. EncryptedForRecipients'
  BY <1>5 DEF IInv, EncryptedForRecipients
<1>7. Unreviewed'
  BY <1>5, PartsType, FingerprintType DEF IInv, Unreviewed
<1>8. ASSUME NEW q \in Procs PROVE Unseen(q)'
  BY <1>5, <1>8, PartsType, FingerprintType DEF IInv, TypeOK, Unseen, HandIsFull,
     Reading, Contents
<1> QED BY <1>1, <1>2, <1>3, <1>4, <1>6, <1>7, <1>8 DEF IInv

\* A killed command leaves its lock and nothing in memory.
LEMMA DieInv ==
    ASSUME IInv, NEW p \in Procs, Die(p)
    PROVE  IInv'
<1> USE DEF Die, At, Goto, contents
<1>1. TypeOK'
  BY DEF IInv, TypeOK, Stop, Return, Marker, Commands, Writing, Repairing, Reading,
     EmptyHand
<1>2. GuardIsHeld'
  BY DEF IInv, TypeOK, GuardIsHeld, Writing, Repairing, Reading, Stop, Return
<1>3. ASSUME NEW q \in Procs PROVE HandIsFull(q)'
  BY <1>3 DEF IInv, TypeOK, HandIsFull, Stop, Return, EmptyHand, Writing, Repairing,
     Reading, Renewing, Verified, GuardIsHeld, Contents
<1>4. ASSUME NEW q \in Procs PROVE Written(q)'
  BY <1>4 DEF IInv, TypeOK, GuardIsHeld, Written, Stop, Return, Writing, Repairing,
     Prepared, Now, HandIsFull
<1>5. Settled' = Settled
  BY DEF IInv, Settled, Now, Written, Prepared, Stop, Return, TypeOK, Marker
<1>6. EncryptedForRecipients'
  BY <1>5 DEF IInv, EncryptedForRecipients
<1>7. Unreviewed'
  BY <1>5 DEF IInv, TypeOK, Unreviewed, Stop, Return, Written, Prepared, Settled, Now,
     GuardIsHeld, HandIsFull, Writing, Repairing
<1>8. ASSUME NEW q \in Procs PROVE Unseen(q)'
  BY <1>5, <1>8 DEF IInv, TypeOK, Unseen, Stop, Return, EmptyHand, Verified, HandIsFull,
     Writing, Repairing, Reading
<1> QED BY <1>1, <1>2, <1>3, <1>4, <1>6, <1>7, <1>8 DEF IInv

\* A project that an edit finds trusted was reviewed.
LEMMA TrustedIsReviewed ==
    ASSUME IInv, marker = None, RequireCurrentTrust
    PROVE  reviewed
  BY DEF IInv, Unreviewed, RequireCurrentTrust, Trusted, Settled, Now

\* An edit takes the lock and prepares what it is going to write.
LEMMA PrepareInv ==
    ASSUME IInv, NEW p \in Procs,
           NEW command \in Renewing \cup {"configure"}, NEW n \in Profiles \cup {None},
           NEW next \in Edits(Now), NEW step \in {"check-again", "begin"},
           Take(p), Prepare(p, command, n, next, step),
           command \in Renewing => RequireCurrentTrust,
           command = "configure" => n = None /\ \E rest \in Rests : next = Reconfigured(Now, rest),
           IF n = None THEN next.files = files
                       ELSE next.files = [files EXCEPT ![n] = next.files[n]]
    PROVE  IInv'
<1> DEFINE h == [command |-> command, profile |-> n, next |-> next]
<1>a. /\ pc[p] = "idle" /\ guard = None /\ marker = None
      /\ guard' = p /\ edits < MaxEdits /\ edits' = edits + 1
      /\ hand' = [hand EXCEPT ![p] = h] /\ pc' = [pc EXCEPT ![p] = step]
      /\ UNCHANGED <<config, files, local, trust, marker, reviewed, deaths, pulls>>
  BY DEF Take, Prepare, At, Goto, contents
<1>b. Now = Settled /\ Now \in Contents /\ Consistent(Now) /\ Now.files = files
  BY <1>a, PartsType DEF IInv, EncryptedForRecipients, Settled, Now
<1>c. next \in Contents
  BY <1>b, EditsKeep
<1>d. hand' \in [Procs -> [command : Commands \cup {None}, profile : Profiles \cup {None},
                           next : Contents \cup {None}]]
  BY <1>a, <1>c DEF IInv, TypeOK, Commands, Renewing
<1>e. hand'[p] = h /\ \A q \in Procs \ {p} : hand'[q] = hand[q] /\ pc'[q] = pc[q]
  BY <1>a DEF IInv, TypeOK
<1>f. pc'[p] = step
  BY <1>a DEF IInv, TypeOK
<1>g. command \in Renewing => reviewed
  BY <1>a, TrustedIsReviewed
<1>h. Now' = Now /\ Settled' = Settled
  BY <1>a DEF Now, Settled
<1>i. Proposes(h, Now)
  BY <1>b DEF Proposes
<1> HIDE DEF h
<1>1. TypeOK'
  BY <1>a, <1>d DEF IInv, TypeOK, Writing
<1>2. GuardIsHeld'
  BY <1>a, <1>f, <1>e DEF IInv, GuardIsHeld, Writing
<1>3. ASSUME NEW q \in Procs PROVE HandIsFull(q)'
  <2>1. CASE q = p
    BY <2>1, <1>a, <1>e, <1>f, <1>g DEF HandIsFull, h, Renewing, Repairing, Reading,
       Verified
  <2>2. CASE q # p
    BY <2>2, <1>a, <1>e DEF IInv, HandIsFull
  <2> QED BY <2>1, <2>2
<1>4. ASSUME NEW q \in Procs PROVE Written(q)'
  <2>1. CASE q = p
    BY <2>1, <1>a, <1>e, <1>f, <1>h, <1>i DEF Written, Repairing
  <2>2. CASE q # p
    BY <2>2, <1>a, <1>e, <1>h DEF IInv, Written, Prepared
  <2> QED BY <2>1, <2>2
<1>6. EncryptedForRecipients'
  BY <1>h DEF IInv, EncryptedForRecipients
<1>7. Unreviewed'
  BY <1>a, <1>h DEF IInv, Unreviewed
<1>8. ASSUME NEW q \in Procs PROVE Unseen(q)'
  <2>1. CASE q = p
    BY <2>1, <1>e, <1>f DEF Unseen, h, Renewing
  <2>2. CASE q # p
    BY <2>2, <1>a, <1>e, <1>h DEF IInv, Unseen
  <2> QED BY <2>1, <2>2
<1> QED BY <1>1, <1>2, <1>3, <1>4, <1>6, <1>7, <1>8 DEF IInv

\* Every edit starts that way.
LEMMA StartsInv ==
    ASSUME IInv, NEW p \in Procs,
           \/ ProfileInit(p) \/ ProfileUse(p) \/ ProfileSet(p)
           \/ ProfileUnset(p) \/ AccessGrant(p) \/ AccessRevoke(p) \/ Configure(p)
    PROVE  IInv'
<1>a. marker = None
  BY DEF ProfileInit, ProfileUse, ProfileSet, ProfileUnset,
     AccessGrant, AccessRevoke, Configure, Take
<1>b. Now \in Contents /\ Consistent(Now)
  BY <1>a, PartsType DEF IInv, EncryptedForRecipients, Settled
<1>c. Now.files = files
  BY DEF Now
<1>1. CASE ProfileInit(p)
  <2>1. PICK n \in Profiles :
          /\ Take(p) /\ RequireCurrentTrust /\ CanInit(Now, n)
          /\ Prepare(p, "init", n, Initialized(Now, n), "begin")
    BY <1>1 DEF ProfileInit
  <2>2. Initialized(Now, n) \in Edits(Now)
    BY <2>1 DEF Edits, ByInit
  <2> QED BY <1>b, <1>c, <2>1, <2>2, InitializedKeeps, PrepareInv DEF Renewing
<1>2. CASE ProfileUse(p)
  <2>1. PICK n \in Profiles \cup {None} :
          /\ Take(p) /\ RequireCurrentTrust /\ CanUse(Now, n)
          /\ Prepare(p, "use", None, Defaulting(Now, n), "begin")
    BY <1>2 DEF ProfileUse
  <2>2. Defaulting(Now, n) \in Edits(Now)
    BY <2>1 DEF Edits, ByUse
  <2> QED BY <1>b, <1>c, <2>1, <2>2, ConfiguredKeeps, PrepareInv DEF Renewing
<1>3. CASE ProfileSet(p)
  <2>1. PICK n \in Profiles, v \in Variables, x \in Values :
          /\ Take(p) /\ RequireCurrentTrust /\ CanEdit(Now, n)
          /\ Prepare(p, "values", n, WithValue(Now, n, v, x), "check-again")
    BY <1>3 DEF ProfileSet
  <2>2. WithValue(Now, n, v, x) \in Edits(Now)
    BY <2>1 DEF Edits, BySet
  <2>3. [value |-> x, readers |-> Now.config.profiles[n].recipients] \in Encrypted
    BY <1>b, <2>1 DEF CanEdit, Contents, Config, Authorization, Encrypted
  <2>4. PICK t : t = WithValue(Now, n, v, x)
    OBVIOUS
  <2>t. t.files = [Now.files EXCEPT ![n] = t.files[n]]
    BY <1>b, <2>1, <2>3, ValuesKeep, <2>4 DEF WithValue
  <2> QED BY <1>b, <1>c, <2>1, <2>2, <2>4, <2>t, PrepareInv DEF Renewing
<1>4. CASE ProfileUnset(p)
  <2>1. PICK n \in Profiles, v \in Variables :
          /\ Take(p) /\ RequireCurrentTrust /\ CanEdit(Now, n)
          /\ Prepare(p, "values", n, WithoutValue(Now, n, v), "check-again")
    BY <1>4 DEF ProfileUnset
  <2>2. WithoutValue(Now, n, v) \in Edits(Now)
    BY <2>1 DEF Edits, ByUnset
  <2>3. PICK t : t = WithoutValue(Now, n, v)
    OBVIOUS
  <2>t. t.files = [Now.files EXCEPT ![n] = t.files[n]]
    BY <1>b, <2>1, ValuesKeep, <2>3 DEF WithoutValue
  <2> QED BY <1>b, <1>c, <2>1, <2>2, <2>3, <2>t, PrepareInv DEF Renewing
<1>5. CASE AccessGrant(p)
  <2>1. PICK n \in Profiles, r \in Requests, k \in Keys :
          /\ Take(p) /\ RequireCurrentTrust /\ CanGrant(Now, n, r)
          /\ Prepare(p, "values", n, Granted(Now, n, r, k), "check-again")
    BY <1>5 DEF AccessGrant
  <2>2. Granted(Now, n, r, k) \in Edits(Now)
    BY <2>1 DEF Edits, ByGrant
  <2>3. Granted(Now, n, r, k).files = [Now.files EXCEPT ![n] = Granted(Now, n, r, k).files[n]]
    BY <1>b, GrantedFrame
  <2> QED BY <1>b, <1>c, <2>1, <2>2, <2>3, PrepareInv DEF Renewing
<1>6. CASE AccessRevoke(p)
  <2>1. PICK n \in Profiles, r \in Requests :
          /\ Take(p) /\ RequireCurrentTrust /\ CanRevoke(Now, n, r)
          /\ Prepare(p, "values", n, Revoked(Now, n, r), "check-again")
    BY <1>6 DEF AccessRevoke
  <2>2. Revoked(Now, n, r) \in Edits(Now)
    BY <2>1 DEF Edits, ByRevoke
  <2>3. Revoked(Now, n, r).files = [Now.files EXCEPT ![n] = Revoked(Now, n, r).files[n]]
    BY <1>b, RevokedFrame
  <2> QED BY <1>b, <1>c, <2>1, <2>2, <2>3, PrepareInv DEF Renewing
<1>7. CASE Configure(p)
  <2>1. PICK rest \in Rests :
          Take(p) /\ Prepare(p, "configure", None, Reconfigured(Now, rest), "begin")
    BY <1>7 DEF Configure
  <2>2. Reconfigured(Now, rest) \in Edits(Now)
    BY <2>1 DEF Edits, ByConfigure
  <2> QED BY <1>b, <1>c, <2>1, <2>2, ConfiguredKeeps, PrepareInv DEF Renewing
<1> QED BY <1>1, <1>2, <1>3, <1>4, <1>5, <1>6, <1>7

\* env remove has looked for its profile, and waits for the lock.
LEMMA ProfileRemoveInv ==
    ASSUME IInv, NEW p \in Procs, ProfileRemove(p)
    PROVE  IInv'
<1>a. PICK n \in Profiles :
        /\ pc[p] = "idle" /\ edits < MaxEdits /\ edits' = edits + 1
        /\ hand' = [hand EXCEPT ![p] = [command |-> "remove", profile |-> n, next |-> None]]
        /\ pc' = [pc EXCEPT ![p] = "want-remove"]
        /\ UNCHANGED <<config, files, local, trust, marker, guard, reviewed, deaths, pulls>>
  BY DEF ProfileRemove, Prepare, At, Goto, contents
<1>1. /\ pc'[p] = "want-remove"
      /\ hand'[p] = [command |-> "remove", profile |-> n, next |-> None]
      /\ \A q \in Procs \ {p} : pc'[q] = pc[q] /\ hand'[q] = hand[q]
  BY <1>a DEF IInv, TypeOK
<1>2. TypeOK'
  BY <1>a DEF IInv, TypeOK, Commands
<1>3. GuardIsHeld'
  BY <1>a, <1>1 DEF IInv, GuardIsHeld, Writing, Repairing
<1>4. Settled' = Settled /\ Now' = Now
  BY <1>a DEF Settled, Now
<1>5. ASSUME NEW q \in Procs PROVE HandIsFull(q)' /\ Written(q)' /\ Unseen(q)'
  <2>1. CASE q = p
    BY <1>1, <2>1 DEF HandIsFull, Written, Unseen, Writing, Repairing, Reading, Verified
  <2>2. CASE q # p
    BY <1>a, <1>1, <1>4, <2>2 DEF IInv, HandIsFull, Written, Prepared, Unseen
  <2> QED BY <2>1, <2>2
<1>6. EncryptedForRecipients' /\ Unreviewed'
  BY <1>a, <1>4 DEF IInv, EncryptedForRecipients, Unreviewed
<1> QED BY <1>2, <1>3, <1>5, <1>6 DEF IInv

\* With the lock, it asks for the trust, and removes what it has looked for.
LEMMA TakeRemoveInv ==
    ASSUME IInv, NEW p \in Procs, TakeRemove(p)
    PROVE  IInv'
<1> DEFINE n == hand[p].profile
<1>a. /\ pc[p] = "want-remove" /\ guard = None
      /\ UNCHANGED <<config, files, local, trust, marker, reviewed, edits, deaths, pulls>>
      /\ hand[p].command = "remove" /\ n \in Profiles
      /\ \/ /\ marker = None /\ RequireCurrentTrust /\ guard' = p
            /\ hand' = [hand EXCEPT ![p].next = Removed(Now, n)]
            /\ Goto(p, "begin")
         \/ guard' = None /\ Stop(p)
  BY DEF TakeRemove, Return, At, contents, IInv, HandIsFull, TypeOK
<1>b. CASE guard' = None /\ Stop(p)
  BY <1>a, <1>b, StopInv DEF Writing, Repairing
<1>c. CASE /\ marker = None /\ RequireCurrentTrust /\ guard' = p
           /\ hand' = [hand EXCEPT ![p].next = Removed(Now, n)]
           /\ Goto(p, "begin")
  <2>1. Now = Settled /\ Now \in Contents /\ Consistent(Now)
    BY <1>c, PartsType DEF IInv, EncryptedForRecipients, Settled
  <2>2. /\ Removed(Now, n) \in Contents /\ Removed(Now, n) \in Edits(Now)
        /\ Removed(Now, n).files = [Now.files EXCEPT ![n] = Removed(Now, n).files[n]]
    BY <1>a, <2>1, RemovedKeeps DEF Edits, ByRemove
  <2> HIDE DEF n
  <2>3. /\ pc'[p] = "begin"
        /\ hand'[p].next = Removed(Now, n) /\ hand'[p].command = "remove"
        /\ hand'[p].profile = n
        /\ \A q \in Procs \ {p} : pc'[q] = pc[q] /\ hand'[q] = hand[q]
    BY <1>a, <1>c DEF IInv, TypeOK, Goto, n
  <2>4. TypeOK'
    BY <1>a, <1>c, <2>2 DEF IInv, TypeOK, Goto, Writing
  <2>5. GuardIsHeld'
    BY <1>a, <1>c, <2>3 DEF IInv, GuardIsHeld, Writing
  <2>6. Settled' = Settled /\ Now' = Now /\ reviewed
    BY <1>a, <1>c, TrustedIsReviewed DEF Settled, Now
  <2>7. ASSUME NEW q \in Procs PROVE HandIsFull(q)' /\ Written(q)' /\ Unseen(q)'
    <3>1. CASE q = p
      <4>1. HandIsFull(p)' /\ Unseen(p)'
        BY <1>a, <2>3, <2>6 DEF HandIsFull, Unseen, Renewing, Repairing, Reading, Verified
      <4>2. Proposes(hand'[p], Now)
        BY <1>a, <2>2, <2>3 DEF Proposes
      <4>3. Written(p)'
        BY <1>a, <1>c, <2>3, <2>6, <4>2 DEF Written, Repairing
      <4> QED BY <3>1, <4>1, <4>3
    <3>2. CASE q # p
      BY <1>a, <2>3, <2>6, <3>2 DEF IInv, HandIsFull, Written, Prepared, Unseen
    <3> QED BY <3>1, <3>2
  <2>8. EncryptedForRecipients' /\ Unreviewed'
    BY <1>a, <2>6 DEF IInv, EncryptedForRecipients, Unreviewed
  <2> QED BY <2>4, <2>5, <2>7, <2>8 DEF IInv
<1> QED BY <1>a, <1>b, <1>c

\* What is alike differs by what Configure may write.
LEMMA AlikeIsReconfigured ==
    ASSUME NEW s \in Contents, NEW c \in Config, Alike(c, s.config)
    PROVE  /\ c.rest \in Rests
           /\ Reconfigured(s, c.rest).config = c
           /\ Reconfigured(s, c.rest).files = s.files
<1> DEFINE d == [s.config EXCEPT !.rest = c.rest]
<1>1. s.config \in Config /\ c.rest \in Rests
  BY DEF Contents, Config
<1>2. d \in Config /\ d.profiles = c.profiles /\ d.default = c.default /\ d.rest = c.rest
  BY <1>1 DEF Config, Alike
<1>3. d = c
  <2> HIDE DEF d
  <2> QED BY <1>2 DEF Config
<1> QED BY <1>1, <1>3 DEF Reconfigured, Contents

\* The commit makes the edit the contents: consistent ones, and reviewed if the
\* contents before were.
LEMMA CommitInv ==
    ASSUME IInv, NEW p \in Procs, Commit(p)
    PROVE  /\ IInv'
           /\ Settled' \in Edits(Settled)
<1> USE DEF Commit, At, Goto, contents
<1>a. /\ marker \in Marker /\ marker.phase = "prepared"
      /\ Settled = marker.before /\ Now = hand[p].next
      /\ Proposes(hand[p], marker.before)
  BY DEF IInv, TypeOK, Written, Prepared, Settled
<1>b. marker' \in Marker /\ marker'.phase = "committed"
  BY <1>a DEF Marker
<1>c. Settled' = hand[p].next /\ Now' = hand[p].next
  BY <1>a, <1>b DEF Settled, Now
<1>d. files = hand[p].next.files /\ config = hand[p].next.config
  BY <1>a DEF Now
<1>e. ~reviewed' => /\ ~reviewed /\ trust # Fingerprint(config, files)
                    /\ files = marker.before.files
                    /\ Alike(config, marker.before.config)
  <2> SUFFICES ASSUME ~reviewed'
               PROVE  /\ ~reviewed /\ trust # Fingerprint(config, files)
                      /\ files = marker.before.files
                      /\ Alike(config, marker.before.config)
    OBVIOUS
  <2>1. ~reviewed /\ trust # Fingerprint(config, files)
    OBVIOUS
  <2>2. hand[p].command = "configure"
    BY <2>1 DEF IInv, HandIsFull, Writing
  <2>3. PICK rest \in Rests : hand[p].next = Reconfigured(marker.before, rest)
    BY <1>a, <2>2 DEF Proposes
  <2>4. marker.before \in Contents /\ Consistent(marker.before)
    BY <1>a, PartsType DEF IInv, EncryptedForRecipients
  <2> QED BY <1>d, <2>1, <2>3, <2>4, ConfiguredKeeps
<1>1. TypeOK'
  BY <1>b DEF IInv, TypeOK, Writing
<1>2. GuardIsHeld'
  BY DEF IInv, TypeOK, GuardIsHeld, Writing
<1>3. ASSUME NEW q \in Procs PROVE HandIsFull(q)'
  BY <1>3 DEF IInv, TypeOK, HandIsFull, EmptyHand, Writing, Repairing, Reading, Verified
<1>4. ASSUME NEW q \in Procs PROVE Written(q)'
  <2>1. CASE q = p
    BY <1>b, <2>1 DEF IInv, TypeOK, Written, Prepared, Repairing
  <2>2. CASE q # p
    BY <2>2, GuardAlone DEF IInv, TypeOK, Written, Writing, Repairing
  <2> QED BY <2>1, <2>2
<1>6. EncryptedForRecipients'
  BY <1>c, ProposedType DEF EncryptedForRecipients
<1>7. Unreviewed'
  BY <1>a, <1>c, <1>d, <1>e DEF IInv, Unreviewed, Alike, Declared
<1>8. ASSUME NEW q \in Procs PROVE Unseen(q)'
  BY <1>8, <1>a, <1>c, <1>d, <1>e DEF IInv, TypeOK, Unseen, Alike, Verified
<1>9. Settled' \in Edits(Settled)
  BY <1>c, ProposedType
<1> QED BY <1>1, <1>2, <1>3, <1>4, <1>6, <1>7, <1>8, <1>9 DEF IInv

\* What the user trusts was shown to the user: if it is what is there, but for
\* the rest of the configuration, that is reviewed from now on.
LEMMA RecordTrustInv ==
    ASSUME IInv, NEW p \in Procs, RecordTrust(p)
    PROVE  IInv'
<1> USE DEF RecordTrust, HasRead, At, Goto, Stop, contents
<1>a. hand[p].next \in Contents /\ hand[p].command = "trust"
  BY DEF IInv, HandIsFull, Reading
<1>b. Settled' = Settled /\ Settled \in Contents
  BY PartsType DEF Settled, Now
<1>c. ASSUME ~reviewed', NEW c \in Config, Alike(c, Settled.config)
      PROVE  ~reviewed /\ hand[p].next # Fingerprint(c, Settled.files)
  <2>1. \A rest \in Rests : hand[p].next #
          Fingerprint(Reconfigured(Settled, rest).config, Reconfigured(Settled, rest).files)
    BY <1>c
  <2>2. /\ c.rest \in Rests /\ Reconfigured(Settled, c.rest).config = c
        /\ Reconfigured(Settled, c.rest).files = Settled.files
    BY <1>b, <1>c, AlikeIsReconfigured
  <2>3. ~reviewed
    BY <1>c
  <2> QED BY <2>1, <2>2, <2>3
<1>1. TypeOK'
  BY <1>a DEF IInv, TypeOK, EmptyHand
<1>2. GuardIsHeld'
  BY DEF IInv, TypeOK, GuardIsHeld, Writing, Repairing
<1>3. ASSUME NEW q \in Procs PROVE HandIsFull(q)'
  BY <1>3 DEF IInv, TypeOK, HandIsFull, EmptyHand, Writing, Repairing, Reading, Verified
<1>4. ASSUME NEW q \in Procs PROVE Written(q)'
  BY <1>4 DEF IInv, TypeOK, Written, Prepared, Repairing, Now
<1>6. EncryptedForRecipients'
  BY <1>b DEF IInv, EncryptedForRecipients
<1>7. Unreviewed'
  <2>1. Settled.config \in Config /\ Alike(Settled.config, Settled.config)
    BY PartsType DEF Alike
  <2> QED BY <1>b, <1>c, <2>1 DEF IInv, Unreviewed
<1>8. ASSUME NEW q \in Procs PROVE Unseen(q)'
  <2>1. CASE q = p
    BY <2>1 DEF IInv, TypeOK, Unseen, EmptyHand, Verified
  <2>2. CASE q # p
    <3>1. hand[q]' = hand[q] /\ pc[q]' = pc[q]
      BY <1>8, <2>2 DEF IInv, TypeOK
    <3>2. pc[q] = "read-files" => hand[q].next.config \in Config
      BY <1>8 DEF IInv, HandIsFull, Reading, Contents
    <3> QED BY <1>8, <1>b, <1>c, <3>1, <3>2 DEF IInv, Unseen
  <2> QED BY <2>1, <2>2
<1> QED BY <1>1, <1>2, <1>3, <1>4, <1>6, <1>7, <1>8 DEF IInv

\* A pull meets no command that writes and no exec that has read.
LEMMA PullInv ==
    ASSUME IInv, Pull
    PROVE  /\ IInv'
           /\ Settled' \in Pulled
<1>1. PICK s \in Pulled :
        /\ pulls < MaxPulls /\ guard = None /\ marker = None
        /\ \A p \in Procs : hand[p].command = "exec" => pc[p] = "read-config"
        /\ pulls' = pulls + 1 /\ config' = s.config /\ files' = s.files
        /\ reviewed' = (Declared(s.config) = {} \/ trust = Fingerprint(s.config, s.files))
        /\ UNCHANGED <<local, trust, marker, guard, pc, hand, edits, deaths>>
  BY DEF Pull, At
<1>2. s \in Contents /\ Consistent(s) /\ s = [config |-> s.config, files |-> s.files]
  BY PulledAssumption DEF Contents
<1>3. Settled' = s /\ Now' = s
  BY <1>1, <1>2 DEF Settled, Now
<1>4. TypeOK'
  BY <1>1, <1>2 DEF IInv, TypeOK
<1>5. GuardIsHeld' /\ \A p \in Procs : pc[p] \notin Writing \cup Repairing
  BY <1>1 DEF IInv, GuardIsHeld
<1>6. ASSUME NEW q \in Procs PROVE HandIsFull(q)' /\ Written(q)' /\ Unseen(q)'
  <2>1. HandIsFull(q)'
    BY <1>1, <1>5, <1>6 DEF IInv, HandIsFull
  <2>2. Written(q)'
    BY <1>1, <1>5, <1>6 DEF Written, Writing, Repairing
  <2>3. Unseen(q)'
    BY <1>1, <1>6 DEF Unseen, Verified
  <2> QED BY <2>1, <2>2, <2>3
<1>7. EncryptedForRecipients'
  BY <1>2, <1>3 DEF EncryptedForRecipients
<1>8. Unreviewed'
  BY <1>1, <1>3 DEF Unreviewed, Alike
<1> QED BY <1>3, <1>4, <1>5, <1>6, <1>7, <1>8 DEF IInv

\* The invariant holds in a project as it was cloned, or as edits have left it.
LEMMA InitInv == Init => IInv
<1> SUFFICES ASSUME Init PROVE IInv
  OBVIOUS
<1>1. PICK s \in InitialContents : config = s.config /\ files = s.files
  BY DEF Init
<1>2. s \in Contents /\ Consistent(s) /\ s = [config |-> s.config, files |-> s.files]
  BY PulledAssumption DEF Contents
<1>3. Now = s /\ Settled = s
  BY <1>1, <1>2 DEF Init, Settled, Now
<1>4. Fingerprint(config, files) \in Contents
  BY <1>1, <1>2, FingerprintType DEF Contents
<1>5. TypeOK
  BY <1>1, <1>2, <1>4 DEF Init, TypeOK, EmptyHand
<1>6. GuardIsHeld /\ \A p \in Procs : HandIsFull(p) /\ Written(p) /\ Unseen(p)
  BY DEF Init, GuardIsHeld, HandIsFull, Written, Unseen, EmptyHand, Writing, Repairing,
     Reading, Verified
<1>7. EncryptedForRecipients
  BY <1>2, <1>3 DEF EncryptedForRecipients
<1>8. Unreviewed
  BY <1>1, <1>3, <1>4 DEF Init, Unreviewed, Alike
<1> QED BY <1>5, <1>6, <1>7, <1>8 DEF IInv

LEMMA StutterInv == IInv /\ UNCHANGED vars => IInv'
<1> SUFFICES ASSUME IInv, UNCHANGED vars PROVE IInv'
  OBVIOUS
<1> USE DEF vars, contents
<1>1. Settled' = Settled /\ Now' = Now
  BY DEF Settled, Now
<1>2. TypeOK' /\ GuardIsHeld' /\ EncryptedForRecipients' /\ Unreviewed'
  BY <1>1 DEF IInv, TypeOK, GuardIsHeld, EncryptedForRecipients, Unreviewed
<1>3. ASSUME NEW p \in Procs PROVE HandIsFull(p)' /\ Written(p)' /\ Unseen(p)'
  BY <1>1, <1>3 DEF IInv, HandIsFull, Written, Prepared, Unseen
<1> QED BY <1>2, <1>3 DEF IInv

LEMMA NextInv == IInv /\ [Next]_vars => IInv'
<1> SUFFICES ASSUME IInv, Next PROVE IInv'
  BY StutterInv
<1>1. CASE Pull
  BY <1>1, PullInv
<1>2. ASSUME NEW p \in Procs, Edit(p) \/ Write(p) \/ Recover(p) \/ Use(p) \/ Die(p)
      PROVE  IInv'
  <2>1. CASE Edit(p)
    BY <2>1, StartsInv, ProfileUseLocalInv, ProfileRemoveInv, TakeRemoveInv DEF Edit
  <2>2. CASE Write(p)
    BY <2>2, CheckAgainInv, BeginInv, WriteConfigInv, WriteFileInv, FileIsGoneInv,
       DropLocalInv, CommitInv, ClearMarkerInv, RefreshTrustInv DEF Write
  <2>3. CASE Recover(p)
    BY <2>3, RepairInv, RestoreConfigInv, RestoreFileInv, MarkRecoveredInv DEF Recover
  <2>4. CASE Use(p)
    BY <2>4, ExecInv, TrustAddInv, TrustRevokeInv, ReadConfigInv, ReadFileInv,
       RecordTrustInv, CompareInv, ConfirmInv, DecryptInv DEF Use
  <2> QED BY <1>2, <2>1, <2>2, <2>3, <2>4, DieInv
<1> QED BY <1>1, <1>2 DEF Next

-----------------------------------------------------------------------------
\* The inductive invariant of the commands on encrypted profiles.
THEOREM ProfilesInvariantHolds == Spec => []IInv
  BY InitInv, NextInv, PTL DEF Spec

\* Every value in an encrypted profile can be read by the recipients its
\* configuration names and by no one else, and the default profile exists,
\* whatever edits ran at once or died.
THEOREM ProfilesStayEncrypted == Spec => []EncryptedForRecipients
<1>1. IInv => EncryptedForRecipients
  BY DEF IInv
<1> QED BY <1>1, ProfilesInvariantHolds, PTL

LEMMA InvariantIsReviewed == IInv => OnlyReviewedIsTrusted
<1> SUFFICES ASSUME IInv PROVE OnlyReviewedIsTrusted
  OBVIOUS
<1>1. Declared(config) # {} /\ marker = None /\ Trusted => reviewed
  BY TrustedIsReviewed DEF RequireCurrentTrust
<1>2. ASSUME NEW p \in Procs, pc[p] \in Verified PROVE reviewed
  BY <1>2 DEF IInv, HandIsFull, Unseen
<1> QED BY <1>1, <1>2 DEF OnlyReviewedIsTrusted

\* Neither an edit that renews the trust nor a trust add that reads while
\* others write lets exec decrypt what nobody reviewed.
THEOREM TrustIsReviewed == Spec => []OnlyReviewedIsTrusted
  BY InvariantIsReviewed, ProfilesInvariantHolds, PTL

\* Only the commit of an edit and a pull change what a reader finds once every
\* unfinished transaction is recovered.
LEMMA NextRefines == IInv /\ [Next]_vars => [Store!Next]_Settled
<1> SUFFICES ASSUME IInv, [Next]_vars PROVE [Store!Next]_Settled
  OBVIOUS
<1> USE DEF At, Goto, Stop, Return, contents
<1>1. CASE UNCHANGED vars
  BY <1>1 DEF vars, Settled, Now
<1>2. CASE Pull
  BY <1>2, PullInv DEF Store!Next, Store!Pull
<1>3. ASSUME NEW p \in Procs, Edit(p) \/ Use(p) \/ Die(p) PROVE Settled' = Settled
  BY <1>3 DEF Edit, Use, Die, ProfileInit, ProfileUse, ProfileUseLocal, ProfileRemove,
     TakeRemove, ProfileSet, ProfileUnset, AccessGrant, AccessRevoke, Configure, Take, Prepare,
     Exec, TrustAdd, TrustRevoke, ReadConfig, ReadFile, RecordTrust, Compare, Confirm,
     Decrypt, Settled, Now
<1>4. ASSUME NEW p \in Procs, CheckAgain(p) \/ FileIsGone(p) \/ DropLocal(p)
                                \/ RefreshTrust(p) \/ Repair(p)
      PROVE  Settled' = Settled
  BY <1>4 DEF CheckAgain, FileIsGone, DropLocal, RefreshTrust, Repair, Settled, Now
<1>5. ASSUME NEW p \in Procs, Begin(p) PROVE Settled' = Settled
  BY <1>5, PartsType DEF Begin, IInv, Written, Settled, Now, Marker
<1>6. ASSUME NEW p \in Procs, WriteConfig(p) \/ WriteFile(p) \/ RestoreConfig(p) \/ RestoreFile(p)
      PROVE  Settled' = Settled
  BY <1>6 DEF WriteConfig, WriteFile, RestoreConfig, RestoreFile, IInv, Written,
     Repairing,
     Prepared, Settled
<1>7. ASSUME NEW p \in Procs, ClearMarker(p) PROVE Settled' = Settled
  BY <1>7 DEF ClearMarker, IInv, Written, Prepared, Settled, Now
<1>8. ASSUME NEW p \in Procs, MarkRecovered(p) PROVE Settled' = Settled
  BY <1>8, MarkRecoveredSettles
<1>9. ASSUME NEW p \in Procs, Commit(p) PROVE Store!Next
  BY <1>9, CommitInv DEF Store!Next, Store!Edit
<1> QED BY <1>1, <1>2, <1>3, <1>4, <1>5, <1>6, <1>7, <1>8, <1>9 DEF Next, Write, Recover

LEMMA InitRefines == Init => Store!Init
  BY PulledAssumption DEF Init, Store!Init, Settled, Now, Contents

\* Configuration and ciphertext change together, by one edit at a time, each
\* made from what the one before it left.
THEOREM ProfilesImplementStore == Spec => ImplementsStore
<1>1. Init => Store!Init
  BY InitRefines
<1>2. IInv /\ [Next]_vars => [Store!Next]_Settled
  BY NextRefines
<1> QED BY <1>1, <1>2, ProfilesInvariantHolds, PTL DEF Spec, ImplementsStore, Store!Spec

=============================================================================
