--------------------------- MODULE ProfileContents ---------------------------
(***************************************************************************)
(* The encrypted profiles of one project: who may read each of them        *)
(* (.pinset/config.toml), and the values, each encrypted on its own        *)
(* (.pinset/env/<profile>.env); and what one edit makes of them.           *)
(*                                                                         *)
(* An encrypted value is the value and the keys that can read it: age is   *)
(* taken to do what it says.  Two encryptions of a value for the same keys *)
(* are not told apart.                                                     *)
(***************************************************************************)

CONSTANTS
    Profiles,   \* names of profiles
    Variables,  \* names of variables
    Values,
    Requests,   \* ids of access requests
    Keys,       \* public keys (age recipients)
    Me,         \* the key whose identity this machine keeps
    Rests,      \* the rest of the configuration: tools, policy, ...
    None        \* absent

ASSUME ContentsAssumption ==
    /\ None \notin Profiles /\ None \notin Keys
    /\ Me \in Keys

Authorization == [owners : SUBSET Keys,      \* {}: made before owners were recorded
                  grants : [Requests -> Keys \cup {None}],
                  recipients : SUBSET Keys]

Config == [profiles : [Profiles -> Authorization \cup {None}],
           default : Profiles \cup {None},
           rest : Rests]

Encrypted == [value : Values, readers : SUBSET Keys]

File == [Variables -> Encrypted \cup {None}]

Contents == [config : Config, files : [Profiles -> File \cup {None}]]

ASSUME NoneIsNoContents ==
    None \notin Authorization \cup Encrypted \cup File \cup Contents

-----------------------------------------------------------------------------
\* ProfileConfig.
RecipientUnion(a) ==
    a.owners \cup {a.grants[r] : r \in {r \in Requests : a.grants[r] # None}}

Authorized(a) == a.owners # {} /\ a.recipients = RecipientUnion(a)

WithUnion(a) == [a EXCEPT !.recipients = RecipientUnion(a)]

\* ProjectConfig::validate, of what it says of profiles.
ValidConfig(c) ==
    /\ \A n \in Profiles :
        c.profiles[n] # None /\ c.profiles[n].owners # {} => Authorized(c.profiles[n])
    /\ c.default # None => c.profiles[c.default] # None

Declared(c) == {n \in Profiles : c.profiles[n] # None}

EmptyFile == [v \in Variables |-> None]

Set(f) == {v \in Variables : f[v] # None}

\* decrypt_dotenv_document: one identity must read every value.
Readable(f, key) == \A v \in Set(f) : key \in f[v].readers

\* Mutant: a revocation leaves the ciphertext as it is.
KeptAsItWas(f, keys) == f

\* encrypt_dotenv_document: every value, for these keys.
EncryptedFor(f, keys) ==
    [v \in Variables |-> IF f[v] = None THEN None ELSE [f[v] EXCEPT !.readers = keys]]

-----------------------------------------------------------------------------
\* What each edit requires of the contents, and what it makes of them.

Fresh == [owners |-> {Me}, grants |-> [r \in Requests |-> None], recipients |-> {Me}]

\* env init
CanInit(s, n) == s.config.profiles[n] = None /\ s.files[n] = None

Initialized(s, n) ==
    [s EXCEPT !.config.profiles[n] = Fresh, !.files[n] = EmptyFile]

\* env use --project
CanUse(s, n) == n \in Declared(s.config) \cup {None}

Defaulting(s, n) == [s EXCEPT !.config.default = n]

\* env remove: what it looks for before it waits for the lock.  By then another
\* command may have removed the profile: nothing is left to change.
CanRemove(s, n) == s.config.profiles[n] # None

Removed(s, n) ==
    [config |-> [s.config EXCEPT !.profiles[n] = None,
                                 !.default = IF @ = n THEN None ELSE @],
     files |-> [s.files EXCEPT ![n] = None]]

\* Every edit of a profile's values or readers needs both of its parts.
CanEdit(s, n) ==
    /\ s.config.profiles[n] # None
    /\ Authorized(s.config.profiles[n])
    /\ s.files[n] # None

\* env set: only the named value is encrypted, for the present recipients.
WithValue(s, n, v, value) ==
    [s EXCEPT !.files[n][v] =
        [value |-> value, readers |-> s.config.profiles[n].recipients]]

\* env unset
WithoutValue(s, n, v) == [s EXCEPT !.files[n][v] = None]

\* env access grant: a request stands for one key.
CanGrant(s, n, r) ==
    /\ CanEdit(s, n)
    /\ s.config.profiles[n].grants[r] = None
    /\ Readable(s.files[n], Me)

Granted(s, n, r, key) ==
    LET a == WithUnion([s.config.profiles[n] EXCEPT !.grants[r] = key])
    IN  [s EXCEPT !.config.profiles[n] = a,
                  !.files[n] = EncryptedFor(s.files[n], a.recipients)]

\* env access revoke: a key that an owner or another request holds stays.
CanRevoke(s, n, r) ==
    /\ CanEdit(s, n)
    /\ s.config.profiles[n].grants[r] # None
    /\ Readable(s.files[n], Me)

Revoked(s, n, r) ==
    LET a == WithUnion([s.config.profiles[n] EXCEPT !.grants[r] = None])
    IN  [s EXCEPT !.config.profiles[n] = a,
                  !.files[n] = EncryptedFor(s.files[n], a.recipients)]

\* use, remove, policy, ...: the rest of the configuration.
Reconfigured(s, rest) == [s EXCEPT !.config.rest = rest]

\* What one edit can make of the contents s.
ByInit(s) == {Initialized(s, n) : n \in {n \in Profiles : CanInit(s, n)}}

ByUse(s) == {Defaulting(s, n) : n \in {n \in Profiles \cup {None} : CanUse(s, n)}}

ByRemove(s) == {Removed(s, n) : n \in Profiles}

BySet(s) ==
    UNION {{WithValue(s, n, v, x) : v \in Variables, x \in Values} :
           n \in {n \in Profiles : CanEdit(s, n)}}

ByUnset(s) ==
    UNION {{WithoutValue(s, n, v) : v \in Variables} :
           n \in {n \in Profiles : CanEdit(s, n)}}

ByGrant(s) ==
    UNION {{Granted(s, n, r, k) : r \in {r \in Requests : CanGrant(s, n, r)}, k \in Keys} :
           n \in Profiles}

ByRevoke(s) ==
    UNION {{Revoked(s, n, r) : r \in {r \in Requests : CanRevoke(s, n, r)}} :
           n \in Profiles}

ByConfigure(s) == {Reconfigured(s, rest) : rest \in Rests}

Edits(s) ==
    ByInit(s) \cup ByUse(s) \cup ByRemove(s) \cup BySet(s) \cup ByUnset(s)
    \cup ByGrant(s) \cup ByRevoke(s) \cup ByConfigure(s)

\* The contents two releases of pinset, or two colleagues, may leave: a valid
\* configuration, and every profile in it has its file, encrypted for its
\* recipients.
Consistent(s) ==
    /\ ValidConfig(s.config)
    /\ \A n \in Profiles : s.config.profiles[n] # None =>
        /\ Authorized(s.config.profiles[n])
        /\ s.files[n] # None
        /\ \A v \in Set(s.files[n]) : s.files[n][v].readers = s.config.profiles[n].recipients

=============================================================================
