---------------------------- MODULE ProjectFiles ----------------------------
(***************************************************************************)
(* The three files one project (or the global selection) keeps under       *)
(* version control: .pinset/config.toml, .pinset/lock.toml and the         *)
(* encrypted profile .pinset/env/<name>.env, and when a configuration and  *)
(* a lock fit together.                                                    *)
(*                                                                         *)
(* A configuration is its tool selection, a lock is what each tool was     *)
(* resolved to: the policy, platforms, generic definitions and artifacts   *)
(* they also hold are left out, and so is the age of a release (the only   *)
(* part of ProjectConfig::validate_lock that depends on the clock).        *)
(***************************************************************************)

CONSTANTS
    Tools,      \* tool names
    Selectors,  \* what a user may ask of a tool: an exact version, "lts", ...
    Versions,   \* what a selector resolves to
    Profiles,   \* contents of the encrypted profile
    None        \* absent: no file, no selection, no marker, no process

ASSUME NoneAssumption ==
    /\ None \notin Selectors
    /\ None \notin Profiles

Config == [Tools -> Selectors \cup {None}]

LockedTool == [requested : Selectors, version : Versions]

Lock == [Tools -> LockedTool \cup {None}]

Files == [config : Config \cup {None},
          lock : Lock \cup {None},
          profile : Profiles \cup {None}]

ASSUME NoneIsNoValue == None \notin Config \cup Lock \cup LockedTool \cup Files

\* ProjectConfig::new and Lockfile::empty: nothing selected, nothing locked.
NoTools == [t \in Tools |-> None]

LockOrEmpty(lock) == IF lock = None THEN NoTools ELSE lock

\* Mutant: the selectors the lock was made for are not compared.
FitsPresenceOnly(config, lock) ==
    \A t \in Tools : config[t] = None <=> lock[t] = None

\* ProjectConfig::validate_lock: the same tools, each locked for the selector
\* the configuration asks for.
Fits(config, lock) ==
    \A t \in Tools :
        \/ config[t] = None /\ lock[t] = None
        \/ lock[t] # None /\ lock[t].requested = config[t]

\* What ProjectContext::load_locked and Services::load accept.
Loadable(config, lock) == config # None /\ Fits(config, LockOrEmpty(lock))

=============================================================================
