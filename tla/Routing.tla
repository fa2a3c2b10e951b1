------------------------------ MODULE Routing ------------------------------
(***************************************************************************)
(* The route of a command: which tool it belongs to, which selection and   *)
(* which installation it runs from, as functions of what was read.         *)
(*                                                                         *)
(* There are two places to select in, the project and the global           *)
(* selection, and a command runs in the project or outside of every one.   *)
(***************************************************************************)
EXTENDS Catalogs

CONSTANTS
    Commands,       \* the names a user may type
    ToolOf,         \* command_tool and the registries: the tool of a command
    VersionNames,   \* commands that only some versions provide
    ProvidedBy(_, _)   \* a command, a version

Places == {"project", "global"}

Policy == [strict : BOOLEAN, signed : BOOLEAN, age : Nat]

Anything == [strict |-> FALSE, signed |-> FALSE, age |-> 0]

Selection == [CatalogTools -> LockedTool \cup {None}]

NothingSelected == [t \in CatalogTools |-> None]

\* An installation, by the exact payload: LockedTool::installation_version.
Installation == [tool : CatalogTools, version : Versions, build : Builds]

ASSUME RoutingAssumption ==
    /\ ToolOf \in [Commands -> CatalogTools \cup {None}]
    /\ VersionNames \subseteq Commands
    /\ None \notin Commands \cup CatalogTools \cup Installation

InstallationOf(tool, entry, here) ==
    [tool |-> tool, version |-> entry.version, build |-> entry.artifacts[here]]

Selected(selection) == {t \in CatalogTools : selection[t] # None}

Installations(selection, here) ==
    {InstallationOf(t, selection[t], here) : t \in
        {u \in Selected(selection) : selection[u].artifacts[here] # None}}

-----------------------------------------------------------------------------
\* The proof a vendor gives: a signature (Node's manifest, npm's registry), or
\* a checksum served over HTTPS.
Signed(tool) == tool \in {"node", "pnpm", "bun"}

\* Policy: proof first, then the age of the release; a release without a date
\* has no age that could satisfy one.
Allows(policy, tool, entry, now) ==
    /\ policy.signed => Signed(tool)
    /\ policy.age > 0 =>
            /\ entry.date # None
            /\ entry.date <= now
            /\ now - entry.date >= policy.age

\* ProjectConfig::validate_lock, for every tool that is selected.
AllAllowed(policy, selection, now) ==
    \A t \in Selected(selection) : Allows(policy, t, selection[t], now)

\* ProjectConfig::validate.
NodeForPnpm(selection) == selection["pnpm"] # None => selection["node"] # None

-----------------------------------------------------------------------------
\* The tools that must be there for a command: pnpm also needs its Node.
Required(tool) == IF tool = "pnpm" THEN {"pnpm", "node"} ELSE {tool} \ {None}

\* Whether the global selection is looked at.
Inherits(place, policy, tool, selection) ==
    /\ place = "project"
    /\ ~policy.strict
    /\ tool # None
    /\ selection[tool] = None

\* Mutant: whatever the command requires is taken.
InheritedOver(tool, selection, defaults) ==
    {t \in Required(tool) : defaults[t] # None}

\* What a command takes from the global selection: the required tools the
\* project does not select.
Inherited(tool, selection, defaults) ==
    {t \in Required(tool) : selection[t] = None /\ defaults[t] # None}

Overlaid(selection, defaults, tools) ==
    [t \in CatalogTools |-> IF t \in tools THEN defaults[t] ELSE selection[t]]

\* A versioned Python entry, or a Java tool of the archive.
Provides(entry, command) ==
    command \in VersionNames => ProvidedBy(command, entry.version)
=============================================================================
