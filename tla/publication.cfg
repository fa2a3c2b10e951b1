CONSTANTS
    r1 = r1
    r2 = r2
    r3 = r3
    node = node
    tool = tool
    p = p
    q = q
    None = None
    External = External
    Releases = {r1, r2}
    Commands = {node, tool}
    Public = {node}
    Procs = {p, q}
    InitialStates <- FromOnePlace
    MaxDeaths = 2
    MaxUpgrades = 1
SPECIFICATION Spec
INVARIANTS
    IInv
    PublishedIsWhole
    PairsMatch
PROPERTIES
    EntriesStay
    NotOwnedStays
SYMMETRY Alike
