CONSTANTS
    r1 = r1
    r2 = r2
    r3 = r3
    node = node
    tool = tool
    p = p
    q = q
    None = None
    External = External
    Releases = {r1, r2, r3}
    Commands = {node}
    Public = {node}
    Procs = {p}
    InitialStates <- FromBoth
    MaxDeaths = 1
    MaxUpgrades = 0
SPECIFICATION Spec
INVARIANT InterruptedCanResume
CHECK_DEADLOCK FALSE
