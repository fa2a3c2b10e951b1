CONSTANTS
    p = p
    q = q
    first = first
    second = second
    old = old
    new = new
    None = None
    Procs = {p, q}
    Ids = {first, second}
    Interpreters = {old, new}
    MaxDeaths = 3
    MaxUsers = 2
SPECIFICATION Spec
INVARIANTS
    IInv
    UsableIsWhole
    WorkersKeepToTheirOwn
PROPERTIES
    NothingLost
    ReplacesAtOnce
SYMMETRY Alike
CHECK_DEADLOCK FALSE
