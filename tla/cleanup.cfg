CONSTANTS
    a = a
    b = b
    x = x
    y = y
    p = p
    q = q
    i = i
    None = None
    Roots = {a, b}
    GlobalRoots = {}
    Payloads = {x, y}
    Interpreters = {x, y}
    Locks <- OneOf
    Procs = {p, q}
    Ids = {i}
    InitialLocks <- CloneAndNew
    Installed = {x, y}
    MaxDeaths = 1
SPECIFICATION Spec
INVARIANTS
    IInv
    UsedIsPresent
PROPERTIES
    CleanKeepsWhatIsNeeded
    RegistrationsAreKept
