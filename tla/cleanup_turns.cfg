CONSTANTS
    a = a
    b = b
    x = x
    y = y
    p = p
    q = q
    i = i
    None = None
    Roots = {a, b}
    GlobalRoots = {b}
    Payloads = {x, y}
    Interpreters = {x}
    Locks <- OneOf
    Procs = {p, q}
    Ids = {i}
    InitialLocks <- CloneAndNew
    Installed = {x}
    MaxDeaths = 1
SPECIFICATION FairSpec
PROPERTIES
    CommandsReturn
