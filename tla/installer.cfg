CONSTANTS
    base = base
    native = native
    jdk = jdk
    pnpm = pnpm
    None = None
    p = p
    q = q
    Procs = {p, q}
    Identities = {jdk, pnpm}
    Digests = {base, native}
    Inventoried = {jdk}
    Archives <- TwoArchives
    Requests <- TwoRequests
    MaxArchiveEntries = 5
    MaxUnpacked = 2
    Sources = 2
    MaxAttempts = 2
    MaxStalled = 1
    Size = 1
    MaxDownload = 2
    InitialInstalls <- SomePnpm
    InitialCache <- BadEntry
    InitialPartial <- SomePartial
    MaxDeaths = 1
SPECIFICATION Spec
INVARIANTS
    IInv
    DownloadsAgree
PROPERTIES
    InstallsChangeWhole
    RepairReplacesOrGivesBack
    RetriesAreUsedUp
SYMMETRY Processes
