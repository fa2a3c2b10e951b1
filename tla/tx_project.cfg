SPECIFICATION Spec
CONSTANTS
    None = None
    Tools = {python}
    Selectors = {lts, exact}
    Versions = {v1, v2}
    Profiles = {}
    Procs = {p1, p2}
    Ids = {t1, t2}
    VenvTools = {python}
    LinkedTools = {}
    Global = FALSE
    InitialFiles <- Everything
    InitialInstalled <- NothingInstalled
    MaxDeaths = 2
SYMMETRY Symmetry
INVARIANTS
    FullInv
    MarkedFilesAreJournaled
    ReadPairIsWhole
PROPERTIES
    ImplementsAtomicPair
    CommittedIsBound
