SPECIFICATION Spec
CONSTANTS
    None = None
    Tools = {python}
    Selectors = {lts}
    Versions = {v1, v2}
    Profiles = {}
    Procs = {p1, p2}
    Ids = {t1, t2}
    VenvTools = {python}
    LinkedTools = {}
    Global = TRUE
    InitialFiles <- Blank
    InitialInstalled <- NothingInstalled
    MaxDeaths = 2
SYMMETRY Symmetry
INVARIANTS
    IInv
PROPERTIES
    OutcomeIsFinal
    ImplementsAtomicPair
