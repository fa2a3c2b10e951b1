SPECIFICATION Spec
CONSTANTS
    None = None
    Tools = {python, flutter}
    Selectors = {lts}
    Versions = {v1}
    Profiles = {c1}
    Procs = {p1, p2}
    Ids = {t1, t2}
    VenvTools = {python}
    LinkedTools = {flutter}
    Global = FALSE
    InitialFiles <- Consistent
    InitialInstalled <- NothingInstalled
    MaxDeaths = 1
SYMMETRY Symmetry
PROPERTIES
    EditsOnlyNamedTools
    ImplementsAtomicPair
