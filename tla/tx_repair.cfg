SPECIFICATION FairSpec
CONSTANTS
    None = None
    Tools = {python}
    Selectors = {lts}
    Versions = {v1}
    Profiles = {}
    Procs = {p1, p2}
    Ids = {t1, t2}
    VenvTools = {python}
    LinkedTools = {}
    Global = FALSE
    InitialFiles <- Consistent
    InitialInstalled <- AllInstalled
    MaxDeaths = 2
PROPERTIES
    RepairSettles
