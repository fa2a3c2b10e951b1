SPECIFICATION Spec
CONSTANTS
    Targets <- Both
    Builds = {"A", "B"}
    Parts = {"archive", "script", "native", "full-zip", "msi-bundle", "embeddable-zip", "msi", "rustc", "clippy"}
    Versions <- AllVersions
    Dates = {0, 1}
    Components = {"rustc", "clippy"}
    Selectors <- AllSelectors
    PageSize = 1
    MaxPages = 3
    None = None
    Commands <- Typed
    ToolOf <- Tools
    VersionNames = {"python3.1"}
    ProvidedBy <- OfVersion
    Worlds <- Scenes
    Upcoming <- News
    Asked <- Requests
    MaxNow = 1
    MaxUses = 2
    MaxRuns = 1
    MaxNews = 1
INVARIANTS
    IInv
    LocksOneRelease
    ResolvesToNewest
    RunsWhatIsSelected
    KeepsWhatRuns
CHECK_DEADLOCK FALSE
