SPECIFICATION CSpec
CONSTANTS
    Written <- InRoot
    Paths <- AllPaths
    Surface <- WrittenSurface
    Join <- DirJoin
    Projects <- AllProjects
    Programs <- SomePrograms
    Names = {"Pager", "Search"}
    InputNames = {"page"}
    Missing = Missing
    Entry = "/app.ifml"
    EntryIds = {"app.ifml", "file:///app.ifml"}
    OneFilePerName = TRUE
INVARIANTS  WalkIsReachability
INVARIANTS ResolverFollowsWalk CircularIffCycle
INVARIANTS UsesMeanDeclared
