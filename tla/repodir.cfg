SPECIFICATION Spec
CONSTANTS
    Processes = {"a", "b"}
    Names = {"opt", "db", "dmd", "repo", "client-01", "jpg", "flv", "h264"}
    Casts <- MCCasts
    DatabaseRepo <- MCDatabaseRepo
    ClientRepo <- MCClientRepo
    ServerRepo <- MCServerRepo
    Clients <- MCClients
    FileSystems <- MCFileSystems
    StackLimit = 4
CHECK_DEADLOCK FALSE
INVARIANTS
    OnlyRacesFail
    AbortNeedsRival
    RecursionEnds
    CallMakesPath
PROPERTY
    CallsReturn
