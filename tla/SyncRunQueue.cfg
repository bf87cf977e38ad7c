SPECIFICATION FairRunSpec
CONSTANTS
    k1 = k1
    k2 = k2
    w1 = w1
    w2 = w2
    Keys = {k1}
    Workers = {w1, w2}
    Library = "library"
    Albums = {"library"}
    Sha <- MCSha
    Name <- MCName
    Size <- MCSize
    Photo <- MCPhoto
    MaxItemFailures = 2
    MaxItemsPerRun = 3
    MaxAttempts = 2
    BreakerThreshold = 1
    Faults = {"misshapen", "busy", "elsewhere", "stop", "noroom", "store"}
    MaxRuns = 2
    MaxUpstream = 1
    MaxVisits = 1
INVARIANTS OneWorkerPerItem NothingLeftBehind
PROPERTIES OnlyOwnFailuresAreCharged RunEnds
