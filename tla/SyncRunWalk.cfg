SPECIFICATION RunSpec
CONSTANTS
    k1 = k1
    k2 = k2
    w1 = w1
    w2 = w2
    Keys = {k1}
    Workers = {w1}
    Library = "library"
    Albums = {"album", "library"}
    Sha <- MCSha
    Name <- MCName
    Size <- MCSize
    Photo <- MCPhoto
    MaxItemFailures = 2
    MaxItemsPerRun = 1
    MaxAttempts = 1
    BreakerThreshold = 2
    Faults = {"page", "unguarded", "empty", "crash", "vanish"}
    MaxRuns = 2
    MaxUpstream = 2
    MaxVisits = 0
INVARIANTS OkMeansWalked
PROPERTIES WriteOffWasObserved StoreSpec
