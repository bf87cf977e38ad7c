SPECIFICATION RunSpec
CONSTANTS
    k1 = k1
    k2 = k2
    w1 = w1
    w2 = w2
    Keys = {k1, k2}
    Workers = {w1}
    Library = "library"
    Albums = {"album", "library"}
    Sha <- MCSha
    Name <- MCName
    Size <- MCSize
    Photo <- MCPhoto
    MaxItemFailures = 2
    MaxItemsPerRun = 3
    MaxAttempts = 1
    BreakerThreshold = 2
    Faults = {"refused"}
    MaxRuns = 3
    MaxUpstream = 1
    MaxVisits = 0
PROPERTIES ArrivalsAreFlagged
