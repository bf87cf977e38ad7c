SPECIFICATION PoolSpec
CONSTANTS
    k1 = k1
    k2 = k2
    p1 = p1
    p2 = p2
    Keys = {k1, k2}
    Passes = {}
    Albums = {"album"}
    Sha <- MCSha
    Name <- MCName
    Size <- MCSize
    Photo <- MCPhoto
    MaxItemFailures = 1
    MaxItemsPerRun = 2
    PoolFaults = {"cut", "ignored", "stop", "crash", "power"}
    MaxRuns = 2
    MaxFaults = 2
    MaxListings = 1
INVARIANTS PoolFilesAreWhole HashIsHonest HeldIsOnDisk
