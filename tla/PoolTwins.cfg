SPECIFICATION PoolSpec
CONSTANTS
    k1 = k1
    k2 = k2
    p1 = p1
    p2 = p2
    Keys = {k1, k2}
    Passes = {p1}
    Albums = {"album"}
    Sha <- MCSha
    Name <- MCName
    Size <- MCSize
    Photo <- MCPhoto
    MaxItemFailures = 1
    MaxItemsPerRun = 2
    PoolFaults = {"rot", "vanish"}
    MaxRuns = 3
    MaxFaults = 1
    MaxListings = 3

PROPERTIES LastCopySurvives RepairStaysOwed
