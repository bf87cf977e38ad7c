SPECIFICATION FairLoginSpec
CONSTANTS
    Sessions = {ann}
    Events = {"cli", "expire", "spawnfails", "checkfails", "cancel", "ended"}
    MaxStarts = 2
    MaxWarmups = 1
INVARIANTS HealthFitsTheSession OneBrowserOnTheProfile
PROPERTIES IdleBrowserIsClosed LoginIsNoticed
