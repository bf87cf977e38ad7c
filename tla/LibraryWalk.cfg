SPECIFICATION LibrarySpec
CONSTANTS
    Keys <- TheKeys
    Captured <- TheDates
    Place <- ThePlaces
    Drift = 1
    BoundaryWobble = 3
    PageSize = 1
    Bounds = {0, 6}
    Events = {"settings", "midwalk", "cut", "empty", "delete", "newonly"}
    MaxNights = 2
    MaxChanges = 3
PROPERTIES WriteOffsAreTrue DeletionsAreNoticed NewPhotosAreFound
