SPECIFICATION WebSpec
CONSTANTS
    w1 = w1
    w2 = w2
    r1 = r1
    r2 = r2
    Passwords = {w1, w2}
    Brokers = {"broker"}
    Pages = {"page"}
    None = "none"
    Requests = {r1, r2}
    Limit = 2
    MaxSaves = 3
    MaxSaveFaults = 1
    MaxPosts = 3
SYMMETRY Interchangeable
INVARIANTS ConfigIsWhole PasswordStands OnlyCurrentPasswords
PROPERTIES LimitHolds
