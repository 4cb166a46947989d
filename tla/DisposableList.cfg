SPECIFICATION Spec
CONSTANTS
    Lists <- MCLists
    Extra <- MCExtra
    r1 = r1
    r2 = r2
    Load = {r1, r2}
    MaxQueued = 1
    MaxChanges = 1
    MaxCliRuns = 1
    MaxRestarts = 1
INVARIANTS TypeOK VerdictsFromWholeLists
PROPERTIES ServerCatchesUp
