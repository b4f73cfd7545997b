SPECIFICATION HeapSpec
CONSTANTS
    HeapStart = 8
    PageBytes = 16
    MaximumPages = 4
    Requests <- MCRequests
    Tasks = {t1, t2}
    MaxScratch = 1
INVARIANTS BlocksAreDisjoint GuardsNeverFire NothingLeaks
CHECK_DEADLOCK FALSE
SYMMETRY TaskSymmetry
