SPECIFICATION RegisterSpec
CONSTANTS
    Requests = {r1, r2}
    Checks = {c1, c2}
    Groups = {g1, g2}
    MaxItem = 1
    MaxUses = 1
    Stocked = 1
    Counts = {0, 2}
    MaxDesk = 1
SYMMETRY Perms
INVARIANTS RegisterTypeOK  StockAddsUp 
CHECK_DEADLOCK FALSE
