SPECIFICATION FairSpec
CONSTANTS
    Requests = {r1, r2}
    Stays = {s1}
    MaxDate = 2
    MaxFaults = 2
    MaxResets = 1
INVARIANTS TypeOK ChargedOnceWithReport 
PROPERTIES ClosesIndivisibly EveryDayCloses
