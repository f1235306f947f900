SPECIFICATION Spec
CONSTANTS
    Requests = {r1, r2}
    MaxNight = 3
    MaxFolio = 2
    MaxDesk = 1
SYMMETRY Perms
INVARIANTS TypeOK NightBilledOnce 
