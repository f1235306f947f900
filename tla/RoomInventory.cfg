SPECIFICATION Spec
CONSTANTS
    Reservations = {r1, r2}
    Rooms = {a, b}
    Frail = {a}
    LastNight = 3
    Percent = 100
    CrossedRoutes = FALSE
SYMMETRY Interchangeable
INVARIANTS TypeOK 
PROPERTIES  NobodyOverstaysUnbooked
