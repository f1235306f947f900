SPECIFICATION Spec
CONSTANTS
    Reservations = {r1, r2, r3}
    Rooms = {a, b}
    Clerks = {c1, c2, c3}
    None = None
SYMMETRY Interchangeable
INVARIANTS TypeOK GuestIsPlaced RoomsGivenInOrder
