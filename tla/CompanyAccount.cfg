SPECIFICATION Spec
CONSTANTS
    Requests = {r1}
    Folios = {f1, f2}
    Lines = {l1, l2, l3}
    Invoices = {i1, i2}
    Payments = {p1, p2}
    Amount = 2
    Limit = 1
    MaxApp = 3
    Nowhere = Nowhere
SYMMETRY Perms
INVARIANTS TypeOK  AllocationsAddUp
PROPERTY ChargesWithinLimit
