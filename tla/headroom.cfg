SPECIFICATION Spec
CONSTANTS
    Deposits = {d1, d2}
    Burns = {b1}
    Issuances = {i1, i2}
    Amounts = {1, 2, 3}
    Scale = 2
    XecHasMorePrecision = FALSE
    MaxReconciles = 2
SYMMETRY Symmetric
INVARIANTS
    Backed
CHECK_DEADLOCK FALSE
