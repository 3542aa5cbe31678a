CONSTANTS
    p1 = p1
    p2 = p2
    Products = {p1, p2}
    Batch = 2
    MaxChanges = 3
    MaxFailures = 1
    MaxWipes = 1
SPECIFICATION Spec
INVARIANTS
    StaleIsQueued
PROPERTY
    IndexCatchesUp
CHECK_DEADLOCK FALSE
