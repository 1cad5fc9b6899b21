SPECIFICATION Spec
CONSTANTS
    Ids = {i1, i2}
    Texts = {x, y, z}
    Writable <- OwnText
    Clients = {c1, c2}
    Keepers = {k}
    Ops <- EngineOps
    None = None
INVARIANTS
    OnePlace
PROPERTIES
    ImplementsPools
CHECK_DEADLOCK FALSE
