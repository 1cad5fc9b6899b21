SPECIFICATION Spec
CONSTANTS
    Ids = {i1, i2}
    Texts = {x, y}
    Writable <- AnyText
    Clients = {c}
    Keepers = {k}
    Ops <- ToolOps
    None = None
PROPERTIES
    ArchivedNeedsRecover
CHECK_DEADLOCK FALSE
