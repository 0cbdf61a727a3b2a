SPECIFICATION Spec
CONSTANTS
    Instances = {i1, i2}
    NoSocket = NoSocket
    ClaimsOverlap = TRUE
    StopOverlapsStart = FALSE
PROPERTY NeverHijacks
