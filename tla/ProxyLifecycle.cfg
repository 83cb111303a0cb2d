\* Two devices of two channels; a class that is gone ends a behaviour.
SPECIFICATION Spec
CONSTANTS
    Device = {d1, d2}
    d1 = d1
    d2 = d2
    Channels = 2
    MaxFailures = 1
    MaxBinds = 4
    MaxLoads = 2
INVARIANTS
    TypeOK
    ClassLifetime
    NothingLeft
    BoundIsUsable
    FilesBacked
CHECK_DEADLOCK FALSE
