\* One board, delays in the ratio of the code (5 and 10 seconds); beacons of two devices,
\* three of them, go through a list of two.
SPECIFICATION Spec
CONSTANTS
    Device = {d1, d2}
    d1 = d1
    d2 = d2
    Board = {d1}
    Sought = {d2}
    MaxBeacons = 2
    MaxNodes = 3
    MinDelay = 3
    Nap = 6
    Buffered = 2
    HostBuffered = 1
    MaxMisses = 1
    Asks = {"create_request", "send_request"}
INVARIANTS
    TypeOK
    ListIsPending
    SleepCoversLimit
PROPERTY Answered
