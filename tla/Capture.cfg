SPECIFICATION Spec
CONSTANTS
    EnaDelay = 1
    StartDelay = 1
    Regions = 2
    RegionSize = 1
    CycleMod = 16
    Period = 4
    Words = 6
    MaxSamples = 13
    MaxBad = 1
    MaxSwitches = 3
INVARIANTS
    TypeOK
    RegionReport
    SumsMatch
    PacketWhole
    NoReportLost
