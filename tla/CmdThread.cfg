SPECIFICATION CmdSpec
CONSTANTS
    Channels = 2
    Taps = 2
    Saturation = 1
    MaxRestarts = 1
    Client = {k1}
    k1 = k1
    MaxWrites = 1
INVARIANTS
    CmdTypeOK
    CountsBelongToTap
    StaysAtGoodTap
    NoUnaskedTestData
PROPERTIES
    GetsToServe
    RequestsAnswered
