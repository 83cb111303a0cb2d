\* Time-outs and restarts, no failing preparation or submission.
SPECIFICATION Spec
CONSTANTS
    Packet <- MCPacket
    Word = 5
    MaxPackets = 3
    MaxTimeouts = 2
    MaxPrepFailures = 0
    MaxSubmitErrors = 0
    MaxRestarts = 1
INVARIANTS
    TypeOK
    QuiescentWhenValid
    TallyMatches
PROPERTY FeedSpec
CHECK_DEADLOCK FALSE
