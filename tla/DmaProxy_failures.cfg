\* Fair scheduling; descriptors that cannot be prepared or submitted, beside time-outs.
SPECIFICATION FairSpec
CONSTANTS
    Packet <- MCPacket
    Word = 16
    MaxPackets = 3
    MaxTimeouts = 2
    MaxPrepFailures = 1
    MaxSubmitErrors = 1
    MaxRestarts = 0
INVARIANTS
    LossAccounted
    ErrorsFollowTimeouts
PROPERTIES
    EveryPacketDelivered
    CallReturns
CHECK_DEADLOCK FALSE
