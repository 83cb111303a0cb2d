\* One call times out before its packet arrives; the next call is ended by the
\* first call's transfer.
SPECIFICATION Spec
CONSTANTS
    Packet <- MCPacket
    Word = 4
    MaxPackets = 2
    MaxTimeouts = 1
    MaxPrepFailures = 0
    MaxSubmitErrors = 0
    MaxRestarts = 0
INVARIANT WokenByOwnTransfer
CHECK_DEADLOCK FALSE
