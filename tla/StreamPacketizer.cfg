\* Frames of one to three words, up to four of them in the buffer; it wraps at 16 and 32.
SPECIFICATION Spec
CONSTANTS
    Depth = 16
    MaxPktLen = 5
    NumSamples = {4}
    Stamps = 2
    Numbers = 2
    Cuts = TRUE
    MaxSwitches = 3
INVARIANTS
    TypeOK
    NoOverrun
PROPERTIES
    FifoSpec
    ReadyAgain
    FlushedWhenOff
