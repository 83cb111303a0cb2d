\* The stream is switched off between two words.
SPECIFICATION Spec
CONSTANTS
    Depth = 16
    MaxPktLen = 4
    NumSamples = {3}
    Stamps = 2
    Numbers = 2
    Cuts = TRUE
    MaxSwitches = 3
INVARIANT HeaderCountsWords
