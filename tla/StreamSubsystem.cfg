\* Frames of five words, one event in all-channel mode; room for two of them. SampRate 0
\* is 17 half clocks from one conversion to the next: eight and nine clocks.
SPECIFICATION SubsystemSpec
CONSTANTS
    Depth = 16
    MaxPktLen = 7
    NumSamples = {5}
    Stamps = 1
    Numbers = 1
    Cuts = TRUE
    MaxSwitches = 1
    Periods = {8, 9}
    Divs = {0, 1}
    MaxModes = 1
INVARIANTS
    SubsystemTypeOK
    LossesExplained
    StampTellsStart
    ErrorMarksSwitch
