\* A two-digit PIN keyed by RTP and INFO, packets lost and reordered.
CONSTANTS
    Pin <- TwoDigits
    Keys <- AllKeys
    MaxTries = 3
    MaxPresses = 3
    EndPackets = 2

SPECIFICATION PinFairSpec
INVARIANTS EachPressOnce AdmittedByPin
PROPERTIES PinWaitEnds
