SPECIFICATION Spec
CONSTANTS
    NCells = 4
    NPad = 2
    MaxMoves = 1
    NSeqs = 2
    NBatch = 2
    NUbatch = 2
    MaxGen = 2
    Owners <- MCOneToken
    MaxPosition = 2
INVARIANT ClassifyNeverAborts
CHECK_DEADLOCK FALSE
