SPECIFICATION Spec
CONSTANTS
    NCells = 5
    NPad = 2
    MaxMoves = 1
    NSeqs = 2
    NBatch = 3
    NUbatch = 2
    MaxGen = 2
    Owners <- MCOwners
    MaxPosition = 2
INVARIANTS TypeOK IndexesAgree AttendsToItsPast AppBatchesFit
PROPERTIES PrepareRestores DecodeFindsRoom CallsReturn ImplementsTokenCache
CHECK_DEADLOCK FALSE
