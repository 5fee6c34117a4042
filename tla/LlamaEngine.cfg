SPECIFICATION Spec
CONSTANTS
    Threads = {t1, t2, t3}
    NoThread = none
    MaxCalls = 6
CHECK_DEADLOCK FALSE
INVARIANTS
    TypeOK
    NoUseAfterFree
    OneCopy
    FlagTracksModel
PROPERTIES
    CallsReturn
    ImplementsLifetime
