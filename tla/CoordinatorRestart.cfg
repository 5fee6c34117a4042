SPECIFICATION Spec
CONSTANTS
    JobIds <- MCJobIds
    CollectorIds <- MCRestartCollectorIds
    SnapshotCap = 1
    HeaderLen = 1
    MinNewChars = 2
    Limit <- MCRestartLimit
CHECK_DEADLOCK FALSE
INVARIANTS
    CaptureFollowsCall
    CaptureIsConsumed
    StatusSettles
PROPERTIES
    VerdictCompletes
