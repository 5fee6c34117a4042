SPECIFICATION Spec
CONSTANTS
    JobIds <- MCJobIds
    CollectorIds <- MCCallsCollectorIds
    SnapshotCap = 1
    HeaderLen = 1
    MinNewChars = 2
    Limit <- MCCallsLimit
CHECK_DEADLOCK FALSE
INVARIANTS
    SingleCollector
