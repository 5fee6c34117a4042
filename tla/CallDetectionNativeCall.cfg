SPECIFICATION Spec
CONSTANTS
    CallKeys = {call}
    ChatKeys = {chat}
    Limit <- MCLimit
CHECK_DEADLOCK FALSE
INVARIANTS
    NativeCallStaysActive
