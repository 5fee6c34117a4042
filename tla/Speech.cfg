SPECIFICATION Spec
CONSTANTS
    MaxSessions = 2
    MaxChunks = 2
    Window = 1
    Overlap = 0
    MaxStops = 2
    MaxImports = 1
    MaxBuffer = 1
CHECK_DEADLOCK FALSE
INVARIANT
    TypeOK
PROPERTIES
    ImplementsLifetime
    LoopsEnd
    EngineComesUp
