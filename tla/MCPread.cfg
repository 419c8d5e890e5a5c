CONSTANTS
    Thread = {t1, t2, t3}
    NoThread = NoThread
    Offset <- MCOffset
    FileSize = 4
    Count = 3
SPECIFICATION BuildSpec
INVARIANTS  MacroOwnBytes
PROPERTIES  EnteredCallsReturn
