\* Two symbols of up to two pages; Retry-After of 1 s, 60 s and 10 min, in units of 50 ms.
SPECIFICATION RestSpec
CONSTANTS
    NumSymbols = 2
    Pages = 2
    RetryAfters = {20, 1200, 12000}
INVARIANTS
    RestTypeOK
    PauseIsBounded
PROPERTIES
    RetryAfterIsRespected
    CallsMakeProgress
    EveryCallEnds
    ComesBackAfterOutage
