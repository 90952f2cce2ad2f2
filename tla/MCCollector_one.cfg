\* One symbol, every kind of fault.  A dead collector takes no step: no deadlock check.
SPECIFICATION Spec
CONSTANTS
    NumSymbols = 1
    MaxMinute = 4
    BootstrapMinutes = 2
    Overlap = 1
    PageLimit = 1
    QueueMax = 2
    BatchMax = 2
    TradeMinutes = {3}
    Faults = {"rest", "gap", "db", "redis", "stream", "crash"}
    MaxFaults = 2
INVARIANTS
    TypeOK
    SuccessMeansCovered
    StreamedMinutesSurvive
    CheckpointIsBacked
    RunMatchesJob
    NothingFailsByItself
PROPERTIES
    RunHistoryOnlyGrows
    RecoveryMakesProgress
CHECK_DEADLOCK FALSE
