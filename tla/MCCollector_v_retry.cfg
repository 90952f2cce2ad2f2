\* A database failure in the disconnect handler.
SPECIFICATION FairSpec
CONSTANTS
    NumSymbols = 1
    MaxMinute = 2
    BootstrapMinutes = 1
    Overlap = 1
    PageLimit = 1
    QueueMax = 2
    BatchMax = 2
    TradeMinutes = {}
    Faults = {"stream", "db"}
    MaxFaults = 2
PROPERTIES
    DisconnectIsRetried
CHECK_DEADLOCK FALSE
