\* Two symbols, one fault of any kind, under fairness.  One fault is too few to kill
\* the collector and its disconnect handler.
SPECIFICATION FairSpec
CONSTANTS
    NumSymbols = 2
    MaxMinute = 3
    BootstrapMinutes = 2
    Overlap = 1
    PageLimit = 2
    QueueMax = 1
    BatchMax = 2
    TradeMinutes = {}
    Faults = {"rest", "gap", "db", "redis", "stream", "crash"}
    MaxFaults = 1
INVARIANTS
    ServiceMeansRecovered
    ReconnectsAreRecordedTogether
PROPERTIES
    ImplementsContract
    ReturnsToService
    RunsSettle
