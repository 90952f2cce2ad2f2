\* A stream failure after a late update of a candle REST had closed.
SPECIFICATION Spec
CONSTANTS
    NumSymbols = 1
    MaxMinute = 3
    BootstrapMinutes = 1
    Overlap = 1
    PageLimit = 1
    QueueMax = 2
    BatchMax = 2
    TradeMinutes = {}
    Faults = {"stream"}
    MaxFaults = 1
INVARIANTS
    ClosedRowsGetFinalValues
