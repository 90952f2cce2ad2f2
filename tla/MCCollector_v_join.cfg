\* A minute that ends between the range's computation and the first streamed event.
SPECIFICATION Spec
CONSTANTS
    NumSymbols = 1
    MaxMinute = 3
    BootstrapMinutes = 1
    Overlap = 1
    PageLimit = 1
    QueueMax = 2
    BatchMax = 2
    TradeMinutes = {}
    Faults = {}
    MaxFaults = 0
INVARIANTS
    RecoveryMeetsStream
