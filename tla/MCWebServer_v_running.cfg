\* A request while a reconciliation runs.
SPECIFICATION WebSpec
CONSTANTS
    NumSymbols = 1
    MaxMinute = 2
    BootstrapMinutes = 1
    Overlap = 1
    PageLimit = 1
    QueueMax = 1
    BatchMax = 1
    TradeMinutes = {}
    Faults = {}
    MaxFaults = 0
    StaleAge = 1
    HealthAge = 1
    HourWindow = 1
    DetailWindows = {1}
INVARIANTS
    DashboardAnswers
