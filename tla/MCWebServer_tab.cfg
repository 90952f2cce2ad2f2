\* One tab beside a collector whose REST answers may have a gap; one traded minute.
SPECIFICATION WebSpec
CONSTANTS
    NumSymbols = 1
    MaxMinute = 3
    BootstrapMinutes = 1
    Overlap = 1
    PageLimit = 1
    QueueMax = 1
    BatchMax = 1
    TradeMinutes = {1}
    Faults = {"gap"}
    MaxFaults = 1
    StaleAge = 1
    HealthAge = 1
    HourWindow = 1
    DetailWindows = {2}
INVARIANTS
    DashboardTypeOK
    NoneMissingStaysTrue
    LiveHasFreshData
    HealthAgreesWithDashboard
    ObservationFitsTogether
    DetailTypeOK
    UnshadedMinutesAreClosed
PROPERTIES
    NoSuccessOverAGap
    ServiceShadesOnlyRecentMinutes
