\* Three scripts over three days; up to two signals or failed removals.  All scripts end: no deadlock check.
SPECIFICATION BackupSpec
CONSTANTS
    Runs = {1, 2, 3}
    Retention = 1
    MaxDay = 3
    MaxFaults = 2
INVARIANTS
    BackupTypeOK
    FinalIsComplete
    LockExcludes
    EndedScriptsLeaveNothing
    SuccessMeansRestorable
PROPERTIES
    LockIsReleased
    ImplementsArchive
CHECK_DEADLOCK FALSE
