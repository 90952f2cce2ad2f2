\* One script, killed after the dump has its final name.
SPECIFICATION Spec
CONSTANTS
    Runs = {1}
    Retention = 1
    MaxDay = 2
    MaxFaults = 1
INVARIANTS
    FinalIsVerified
CHECK_DEADLOCK FALSE
