\* One transfer of a process that is killed twice and loses its connection.
SPECIFICATION Spec
CONSTANTS
    MaxTransfers = 1
    MaxKills = 2
    MaxLosses = 1
    MaxReports = 1
CHECK_DEADLOCK FALSE
INVARIANTS
    NothingPaidTwice
