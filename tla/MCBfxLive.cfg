\* Two transfers without faults.
SPECIFICATION LiveSpec
CONSTANTS
    MaxTransfers = 2
    MaxKills = 0
    MaxLosses = 0
    MaxReports = 1
PROPERTIES
    TransferSettles
CHECK_DEADLOCK FALSE
