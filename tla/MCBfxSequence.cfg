\* Two transfers in a row, with one loss of the connection to the proxy.
SPECIFICATION Spec
CONSTANTS
    MaxTransfers = 2
    MaxKills = 0
    MaxLosses = 1
    MaxReports = 1
INVARIANTS
    TypeOK
    CompleteIsReal
    WithdrawReplyIsOwn
CHECK_DEADLOCK FALSE
