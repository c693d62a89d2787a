SPECIFICATION LiveSpec
CONSTANTS
    Setups <- MCSetups
    Pairs <- MCPairs
    Limits <- MCLimits
    Balances <- MCBalances
    MinAmount = 200
    SubmitAmount = 400
    MaxAmount = 600
    InterestSubmit = 4
    InterestSign = 2
    Fee = 1
    MaxOrders = 2
CHECK_DEADLOCK FALSE
INVARIANTS
    CallsAreOwn
    KnownOrderIsLive
    SwapsReported
    OffersOnce
PROPERTIES
    DealerSettles
