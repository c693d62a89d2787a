SPECIFICATION ClientSpec
CONSTANTS
    w1 = w1
    w2 = w2
    Wallets <- MCWallets
    NoWallet = NoWallet
    RegChains <- MCRegChains
    AmpChains <- MCNoChains
    AddressGap = 1
    MaxUsed = 1
    NoKey = NoKey
    DisableDeviceKey = FALSE
    MaxUiOps = 3
    MaxFaults = 1
    ConfCount = 2
    Amounts = {3, 5, 6}
    Balance = 5
    NetFee = 1
    MinPegOut = 3
CHECK_DEADLOCK FALSE
INVARIANTS
    ClientTypeOK
    ConnInv
    RegisteredAreKnown
    TxsListIsCurrent
    PegPaidPegsKept
    PegPaysAsAgreed
    CoinsPayForOrders
    PayjoinAsShown
PROPERTIES
    KnownKeyIsKept
    ConnSettles
    TxsSendsReported
    PegWaitsEnd
    AmpRequestsServed
