SPECIFICATION OrdersSpec
CONSTANTS
    Order <- MCOrder
    AssetOf <- MCAssetOf
    Own <- MCOwn
    SwapAsset <- MCSwapAsset
    MaxChanges = 2
    MaxSubscribes = 2
    MaxLosses = 1
    None = None
    m1 = m1
    m2 = m2
CHECK_DEADLOCK FALSE
INVARIANTS
    ListIsShown
    Converged
PROPERTIES
    ReviewsSettle
    ListReturns
