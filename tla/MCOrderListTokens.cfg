SPECIFICATION Spec
CONSTANTS
    Order <- MCOrder
    AssetOf <- MCAssetOf
    Own <- MCOwn
    SwapAsset <- MCSwapAsset
    MaxChanges = 3
    MaxSubscribes = 2
    MaxLosses = 1
INVARIANTS
    UnsubscribeEmpties
CHECK_DEADLOCK FALSE
