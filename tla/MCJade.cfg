SPECIFICATION LiveSpec
CONSTANTS
    Ops = {"GetXpubs", "GetBlindingPublicKeys", "GetBlindingNonces", "SignTx", "SignMessage", "GetMasterBlindingKey"}
    Items = 1
    MaxOps = 3
    MaxHandles = 2
    MaxFaults = 1
CHECK_DEADLOCK FALSE
INVARIANTS
    AnswersAreOwn
    DialogsUndisturbed
PROPERTIES
    OperationsSettle
