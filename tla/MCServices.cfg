SPECIFICATION ServicesSpec
CONSTANTS
    MinAmount = 2
    MaxValue = 10
    Price = 10
    Interest = 1
    MinHedge = 20
    SignLimit = 0
CHECK_DEADLOCK FALSE
INVARIANTS
    RatioInv
    RestIsBalanced
    MainKnowsThePresent
    MainSwapsHedged
    HeadlessPromisesOnce
PROPERTIES
    MainModuleRecovers
    HeadlessSettles
