\* An order is opened again while it is being opened.
SPECIFICATION Spec
CONSTANTS
    Order = {t1}
    Taken = {t1}
    Index = {}
    Price = {10, 11}
    None = None
    Relinks = TRUE
    MaxClicks = 2
    MaxNotifs = 1
    MaxFaults = 0
    MaxLogouts = 0
    MaxRestarts = 0
INVARIANTS
    TakerReviewed
CHECK_DEADLOCK FALSE
