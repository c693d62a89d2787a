\* A maker's and a taker's order, bad terms, a logout; or an index order and a restart.
SPECIFICATION SignSpec
CONSTANTS
    m1 = m1
    t1 = t1
    Order = {m1, t1}
    Taken = {t1}
    Index = {m1}
    Price = {0, 10}
    None = None
    Relinks = FALSE
    MaxClicks = 2
    MaxNotifs = 2
    MaxFaults = 1
    MaxLogouts = 1
    MaxRestarts = 0
CHECK_DEADLOCK FALSE
INVARIANTS
    SignedAsAgreed
    SignedOnce
    PromptsWaitForReview
