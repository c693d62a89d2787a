SPECIFICATION Spec
CONSTANTS
    Setups <- MCRemovals
    SignLimit = 0
CHECK_DEADLOCK FALSE
PROPERTIES
    KeyUsedOnce
