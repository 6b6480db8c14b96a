SPECIFICATION FairSpec
CONSTANTS
    WINDOW = 3
    ITERS = 1
    RECOVERY = TRUE
    None = None
    Ghost = Ghost
    Ops <- MduOps
INVARIANTS
    MduInv
    MulOperandPresent
    WakeupNotLost
    ResultAwaited
PROPERTIES
    ReservationReturns
