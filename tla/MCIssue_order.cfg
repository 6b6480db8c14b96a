SPECIFICATION Spec
CONSTANTS
    PRODUCER_NUM = 3
    BANK_SIZE <- SmallBanks
    REPLACE = FALSE
    Uops <- MixedUops
    None = None
INVARIANTS
    StationInv
    OrderExact
    TagLive
    WakeupExact
    P0Oldest
PROPERTIES
    CreditExact
    OperandInTime
