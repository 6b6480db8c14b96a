SPECIFICATION Spec
CONSTANTS
    PRODUCER_NUM = 3
    BANK_SIZE <- SmallBanks
    REPLACE = TRUE
    Uops <- MixedUops
    None = None
INVARIANTS
    OrderExact
