SPECIFICATION Spec
CONSTANTS
    PRODUCER_NUM = 3
    BANK_SIZE <- SmallBanks
    REPLACE = FALSE
    Uops <- MixedUops
    None = None
INVARIANTS
    ReadyAtResponse
