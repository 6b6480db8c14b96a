SPECIFICATION FairSpec
CONSTANTS
    Addrs <- Words
    Data <- Words
    None = None
INVARIANTS
    MmioInv
PROPERTIES
    ImplementsPort
    CrossingStable
    Answered
