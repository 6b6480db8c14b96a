SPECIFICATION FairSpec
CONSTANTS
    PCS = 3
    WINDOW = 2
    None = None
    Irqs = {"mti"}
    Ops <- TrapOps
INVARIANTS
    TrapInv
    MepcIsResumePoint
PROPERTIES
    TrapCompletes
