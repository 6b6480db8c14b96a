SPECIFICATION FairSpec
CONSTANTS
    PCS = 2
    WINDOW = 2
    None = None
    Irqs = {"mti"}
    Ops <- TrapOps
PROPERTIES
    SysTaken
