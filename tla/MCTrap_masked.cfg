SPECIFICATION Spec
CONSTANTS
    PCS = 2
    WINDOW = 2
    None = None
    Irqs = {"mei", "mti"}
    Ops <- MaskOps
INVARIANTS
    MaskedNeverTaken
