SPECIFICATION Spec
CONSTANTS
    WINDOW = 3
    ITERS = 1
    RECOVERY = FALSE
    None = None
    Ghost = Ghost
    Ops <- MduOps
INVARIANTS
    DivOperandPresent
