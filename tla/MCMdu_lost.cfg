SPECIFICATION Spec
CONSTANTS
    WINDOW = 3
    ITERS = 1
    RECOVERY = TRUE
    None = None
    Ghost = Ghost
    Ops <- OnlyDiv
INVARIANTS
    DividerReserved
