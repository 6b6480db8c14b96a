SPECIFICATION Spec
CONSTANTS
    Addrs <- Words
    Data <- Words
    None = None
INVARIANTS
    LoadAnsweredOnce
