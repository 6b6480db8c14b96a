SPECIFICATION TickSpec
CONSTANTS
    WORD = 5
    tick_cycles = 3
    MaxTime = 16
CHECK_DEADLOCK FALSE
INVARIANTS
    TickInv
    TickNotAhead
PROPERTIES
    TickServed
