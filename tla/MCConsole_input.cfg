SPECIFICATION FairSpec
CONSTANTS
    FIFO_DEPTH = 2
    UART_RX_BUFFER_SIZE = 4
    DISPATCH_MAX = 2
    SEM_VALUE_MAX = 2
    MaxBytes = 5
INVARIANTS
    ConsoleInv
PROPERTIES
    ImplementsStream
    LossOnlyAtLimit
    InputReachesShell
