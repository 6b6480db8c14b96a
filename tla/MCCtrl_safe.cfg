SPECIFICATION Spec
CONSTANTS
    PRODUCER_NUM = 3
    r1 = r1
    r2 = r2
    REGS = {r1, r2}
    NoReg = NoReg
    NoId = NoId
    DIV_CYCLES = 3
    Uops <- AllUops
INVARIANTS
    RingInv
    RatInv
    RenameSound
    WrongPathNeverRetires
    RetireOnlyExecuted
    SerialInv
    RecoveryNoUnderflow
    IndInv
PROPERTIES
    ImplementsRob
