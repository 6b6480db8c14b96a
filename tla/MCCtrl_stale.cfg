SPECIFICATION Spec
CONSTANTS
    PRODUCER_NUM = 3
    r1 = r1
    r2 = r2
    REGS = {r1}
    NoReg = NoReg
    NoId = NoId
    DIV_CYCLES = 9
    Uops <- DivUops
INVARIANTS
    SquashedResultRejected
