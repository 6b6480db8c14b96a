SPECIFICATION FairSpec
CONSTANTS
    PcCount = 4
    Dtcm = {2, 3}
    Targets = {1}
    FETCHQ_DEPTH = 6
    None = None
INVARIANTS
    FetchInv
    StreamInOrder
    ResumeIsNext
PROPERTIES
    FetchProgress
