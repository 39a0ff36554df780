SPECIFICATION FairSpec
CONSTANTS
    Node = {a}
    NoNode = none
    CntMod = 3
    Stray = {"crc", "malformed", "foreign"}
    FifoSize = 2
    BatchMax = 2
INVARIANTS TypeOK
PROPERTIES Delivers InOrder KeepsStoring
