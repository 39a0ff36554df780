SPECIFICATION FairSpec
CONSTANTS
    Node = {a, b}
    NoNode = none
    MaxNode = 2
    MaxCrash = 1
INVARIANTS TypeOK ReadableOutsideWrites EntryHasNode RecordOfOneNode
PROPERTIES FileCatchesUp
