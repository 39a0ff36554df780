SPECIFICATION FairSpec
CONSTANTS
    Node = {a, b, c}
    NoNode = none
    MaxNode = 2
    Samples = 1
    MaxErr = 1
    MaxLag = 1
INVARIANTS TypeOK AccessInBounds UniqueAddresses OwnSamples
PROPERTIES OnlyReportedLeave FrameStoredOrTableFull SilentNodeLeaves
