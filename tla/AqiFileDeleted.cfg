SPECIFICATION Spec
CONSTANTS
    Node = {a, b}
    NoNode = none
    MaxNode = 2
    MaxCrash = 0
INVARIANT DeletedFromBoth
