SPECIFICATION Spec
CONSTANTS
    Node = {a, b}
    NoNode = none
    MaxNode = 2
    Samples = 1
    MaxErr = 1
    MaxLag = 1
INVARIANT FirstTimeNode
