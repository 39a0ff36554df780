SPECIFICATION Spec
CONSTANTS
    Own = 10
    Others = {11}
    Cnt = {1}
    Dust = {12}
    GasAbove = {40}
    GasBelow = {}
    Hours = 3
    Junk = {77}
INVARIANTS
    SamplesKeepTheirKind
CHECK_DEADLOCK FALSE
