SPECIFICATION Spec
CONSTANTS
    Own = 10
    Others = {11}
    Cnt = {1, 512}
    Dust = {0, 12, 200}
    GasAbove = {40, 60}
    GasBelow = {40}
    Hours = 3
    Junk = {77, 1000}
INVARIANTS
    TypeOK
    StoredIsSent
    AckReachesSender
    WindowIsHistory
    NowcastBounded
    AqiOfHistory
CHECK_DEADLOCK FALSE
