SPECIFICATION FairSpec
CONSTANTS
    Addr = {a, b}
    Short = {b}
    NoAddr = none
    Garbled = garbled
    Lines = 2
    Refill = {1, 2}
    MaxVersion = 3
    MaxStart = 2
    MaxQueue = 2
INVARIANTS TypeOK KnownWhenOk FileInOrder
PROPERTIES Acknowledged ListArrives
