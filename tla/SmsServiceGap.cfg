SPECIFICATION FairSpec
CONSTANTS
    Phone = {u}
    Stranger = s
    Nobody = nobody
    SimSize = 2
    WideIndex = 2
    MaxTrouble = 1
PROPERTIES ReadAll
