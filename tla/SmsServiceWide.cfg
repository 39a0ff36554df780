SPECIFICATION FairSpec
CONSTANTS
    Phone = {u}
    Stranger = s
    Nobody = nobody
    SimSize = 2
    WideIndex = 1
    MaxTrouble = 0
PROPERTIES SleepsBetween
