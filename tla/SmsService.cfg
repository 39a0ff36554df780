SPECIFICATION FairSpec
CONSTANTS
    Phone = {u}
    Stranger = s
    Nobody = nobody
    SimSize = 3
    WideIndex = 3
    MaxTrouble = 1
INVARIANTS TypeOK OneText EndlessCause
PROPERTIES DeletedWhenAnswered MessagesAnswered DailySent EntryEnds
