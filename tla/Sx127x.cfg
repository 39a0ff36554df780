SPECIFICATION FairSpec
CONSTANTS
    Payload = {p, q}
    None = none
    MaxFault = 2
    MaxRx = 2
INVARIANTS TypeOK StateAgrees SentWhenOk FreshAndWhole FreeWhenOk
PROPERTIES Returns
