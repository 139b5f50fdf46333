CONSTANTS
    Processes = {p1, p2}
    Letters = {a}
    Others = {}
    Size = 2
    Word = 4
SPECIFICATION KeySpec
INVARIANTS
    KeyTypeOK
    RingHoldsUnread
    GetKeyInOrder
PROPERTY NobodyStaysDeaf
