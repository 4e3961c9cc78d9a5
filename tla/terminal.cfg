SPECIFICATION LiveSpec
CONSTANTS
    Clients = {c1, c2}
    Texts <- MCTexts
    ReadMax = 2
    OutputMax = 2
    ChannelSize = 1
    MaxVisits = 1
INVARIANTS
    TypeOK
    BufferIsTail
    InOrder
    ChannelsOpen
PROPERTIES
    SessionEnds
