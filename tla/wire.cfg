SPECIFICATION FairSpec
CHECK_DEADLOCK FALSE
CONSTANTS
    PacketMax = 4
    BufSize = 2
    CacheMax = 4
    SeqWrap = 4
    Lengths = {3, 4, 5}
    CommandLengths = {2, 4}
    MaxAnswer = 2
    MaxCommands = 2
INVARIANTS RightPacket RowIntact CommandFramed
PROPERTIES ReadReturns
