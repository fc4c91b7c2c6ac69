SPECIFICATION Spec
CONSTANTS
    Symbols = {"s1"}
    Epochs = {0, 1, 2, 4}
    Prices = {1, 2}
    Backends = {"sqlite", "supabase"}
    WriteBatchSize = 2
    MaxLate = 1
    Granularity = 3
    MaxGap = 2
    MinReturns = 1
    MinHistory = 1
    MaxTicks = 3
INVARIANTS
    TypeOK
    LossBounded
    NothingLost
    LastWriteWins
    CandleMatchesTicks
    EveryTickInOneCandle
PROPERTIES
    WindowsAdvance
    BufferFlushed
    ShutdownEnds
