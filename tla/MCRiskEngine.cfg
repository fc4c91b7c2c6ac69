SPECIFICATION RiskSpec
CONSTANTS
    Scale = 100
    SecondsPerDay = 2
    StartingEquity = 100
    MaxDailyLoss = 15
    MaxDrawdown = 30
    MaxConsecutiveLosses = 2
    CooldownEvaluations = 3
    KellyMultiplier = 25
    MaxExposure = 10
    MinStake = 2
    RuinThreshold = 1
    ShortfallTail = 40
    TailRoundedUp = FALSE
    MaxShortfall = 8
    MinTradesForShortfall = 2
    EVEstimates <- MCEVEstimates
    Epochs = {0, 1, 2}
    Pnls <- MCPnls
    MaxTrades = 3
CONSTRAINT TradeBound
INVARIANTS
    RiskTypeOK
    StreakPauseTimed
    PeakIsHighWater
    ShortfallIsWorstTail
PROPERTIES
    ApprovalWithinLimits
    PauseServedInFull
    DrawdownHardStop
