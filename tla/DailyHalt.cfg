SPECIFICATION Spec
CONSTANTS
    s1 = s1
    s2 = s2
    Symbols <- MCSymbols
    Mode = "paper"
    Closes = {1, 2}
    Histories = {0, 2}
    MinBootstrap = 1
    Quotes <- MCQuotes
    MaxDrift = 10
    MaxSlippage = 5
    MaxOpenings = 2
    MaxRestarts = 0
    Scale = 100
    SecondsPerDay = 1
    StartingEquity = 100
    MaxDailyLoss = 18
    MaxDrawdown = 24
    MaxConsecutiveLosses = 2
    CooldownEvaluations = 2
    KellyMultiplier = 100
    MaxExposure = 20
    MinStake = 2
    RuinThreshold = 1
    ShortfallTail = 5
    TailRoundedUp = TRUE
    MaxShortfall = 50
    MinTradesForShortfall = 3
    EVEstimates <- MCEdgeUp
    Epochs = {0, 1}
    Pnls = {0}
INVARIANTS
    DailyHaltEndsWithTheDay
