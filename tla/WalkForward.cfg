SPECIFICATION Spec
CONSTANTS
    Setups <- MCSetups
    Candles <- MCCandles
    Models <- MCModels
    MinObservations = 2
    Series <- MCSeries
    BlockSizes = {1, 2, 3}
    Scale = 100
    SecondsPerDay = 3
    StartingEquity = 100
    MaxDailyLoss = 40
    MaxDrawdown = 50
    MaxConsecutiveLosses = 2
    CooldownEvaluations = 2
    KellyMultiplier = 100
    MaxExposure = 20
    MinStake = 2
    RuinThreshold = 1
    ShortfallTail = 40
    TailRoundedUp = FALSE
    MaxShortfall = 50
    MinTradesForShortfall = 3
    EVEstimates = {}
    Epochs = {}
    Pnls = {}
    BreakoutTrend = 50
    StrongTrend = 60
    WeakTrend = 25
    TrendingPersistence = 30
    MeanReversion <- MCMeanReversion
    Compression <- MCCompression
    Expansion = 50
    HighVolatility = 60
    LowVolatility <- MCLowVolatility
    RandomWalkBand = 15
    Stake = 10
    Payout = 19
    MinEV = 0
    MinRewardToRisk = 0
    MinProbability = 50
    RuinCapital <- MCRuinCapital
    Keys <- MCKeys
    PerRegime = TRUE
    EVWeight = 30
    RiskAdjustedWeight = 25
    RegimeWeight = 15
    ProbabilityWeight = 15
    CertaintyWeight = 15
    EVScale = 20
    RiskAdjustedScale = 100
    BaseThreshold = 55
    ThresholdMin = 40
    ThresholdMax = 85
    AdjustmentStep = 10
    RollingWindow = 3
    TargetFrequency = 30
    BandLow = 70
    BandHigh = 130
    MinSamples = 2
    AdjustmentCooldown = 2
    CalibrationBins = 5
    StartingCapital = 10
INVARIANTS
    TypeOK
    OutOfSample
    DayBudgetPerDay
    BarFollowsFrequency
    PauseShowsInRecord
    ReportMatchesRecord
    StressUnbiased
