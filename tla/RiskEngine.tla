----------------------------- MODULE RiskEngine -----------------------------
(***************************************************************************)
(* Level 4, the Risk Engine (risk/engine.py): one account, an equity       *)
(* curve, three circuit breakers, an expected-shortfall limit, position    *)
(* sizing, and a veto over every trade.                                    *)
(*                                                                         *)
(* Money is in whole currency units; a fraction of the code (a limit, a    *)
(* probability, a ratio) is its numerator over Scale, see Fractions.       *)
(*                                                                         *)
(* A definition marked "Slip" is a mistake an editor of the code could     *)
(* make; no specification uses it.                                         *)
(***************************************************************************)
EXTENDS Fractions, Sequences, FiniteSets, Functions

CONSTANTS
    SecondsPerDay,          \* SECONDS_PER_DAY, in the model's unit of time
    StartingEquity,         \* the account at construction
    MaxDailyLoss,           \* RiskConfig.max_daily_loss_pct
    MaxDrawdown,            \* max_drawdown_pct
    MaxConsecutiveLosses,   \* max_consecutive_losses
    CooldownEvaluations,    \* consecutive_loss_cooldown_evaluations
    KellyMultiplier,        \* kelly_fraction_multiplier
    MaxExposure,            \* max_exposure_pct
    MinStake,               \* min_stake
    RuinThreshold,          \* risk_of_ruin_threshold
    ShortfallTail,          \* 1 - expected_shortfall_confidence
    TailRoundedUp,          \* the float 1.0 - confidence exceeds its exact value
    MaxShortfall,           \* expected_shortfall_max_pct
    MinTradesForShortfall,  \* min_trades_for_expected_shortfall
    EVEstimates,            \* the EVEstimates a caller may hand to assess()
    Epochs,                 \* the epochs a trade may settle or be assessed at
    Pnls                    \* the profits and losses a caller may record

(* The bounds RiskConfig's validators and the engine's constructor enforce, *)
(* and a positive min_stake, which has no validator.                       *)
ASSUME ConfigAssumption ==
    /\ SecondsPerDay \in Nat \ {0}
    /\ StartingEquity \in Nat \ {0}
    /\ MaxDailyLoss \in 1..Scale /\ MaxDrawdown \in 1..Scale
    /\ MaxConsecutiveLosses \in Nat \ {0}
    /\ CooldownEvaluations \in Nat \ {0}
    /\ KellyMultiplier \in 1..Scale /\ MaxExposure \in 1..Scale
    /\ MinStake \in Nat \ {0} /\ RuinThreshold \in 1..Scale
    /\ ShortfallTail \in 1..Scale /\ MaxShortfall \in 1..Scale
    /\ MinTradesForShortfall \in Nat \ {0}
    /\ TailRoundedUp \in BOOLEAN

(* What assess() reads of an EVEstimate.  ruinCapital is the least number   *)
(* of stakes the account must hold for risk_of_ruin(p, b, .), which falls  *)
(* as capital grows, to be within risk_of_ruin_threshold.                  *)
EVEstimate ==
    [isValid: BOOLEAN, isPositive: BOOLEAN, direction: {-1, 0, 1},
     p: 0..Scale, b: Int, ruinCapital: Nat]

ASSUME InputAssumption ==
    /\ EVEstimates \subseteq EVEstimate
    /\ Epochs \subseteq Nat
    /\ Pnls \subseteq Int

VARIABLES
    equity,             \* _equity
    peakEquity,         \* _peak_equity
    dayStartEquity,     \* _day_start_equity
    currentDay,         \* _current_day, NoDay before the first trade
    consecutiveLosses,  \* _consecutive_losses
    cooldown,           \* _consecutive_loss_cooldown_remaining
    pnlPcts,            \* _trade_pnl_pcts, numerators over Scale
    assessment          \* the last RiskAssessment returned to a caller

riskVars == <<equity, peakEquity, dayStartEquity, currentDay,
              consecutiveLosses, cooldown, pnlPcts, assessment>>

NoDay == -1

Vetoes == {"ev", "daily", "drawdown", "streak", "shortfall", "stake", "ruin"}

Assessment ==
    [epoch: Nat, approved: BOOLEAN, stake: Int, vetoes: SUBSET Vetoes]

NoAssessment == [epoch |-> 0, approved |-> FALSE, stake |-> 0, vetoes |-> {}]

-----------------------------------------------------------------------------
(* Metrics.                                                                 *)

DayOf(epoch) == epoch \div SecondsPerDay

(* Slip: the fall is measured from the opening of the day, not the peak.    *)
DrawdownSinceOpening ==
    (dayStartEquity - equity) * Scale >= MaxDrawdown * dayStartEquity

(* current_drawdown_pct >= max_drawdown_pct.  The limit is positive, so a   *)
(* drawdown the code clips to 0 does not reach it.                         *)
DrawdownTripped ==
    /\ peakEquity > 0
    /\ (peakEquity - equity) * Scale >= MaxDrawdown * peakEquity

(* daily_loss_pct >= max_daily_loss_pct.                                    *)
DailyTripped ==
    /\ dayStartEquity > 0
    /\ (dayStartEquity - equity) * Scale >= MaxDailyLoss * dayStartEquity

(* sorted(): every number goes to its place, equal ones in their order.     *)
UpTo(s, i) ==
    {j \in DOMAIN s : s[j] < s[i] \/ (s[j] = s[i] /\ j <= i)}
Place(s, i) == Cardinality(UpTo(s, i))
Sorted(s) ==
    [k \in DOMAIN s |-> s[CHOOSE i \in DOMAIN s : Place(s, i) = k]]

(* Slip: the tail is rounded down.                                          *)
TailCountFloor(n) == AtLeast(1, (n * ShortfallTail) \div Scale)

(* max(1, ceil(n * tail_fraction)) in floats: 1.0 - 0.95, say, is a little  *)
(* more than 0.05, so that a product that is whole is carried one higher.  *)
TailCount(n) ==
    LET carried == IF TailRoundedUp THEN Scale ELSE Scale - 1
    IN  AtLeast(1, (n * ShortfallTail + carried) \div Scale)

(* expected_shortfall_pct() > expected_shortfall_max_pct: the mean of the   *)
(* worst tail_count recorded returns, sorted worst first; NaN, which       *)
(* exceeds nothing, until enough trades are recorded.                      *)
ShortfallTripped ==
    LET n == Len(pnlPcts)
        tailCount == TailCount(n)
        worst == SubSeq(Sorted(pnlPcts), 1, tailCount)
    IN  /\ n >= MinTradesForShortfall
        /\ -FoldFunction(+, 0, worst) > MaxShortfall * tailCount

-----------------------------------------------------------------------------
(* Position sizing.                                                         *)

(* kelly_fraction: f* = (b p - q) / b clipped to [0, 1].                    *)
KellyFraction(p, b) ==
    IF b <= 0 THEN 0
    ELSE AtLeast(0, AtMost(Scale, (b * p - Scale * (Scale - p)) \div b))

KellyStake(ev) ==
    LET fRaw == IF ev.isValid THEN KellyFraction(ev.p, ev.b) ELSE 0
        fApplied == (fRaw * KellyMultiplier) \div Scale
    IN  (fApplied * equity) \div Scale

(* Slip: Kelly alone sizes the stake.                                       *)
CandidateStakeUncapped(ev) == KellyStake(ev)

(* min(kelly_stake, exposure_cap_stake), before the min_stake floor.        *)
CandidateStake(ev) == AtMost(KellyStake(ev), (equity * MaxExposure) \div Scale)

RecommendedStake(ev) ==
    IF CandidateStake(ev) < MinStake THEN 0 ELSE CandidateStake(ev)

(* risk_of_ruin is 1.0 when there is nothing to stake, no possible win or no*)
(* positive edge.                                                          *)
RuinCertain(ev) ==
    \/ RecommendedStake(ev) <= 0
    \/ ev.b <= 0 \/ ev.p <= 0
    \/ ev.p * ev.b <= Scale * (Scale - ev.p)

(* risk_of_ruin(p, b, equity / stake) > risk_of_ruin_threshold; it is NaN,  *)
(* which exceeds nothing, when the estimate is invalid.  Short of a p of   *)
(* exactly 1, for which the search for its root overflows and assess()     *)
(* raises.                                                                 *)
RuinTripped(ev) ==
    /\ ev.isValid
    /\ IF RuinCertain(ev) THEN RuinThreshold < Scale
       ELSE equity < ev.ruinCapital * RecommendedStake(ev)

-----------------------------------------------------------------------------
(* assess(): tick the cooldown first, then collect every veto.              *)

(* Slips: the guard is lost, one evaluation ticks twice, the pause is only  *)
(* counted down once the streak no longer blocks.                          *)
CooldownUnguarded == cooldown - 1
CooldownTickedTwice == AtLeast(0, cooldown - 2)
CooldownTickedUnblocked ==
    IF cooldown > 0 /\ consecutiveLosses < MaxConsecutiveLosses
    THEN cooldown - 1 ELSE cooldown

CooldownAfterTick == IF cooldown > 0 THEN cooldown - 1 ELSE cooldown

(* Slip: the streak outlives its pause.                                     *)
LossesNeverReset == consecutiveLosses

LossesAfterTick == IF cooldown = 1 THEN 0 ELSE consecutiveLosses

VetoReasons(ev) ==
    {v \in Vetoes :
        \/ v = "ev" /\ ~(ev.isValid /\ ev.isPositive)
        \/ v = "daily" /\ DailyTripped
        \/ v = "drawdown" /\ DrawdownTripped
        \/ v = "streak" /\ LossesAfterTick >= MaxConsecutiveLosses
        \/ v = "shortfall" /\ ShortfallTripped
        \/ v = "stake" /\ CandidateStake(ev) < MinStake
        \/ v = "ruin" /\ RuinTripped(ev)}

(* Slip: only the edge and the size are looked at, not the breakers.        *)
ApprovesOnEdgeAlone(ev) == VetoReasons(ev) \cap {"ev", "stake", "ruin"} = {}

Approves(ev) == VetoReasons(ev) = {}

Assess(ev, epoch) ==
    /\ cooldown' = CooldownAfterTick
    /\ consecutiveLosses' = LossesAfterTick
    /\ assessment' = [epoch |-> epoch,
                      approved |-> Approves(ev),
                      stake |-> IF Approves(ev) THEN RecommendedStake(ev) ELSE 0,
                      vetoes |-> VetoReasons(ev)]
    /\ UNCHANGED <<equity, peakEquity, dayStartEquity, currentDay, pnlPcts>>

(* Slip: the peak is taken before the equity is updated.                    *)
PeakOfOldEquity(newEquity) == AtLeast(peakEquity, equity)

PeakAfter(newEquity) == AtLeast(peakEquity, newEquity)

(* record_trade_result(TradeOutcome(epoch, pnl, equity + pnl)); every caller*)
(* passes the engine's own equity plus the pnl as equity_after.            *)
RecordTradeResult(epoch, pnl) ==
    /\ currentDay' = DayOf(epoch)
    /\ dayStartEquity' =
           IF DayOf(epoch) = currentDay THEN dayStartEquity ELSE equity
    /\ pnlPcts' =
           Append(pnlPcts, IF equity > 0 THEN (pnl * Scale) \div equity ELSE 0)
    /\ equity' = equity + pnl
    /\ peakEquity' = PeakAfter(equity + pnl)
    /\ \/ /\ pnl > 0
          /\ consecutiveLosses' = 0
          /\ cooldown' = 0
       \/ /\ pnl <= 0
          /\ consecutiveLosses' = consecutiveLosses + 1
          /\ cooldown' = IF consecutiveLosses + 1 >= MaxConsecutiveLosses
                         THEN CooldownEvaluations ELSE cooldown
    /\ UNCHANGED assessment

(* reset(starting_equity) runs the constructor again.                       *)
ResetEngine ==
    /\ equity' = StartingEquity
    /\ peakEquity' = StartingEquity
    /\ dayStartEquity' = StartingEquity
    /\ currentDay' = NoDay
    /\ consecutiveLosses' = 0
    /\ cooldown' = 0
    /\ pnlPcts' = <<>>
    /\ UNCHANGED assessment

RiskInit ==
    /\ equity = StartingEquity
    /\ peakEquity = StartingEquity
    /\ dayStartEquity = StartingEquity
    /\ currentDay = NoDay
    /\ consecutiveLosses = 0
    /\ cooldown = 0
    /\ pnlPcts = <<>>
    /\ assessment = NoAssessment

(* The most general client: any estimate assessed and any result recorded,  *)
(* in any order, at any epoch.                                             *)
RiskNext ==
    \/ \E ev \in EVEstimates, epoch \in Epochs : Assess(ev, epoch)
    \/ \E epoch \in Epochs, pnl \in Pnls : RecordTradeResult(epoch, pnl)
    \/ ResetEngine

RiskSpec == RiskInit /\ [][RiskNext]_riskVars

-----------------------------------------------------------------------------
(* Properties.                                                              *)

(* Every variable of the engine holds a value of its kind, and the clock of *)
(* the streak pause never exceeds its configured length.                   *)
RiskTypeOK ==
    /\ equity \in Int /\ dayStartEquity \in Int
    /\ peakEquity \in Nat \ {0}
    /\ currentDay \in Nat \cup {NoDay}
    /\ consecutiveLosses \in Nat
    /\ cooldown \in 0..CooldownEvaluations
    /\ pnlPcts \in Seq(Int)
    /\ assessment \in Assessment

(* The streak breaker blocks trading exactly while a pause is being counted *)
(* down: it can neither be tripped with no way out (the self-lock that the *)
(* cooldown was added for) nor leave a pause running that blocks nothing.  *)
StreakPauseTimed ==
    consecutiveLosses >= MaxConsecutiveLosses <=> cooldown > 0

(* The drawdown is measured from a true high-water mark: the peak bounds    *)
(* the equity and every day's opening equity, whatever day is rolled to.   *)
PeakIsHighWater == peakEquity >= equity /\ peakEquity >= dayStartEquity

(* The expected-shortfall verdict is about the worst tail of the record: it *)
(* is reached when some set of trades, as small as the confidence level    *)
(* allows, lost more than the limit on average.  It holds of a confidence  *)
(* whose complement is no larger in floats than it is exactly.             *)
ShortfallIsWorstTail ==
    LET n == Len(pnlPcts)
        IsTail(I) ==
            /\ I # {} /\ Cardinality(I) * Scale >= n * ShortfallTail
            /\ (Cardinality(I) - 1) * Scale < n * ShortfallTail
        Loss(I) == -FoldFunctionOnSet(+, 0, pnlPcts, I)
    IN  n >= MinTradesForShortfall =>
            (ShortfallTripped <=>
                \E I \in SUBSET (1..n) :
                    IsTail(I) /\ Loss(I) > MaxShortfall * Cardinality(I))

(* A trade approved by assess() risks a stake between the floor and the     *)
(* exposure cap of a solvent account, and while no breaker is tripped.     *)
ApprovalWithinLimits ==
    [][assessment' # assessment /\ assessment'.approved =>
          /\ MinStake <= assessment'.stake
          /\ assessment'.stake * Scale <= MaxExposure * equity
          /\ ~DailyTripped /\ ~DrawdownTripped
          /\ consecutiveLosses' < MaxConsecutiveLosses]_riskVars

(* A streak pause is served in full: one evaluation takes one off it, and   *)
(* only a win or a manual reset ends it sooner.                            *)
PauseServedInFull ==
    [][cooldown' < cooldown =>
          \/ cooldown' = cooldown - 1
          \/ equity' > equity
          \/ currentDay' = NoDay]_riskVars

(* The drawdown halt is a hard stop: no evaluation and no new day lifts it, *)
(* only an equity recovery or a manual reset.                              *)
DrawdownHardStop ==
    [][DrawdownTripped /\ ~DrawdownTripped' =>
          equity' > equity \/ currentDay' = NoDay]_riskVars

=============================================================================
