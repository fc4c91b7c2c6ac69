-------------------------- MODULE OpportunityScorer -------------------------
(***************************************************************************)
(* Level 5, the Trade Opportunity Scorer (opportunity/scorer.py): a        *)
(* quality score, and per regime a threshold that drifts with the rate of  *)
(* approvals.                                                              *)
(***************************************************************************)
EXTENDS Fractions, Sequences, FiniteSets

CONSTANTS
    Keys,               \* the labels the detector gives, one bucket each
    PerRegime,          \* per_regime_adjustment
    EVWeight, RiskAdjustedWeight, RegimeWeight, ProbabilityWeight,
    CertaintyWeight,    \* QualityWeights
    EVScale,            \* ev_pct_scale
    RiskAdjustedScale,  \* risk_adjusted_scale
    BaseThreshold,      \* base_confidence_threshold
    ThresholdMin,       \* threshold_min
    ThresholdMax,       \* threshold_max
    AdjustmentStep,     \* threshold_adjustment_step
    RollingWindow,      \* rolling_window_size
    TargetFrequency,    \* target_trade_frequency
    BandLow,            \* frequency_band_low
    BandHigh,           \* frequency_band_high
    MinSamples,         \* min_samples_for_adjustment
    AdjustmentCooldown  \* adjustment_cooldown

(* What the configuration validates, its QualityWeights included.  The floor*)
(* of samples may exceed the window, and the upper end of the target band  *)
(* may exceed 1.                                                           *)
OpportunityScoringConfig ==
    /\ {EVWeight, RiskAdjustedWeight, RegimeWeight, ProbabilityWeight,
        CertaintyWeight} \subseteq Int
    /\ EVWeight + RiskAdjustedWeight + RegimeWeight + ProbabilityWeight
        + CertaintyWeight = Scale
    /\ ThresholdMin \in 0..BaseThreshold
    /\ BaseThreshold \in 0..ThresholdMax /\ ThresholdMax \in 0..Scale
    /\ BandLow \in 1..(Scale - 1) /\ BandHigh \in Nat /\ BandHigh > Scale
    /\ TargetFrequency \in 1..(Scale - 1) /\ PerRegime \in BOOLEAN

(* Of scales, step and counters it validates nothing.  The step may be      *)
(* negative here too; scales and window are taken for positive numbers, and*)
(* the counters for numbers that are not negative.                         *)
ASSUME ScoringAssumption ==
    /\ OpportunityScoringConfig
    /\ EVScale \in Nat \ {0} /\ RiskAdjustedScale \in Nat \ {0}
    /\ AdjustmentStep \in Int /\ AdjustmentCooldown \in Nat
    /\ RollingWindow \in Nat \ {0} /\ MinSamples \in Nat

VARIABLE buckets    \* _buckets; a key not yet met has a fresh bucket

GlobalKey == "all"
BucketKeys == IF PerRegime THEN Keys ELSE {GlobalKey}

FreshBucket == [threshold |-> BaseThreshold, history |-> <<>>, since |-> 0]

BucketKey(regime) == IF PerRegime THEN regime ELSE GlobalKey

-----------------------------------------------------------------------------
(* Quality score: five parts in [0, 1], weighted; over Scale * Scale.       *)

Quality(ev, classification, probability) ==
    LET favored == AtLeast(probability.probUp, Scale - probability.probUp)
        Part(isValid, value) == IF isValid THEN Clip01(value) ELSE 0
    IN  EVWeight * Part(ev.isValid, (ev.evPct * Scale) \div EVScale)
        + RiskAdjustedWeight
            * Part(ev.isValid, (ev.riskAdjusted * Scale) \div RiskAdjustedScale)
        + RegimeWeight * Part(classification.isValid, classification.confidence)
        + ProbabilityWeight * Part(probability.isValid, 2 * favored - Scale)
        + CertaintyWeight
            * Part(probability.isValid, Scale - probability.uncertainty)

(* evaluate(): the gates of Levels 3 and 4 are asked whatever the score is. *)
Clears(ev, riskApproved, regime, quality) ==
    /\ ev.isValid /\ ev.isPositive
    /\ riskApproved
    /\ quality >= buckets[BucketKey(regime)].threshold * Scale

-----------------------------------------------------------------------------
(* The adaptive threshold.                                                  *)

Approvals(history) == Cardinality({i \in DOMAIN history : history[i]})

Starved(history) ==
    Approvals(history) * Scale * Scale
        < TargetFrequency * BandLow * Len(history)
Overtrading(history) ==
    Approvals(history) * Scale * Scale
        > TargetFrequency * BandHigh * Len(history)

(* Slip: the floor is forgotten.                                            *)
EasedFreely(threshold) == threshold - AdjustmentStep

(* Only one end is guarded in each direction: with a negative step easing   *)
(* raises the threshold past its ceiling, and tightening lowers it.        *)
Eased(threshold) == AtLeast(ThresholdMin, threshold - AdjustmentStep)
Tightened(threshold) == AtMost(ThresholdMax, threshold + AdjustmentStep)

Adjusted(threshold, history) ==
    IF Starved(history) THEN Eased(threshold)
    ELSE IF Overtrading(history) THEN Tightened(threshold) ELSE threshold

(* deque(maxlen = rolling_window_size).                                     *)
Remembered(history, approved) ==
    LET longer == Append(history, approved)
    IN  IF Len(longer) > RollingWindow THEN Tail(longer) ELSE longer

(* Slip: the count of evaluations since the adjustment is not cleared.      *)
RecordedUncleared(bucket, approved) ==
    LET history == Remembered(bucket.history, approved)
        since == bucket.since + 1
        adjusts == since >= AdjustmentCooldown /\ Len(history) >= MinSamples
    IN  [threshold |-> IF adjusts THEN Adjusted(bucket.threshold, history)
                       ELSE bucket.threshold,
         history |-> history, since |-> since]

(* _record_and_maybe_adjust                                                 *)
Recorded(bucket, approved) ==
    LET history == Remembered(bucket.history, approved)
        since == bucket.since + 1
        adjusts == since >= AdjustmentCooldown /\ Len(history) >= MinSamples
    IN  [threshold |-> IF adjusts THEN Adjusted(bucket.threshold, history)
                       ELSE bucket.threshold,
         history |-> history,
         since |-> IF adjusts THEN 0 ELSE since]

RecordEvaluation(regime, approved) ==
    buckets' = [buckets EXCEPT ![BucketKey(regime)] = Recorded(@, approved)]

ScorerInit == buckets = [key \in BucketKeys |-> FreshBucket]

(* "Hard floor" and "hard ceiling" of the adaptive threshold.               *)
ThresholdsBounded ==
    \A key \in BucketKeys :
        buckets[key].threshold \in ThresholdMin..ThresholdMax

ScorerTypeOK ==
    /\ DOMAIN buckets = BucketKeys
    /\ AdjustmentStep >= 0 => ThresholdsBounded
    /\ \A key \in BucketKeys :
           /\ buckets[key].threshold \in Int
           /\ buckets[key].history \in Seq(BOOLEAN)
           /\ Len(buckets[key].history) <= RollingWindow
           /\ buckets[key].since \in Nat
=============================================================================
