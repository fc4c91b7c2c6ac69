---------------------------- MODULE RegimeRules -----------------------------
(***************************************************************************)
(* Level 1, the rule-based regime detector (regime/rule_based.py): a list  *)
(* of rules in priority order over four dimensions of an encoded market    *)
(* state.  It keeps no state; the scorer keeps one threshold per label.    *)
(***************************************************************************)
EXTENDS Fractions, Sequences

CONSTANTS
    BreakoutTrend,          \* breakout_trend_threshold
    StrongTrend,            \* strong_trend_threshold
    WeakTrend,              \* weak_trend_threshold
    TrendingPersistence,    \* trending_persistence_threshold
    MeanReversion,          \* mean_reversion_persistence_threshold
    Compression,            \* compression_threshold
    Expansion,              \* expansion_threshold
    HighVolatility,         \* high_volatility_threshold
    LowVolatility,          \* low_volatility_threshold
    RandomWalkBand          \* random_walk_persistence_band

Dimension == -Scale..Scale

(* What the configuration validates: three thresholds are not bounded, and  *)
(* no order between them is required.                                      *)
RuleBasedRegimeConfig ==
    /\ {BreakoutTrend, StrongTrend, WeakTrend, Compression, Expansion,
        HighVolatility, RandomWalkBand} \subseteq Dimension
    /\ {TrendingPersistence, MeanReversion, LowVolatility} \subseteq Int

ASSUME RegimeAssumption == RuleBasedRegimeConfig

(* The dimensions of a MarketState the rules read; isValid is FALSE when    *)
(* any dimension is NaN.                                                   *)
MarketState ==
    [isValid: BOOLEAN, trend: Dimension, volatility: Dimension,
     persistence: Dimension, compressionExpansion: Dimension]

RegimeLabel == {"strong_trend", "weak_trend", "mean_reversion", "range",
    "compression", "expansion", "breakout", "false_breakout", "transition",
    "random_walk", "high_volatility", "low_volatility"}

(* The order in which _decide tries the rules; RANGE is what is left.       *)
Priority == <<"breakout", "strong_trend", "weak_trend", "mean_reversion",
              "compression", "expansion", "high_volatility",
              "low_volatility", "random_walk", "range">>

(* The labels whose own condition a valid state meets, whatever precedes.   *)
Matching(state) ==
    LET trend == Magnitude(state.trend)
    IN  {label \in RegimeLabel :
            \/ /\ label = "breakout"
               /\ state.compressionExpansion > Expansion
               /\ trend > BreakoutTrend
            \/ label = "strong_trend" /\ trend > StrongTrend
            \/ label = "weak_trend" /\ trend > WeakTrend
            \/ label = "mean_reversion" /\ state.persistence < MeanReversion
            \/ label = "compression" /\ state.compressionExpansion < Compression
            \/ label = "expansion" /\ state.compressionExpansion > Expansion
            \/ label = "high_volatility" /\ state.volatility > HighVolatility
            \/ label = "low_volatility" /\ state.volatility < LowVolatility
            \/ /\ label = "random_walk"
               /\ Magnitude(state.persistence) < RandomWalkBand
               /\ trend < WeakTrend
            \/ label = "range"}

(* _margin_confidence: how far past its threshold the deciding dimension is.*)
MarginConfidence(value, threshold) ==
    IF threshold = 0 THEN Scale
    ELSE LET limit == Magnitude(threshold)
             margin == ((Magnitude(value) - limit) * Scale) \div limit
         IN  (Scale + Clip01(margin)) \div 2

Confidence(label, state) ==
    CASE label = "breakout" -> MarginConfidence(state.trend, BreakoutTrend)
      [] label = "strong_trend" ->
            LET margin == MarginConfidence(state.trend, StrongTrend)
            IN  IF state.persistence > TrendingPersistence
                THEN AtMost(Scale, margin + Scale \div 10) ELSE margin
      [] label = "weak_trend" -> MarginConfidence(state.trend, WeakTrend)
      [] label = "mean_reversion" ->
            MarginConfidence(state.persistence, MeanReversion)
      [] label = "compression" ->
            MarginConfidence(state.compressionExpansion, Compression)
      [] label = "expansion" ->
            MarginConfidence(state.compressionExpansion, Expansion)
      [] label = "high_volatility" ->
            MarginConfidence(state.volatility, HighVolatility)
      [] label = "low_volatility" ->
            MarginConfidence(state.volatility, LowVolatility)
      [] label = "random_walk" ->
            AtLeast(Scale \div 2, Scale
                - (Magnitude(state.persistence) * Scale) \div RandomWalkBand)
      [] OTHER -> Scale \div 2

Decide(state) ==
    LET first == CHOOSE i \in DOMAIN Priority :
                    /\ Priority[i] \in Matching(state)
                    /\ \A j \in 1..(i - 1) : Priority[j] \notin Matching(state)
    IN  Priority[first]

(* classify(): a state with a NaN is RANGE, with a NaN confidence.          *)
Classify(state) ==
    IF ~state.isValid THEN [regime |-> "range", isValid |-> FALSE, confidence |-> 0]
    ELSE [regime |-> Decide(state), isValid |-> TRUE,
          confidence |-> Confidence(Decide(state), state)]
=============================================================================
