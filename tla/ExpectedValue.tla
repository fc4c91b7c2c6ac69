--------------------------- MODULE ExpectedValue ----------------------------
(***************************************************************************)
(* Levels 2 and 3: what a probability model hands on (probability/types.py)*)
(* and the expected value of a binary contract on it                       *)
(* (expected_value/engine.py).  Both are pure.                             *)
(***************************************************************************)
EXTENDS Fractions

CONSTANTS
    Stake,              \* ContractSpec.stake
    Payout,             \* ContractSpec.payout, the stake included
    MinEV,              \* min_ev_threshold, in money
    MinRewardToRisk,    \* min_reward_to_risk
    MinProbability,     \* min_probability_confidence
    RuinCapital(_)      \* stakes risk_of_ruin demands at a probability

(* What the terms of a contract and the configuration validate: MinEV may   *)
(* be negative.                                                            *)
ContractSpec == Stake \in Nat \ {0} /\ Payout \in Nat

ExpectedValueConfig ==
    /\ MinEV \in Int /\ MinRewardToRisk \in Nat
    /\ 2 * MinProbability \in Scale..(2 * Scale)

ASSUME ContractAssumption == ContractSpec
ASSUME GateAssumption == ExpectedValueConfig
ASSUME RuinAssumption == \A p \in 0..Scale : RuinCapital(p) \in Nat

(* A ProbabilityEstimate; prob_down is the complement, confidence the       *)
(* larger of the two.  An invalid one (NaN) carries zeros here.            *)
ProbabilityEstimate ==
    [isValid: BOOLEAN, probUp: 0..Scale, uncertainty: 0..Scale]

InvalidProbability == [isValid |-> FALSE, probUp |-> 0, uncertainty |-> 0]

ExpectedDirection(probability) ==
    CASE ~probability.isValid -> 0
      [] 2 * probability.probUp > Scale -> 1
      [] 2 * probability.probUp < Scale -> -1
      [] OTHER -> 0

FavoredProbability(probability) ==
    AtLeast(probability.probUp, Scale - probability.probUp)

RewardToRisk == ((Payout - Stake) * Scale) \div Stake

(* p * payout - stake, over Scale.                                          *)
ExpectedValueAt(p) == p * Payout - Stake * Scale

(* expected_value / outcome_std, where outcome_std = sqrt(p(1-p)) * payout. *)
RiskAdjusted(p) ==
    LET deviation == Payout * Root(p * (Scale - p))
    IN  IF deviation = 0 THEN 0 ELSE (ExpectedValueAt(p) * Scale) \div deviation

IsPositiveEV(p) ==
    /\ ExpectedValueAt(p) >= MinEV * Scale
    /\ RewardToRisk >= MinRewardToRisk
    /\ p >= MinProbability

InvalidEstimate ==
    [isValid |-> FALSE, isPositive |-> FALSE, direction |-> 0, p |-> 0, b |-> 0,
     ruinCapital |-> 0, evPct |-> 0, riskAdjusted |-> 0]

(* evaluate(): NaN for an invalid probability and for one without an edge.  *)
ExpectedValueOf(probability) ==
    LET p == FavoredProbability(probability)
    IN  IF ExpectedDirection(probability) = 0 THEN InvalidEstimate
        ELSE [isValid |-> TRUE, isPositive |-> IsPositiveEV(p),
              direction |-> ExpectedDirection(probability), p |-> p,
              b |-> RewardToRisk, ruinCapital |-> RuinCapital(p),
              evPct |-> ExpectedValueAt(p) \div Stake,
              riskAdjusted |-> RiskAdjusted(p)]
=============================================================================
