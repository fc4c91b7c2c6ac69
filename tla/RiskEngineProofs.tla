-------------------------- MODULE RiskEngineProofs --------------------------
(* Theorems about RiskEngine, for every configuration and every client.     *)
EXTENDS RiskEngine, SumLemmas

USE DEF NoDay

-----------------------------------------------------------------------------
(* Arithmetic.                                                              *)

(* Rounding down to a multiple of d never rounds up.                        *)
LEMMA DivTimes ==
    ASSUME NEW a \in Int, NEW d \in Nat \ {0}
    PROVE  a \div d \in Int /\ (a \div d) * d <= a
  OBVIOUS

(* Scaling by a positive number preserves the order.                        *)
LEMMA ScaleMonotone ==
    ASSUME NEW a \in Int, NEW b \in Int, a <= b, NEW s \in Nat
    PROVE  a * s <= b * s
  OBVIOUS

LEMMA AtLeastType ==
    ASSUME NEW a \in Int, NEW b \in Int
    PROVE  /\ AtLeast(a, b) \in Int
           /\ AtLeast(a, b) >= a /\ AtLeast(a, b) >= b
           /\ AtLeast(a, b) \in {a, b}
  BY DEF AtLeast

LEMMA AtMostType ==
    ASSUME NEW a \in Int, NEW b \in Int
    PROVE  /\ AtMost(a, b) \in Int
           /\ AtMost(a, b) <= a /\ AtMost(a, b) <= b
  BY DEF AtMost

(* x \div Scale is an integer for every integer x.                          *)
LEMMA OverScale == \A x \in Int : x \div Scale \in Int
  BY DivTimes, ConfigAssumption, ScaleAssumption

-----------------------------------------------------------------------------
(* Sizing.                                                                  *)

(* The Kelly fraction is a fraction, whatever the probability and the       *)
(* reward ratio.                                                           *)
LEMMA KellyRange ==
    ASSUME NEW p \in 0..Scale, NEW b \in Int
    PROVE  KellyFraction(p, b) \in 0..Scale
  <1>1. CASE b <= 0
    BY <1>1, ConfigAssumption, ScaleAssumption DEF KellyFraction
  <1>2. CASE b > 0
    <2> DEFINE f == (b * p - Scale * (Scale - p)) \div b
    <2>1. f \in Int
      <3>1. b * p - Scale * (Scale - p) \in Int /\ b \in Nat \ {0}
        BY <1>2, ConfigAssumption, ScaleAssumption
      <3> QED
        BY <3>1, DivTimes
    <2>2. KellyFraction(p, b) = AtLeast(0, AtMost(Scale, f))
      BY <1>2 DEF KellyFraction
    <2> HIDE DEF f
    <2> QED
      BY <2>1, <2>2, ConfigAssumption, ScaleAssumption DEF AtLeast, AtMost
  <1> QED
    BY <1>1, <1>2

(* A candidate stake never exceeds the exposure cap of the account.         *)
LEMMA CandidateStakeCapped ==
    ASSUME NEW ev \in EVEstimate, equity \in Int
    PROVE  /\ CandidateStake(ev) \in Int
           /\ CandidateStake(ev) * Scale <= equity * MaxExposure
  <1> DEFINE fRaw == IF ev.isValid THEN KellyFraction(ev.p, ev.b) ELSE 0
             fApplied == (fRaw * KellyMultiplier) \div Scale
             kelly == KellyStake(ev)
             cap == (equity * MaxExposure) \div Scale
  <1>1. fRaw \in Int
    <2>1. ev.p \in 0..Scale /\ ev.b \in Int
      BY DEF EVEstimate
    <2> QED
      BY <2>1, KellyRange
  <1>2. fApplied \in Int
    <2> HIDE DEF fRaw
    <2>1. fRaw * KellyMultiplier \in Int
      BY <1>1, ConfigAssumption, ScaleAssumption
    <2> QED
      BY <2>1, OverScale
  <1>3. kelly \in Int
    <2>1. kelly = (fApplied * equity) \div Scale
      BY DEF KellyStake, fApplied
    <2>2. fApplied * equity \in Int
      BY <1>2
    <2> QED
      BY <2>1, <2>2, OverScale
  <1>4. cap \in Int /\ cap * Scale <= equity * MaxExposure
    <2>1. equity * MaxExposure \in Int /\ Scale \in Nat \ {0}
      BY ConfigAssumption, ScaleAssumption
    <2> QED
      BY <2>1, DivTimes
  <1>5. CandidateStake(ev) = AtMost(kelly, cap)
    BY DEF CandidateStake
  <1> HIDE DEF kelly, cap
  <1>6. AtMost(kelly, cap) \in Int /\ AtMost(kelly, cap) <= cap
    BY <1>3, <1>4, AtMostType
  <1>7. AtMost(kelly, cap) * Scale <= cap * Scale
    BY <1>4, <1>6, ScaleMonotone, ConfigAssumption, ScaleAssumption
  <1> QED
    <2>1. AtMost(kelly, cap) * Scale \in Int /\ cap * Scale \in Int
          /\ equity * MaxExposure \in Int
      BY <1>4, <1>6, ConfigAssumption, ScaleAssumption
    <2> QED
      BY <1>4, <1>5, <1>6, <1>7, <2>1

LEMMA RecommendedStakeType ==
    ASSUME NEW ev \in EVEstimate, equity \in Int
    PROVE  RecommendedStake(ev) \in Int
  BY CandidateStakeCapped DEF RecommendedStake

(* Without a payout there is no Kelly stake.                                *)
LEMMA NoStakeWithoutPayout ==
    ASSUME NEW ev \in EVEstimate, equity \in Int, ev.b <= 0
    PROVE  CandidateStake(ev) < MinStake
  <1>1. KellyFraction(ev.p, ev.b) = 0
    BY DEF KellyFraction
  <1>2. KellyStake(ev) = (((0 * KellyMultiplier) \div Scale) * equity) \div Scale
    BY <1>1 DEF KellyStake
  <1>3. 0 * KellyMultiplier = 0 /\ 0 * equity = 0 /\ 0 \div Scale = 0
    BY ConfigAssumption, ScaleAssumption
  <1>4. KellyStake(ev) = 0
    BY <1>2, <1>3
  <1>5. CandidateStake(ev) = AtMost(0, (equity * MaxExposure) \div Scale)
    BY <1>4 DEF CandidateStake
  <1>6. (equity * MaxExposure) \div Scale \in Int
    <2>1. equity * MaxExposure \in Int
      BY ConfigAssumption, ScaleAssumption
    <2> QED
      BY <2>1, OverScale
  <1>7. CandidateStake(ev) \in Int /\ CandidateStake(ev) <= 0
    BY <1>5, <1>6 DEF AtMost
  <1> QED
    BY <1>7, ConfigAssumption

(* What an approval says of the stake, the breakers and the odds.           *)
LEMMA ApprovedStake ==
    ASSUME NEW ev \in EVEstimate, equity \in Int, Approves(ev)
    PROVE  /\ RecommendedStake(ev) \in Int /\ MinStake <= RecommendedStake(ev)
           /\ RecommendedStake(ev) * Scale <= MaxExposure * equity
           /\ ~DailyTripped /\ ~DrawdownTripped
           /\ ~(LossesAfterTick >= MaxConsecutiveLosses)
           /\ ev.b > 0
  <1>1. \A v \in Vetoes : v \notin VetoReasons(ev)
    BY DEF Approves
  <1>2. /\ ev.isValid
        /\ ~DailyTripped /\ ~DrawdownTripped
        /\ ~(LossesAfterTick >= MaxConsecutiveLosses)
        /\ ~(CandidateStake(ev) < MinStake)
    BY <1>1 DEF VetoReasons, Vetoes
  <1>3. ev.b > 0
    BY <1>2, NoStakeWithoutPayout DEF EVEstimate
  <1>4. RecommendedStake(ev) = CandidateStake(ev)
    BY <1>2 DEF RecommendedStake
  <1>5. /\ CandidateStake(ev) \in Int
        /\ CandidateStake(ev) * Scale <= MaxExposure * equity
    BY CandidateStakeCapped, ConfigAssumption, ScaleAssumption
  <1> QED
    BY <1>2, <1>3, <1>4, <1>5, ConfigAssumption, ScaleAssumption

-----------------------------------------------------------------------------
(* Type correctness.                                                        *)

(* Whatever a caller may ask of the engine, be it RiskNext's client or the  *)
(* trading loop.                                                           *)
RiskCall ==
    \/ \E ev \in EVEstimate, epoch \in Nat : Assess(ev, epoch)
    \/ \E epoch \in Nat, pnl \in Int : RecordTradeResult(epoch, pnl)
    \/ ResetEngine

LEMMA RiskNextCalls == RiskNext => RiskCall
  BY InputAssumption DEF RiskNext, RiskCall

LEMMA RiskTypeStep == RiskTypeOK /\ [RiskCall]_riskVars => RiskTypeOK'
  <1> SUFFICES ASSUME RiskTypeOK, [RiskCall]_riskVars
               PROVE  RiskTypeOK'
    OBVIOUS
  <1>1. ASSUME NEW ev \in EVEstimate, NEW epoch \in Nat, Assess(ev, epoch)
        PROVE  RiskTypeOK'
    <2>1. cooldown' \in 0..CooldownEvaluations /\ consecutiveLosses' \in Nat
      BY <1>1, ConfigAssumption, ScaleAssumption
      DEF Assess, CooldownAfterTick, LossesAfterTick, RiskTypeOK
    <2>2. assessment' \in Assessment
      <3>1. RecommendedStake(ev) \in Int
        BY RecommendedStakeType DEF RiskTypeOK
      <3>2. Approves(ev) \in BOOLEAN
        BY DEF Approves
      <3>3. VetoReasons(ev) \in SUBSET Vetoes
        BY DEF VetoReasons
      <3>4. assessment' =
              [epoch |-> epoch, approved |-> Approves(ev),
               stake |-> IF Approves(ev) THEN RecommendedStake(ev) ELSE 0,
               vetoes |-> VetoReasons(ev)]
        BY <1>1 DEF Assess
      <3> QED
        BY <3>1, <3>2, <3>3, <3>4 DEF Assessment
    <2> QED
      BY <1>1, <2>1, <2>2 DEF Assess, RiskTypeOK
  <1>2. ASSUME NEW epoch \in Nat, NEW pnl \in Int,
               RecordTradeResult(epoch, pnl)
        PROVE  RiskTypeOK'
    <2>1. equity' \in Int /\ dayStartEquity' \in Int
      BY <1>2 DEF RecordTradeResult, RiskTypeOK
    <2>2. peakEquity' \in Nat \ {0}
      BY <1>2 DEF RecordTradeResult, PeakAfter, RiskTypeOK, AtLeast
    <2>3. currentDay' \in Nat
      BY <1>2, ConfigAssumption, ScaleAssumption DEF RecordTradeResult, DayOf
    <2>4. consecutiveLosses' \in Nat /\ cooldown' \in 0..CooldownEvaluations
      BY <1>2, ConfigAssumption, ScaleAssumption DEF RecordTradeResult, RiskTypeOK
    <2>5. pnlPcts' \in Seq(Int)
      <3>1. equity > 0 => (pnl * Scale) \div equity \in Int
        BY DivTimes, ConfigAssumption, ScaleAssumption DEF RiskTypeOK
      <3> QED
        BY <1>2, <3>1 DEF RecordTradeResult, RiskTypeOK
    <2> QED
      BY <1>2, <2>1, <2>2, <2>3, <2>4, <2>5
      DEF RecordTradeResult, RiskTypeOK
  <1>3. ASSUME ResetEngine PROVE RiskTypeOK'
    BY <1>3, ConfigAssumption, ScaleAssumption DEF ResetEngine, RiskTypeOK
  <1>4. ASSUME UNCHANGED riskVars PROVE RiskTypeOK'
    BY <1>4 DEF RiskTypeOK, riskVars
  <1> QED
    BY <1>1, <1>2, <1>3, <1>4 DEF RiskCall

(* Every reachable state of the engine is well typed: in particular every   *)
(* stake assess() returns is a number, and the pause counter stays within  *)
(* its configured length.                                                  *)
THEOREM RiskTypeCorrect == RiskSpec => []RiskTypeOK
  <1>1. RiskInit => RiskTypeOK
    BY ConfigAssumption, ScaleAssumption
    DEF RiskInit, RiskTypeOK, NoAssessment, Assessment, Vetoes
  <1> QED
    BY <1>1, RiskTypeStep, RiskNextCalls, PTL DEF RiskSpec

-----------------------------------------------------------------------------
(* The breakers.                                                            *)

(* The engine's inductive invariant.                                        *)
RiskInv == RiskTypeOK /\ StreakPauseTimed /\ PeakIsHighWater

LEMMA RiskInvInit == RiskInit => RiskInv
  BY ConfigAssumption, ScaleAssumption
  DEF RiskInit, RiskInv, RiskTypeOK, StreakPauseTimed, PeakIsHighWater,
      NoAssessment, Assessment, Vetoes

LEMMA RiskInvStep == RiskInv /\ [RiskCall]_riskVars => RiskInv'
  <1> SUFFICES ASSUME RiskInv, [RiskCall]_riskVars
               PROVE  StreakPauseTimed' /\ PeakIsHighWater'
    BY RiskTypeStep DEF RiskInv
  <1> USE DEF RiskInv, RiskTypeOK
  <1>1. ASSUME NEW ev \in EVEstimate, NEW epoch \in Nat, Assess(ev, epoch)
        PROVE  StreakPauseTimed' /\ PeakIsHighWater'
    <2>1. StreakPauseTimed'
      BY <1>1, ConfigAssumption, ScaleAssumption
      DEF Assess, CooldownAfterTick, LossesAfterTick, StreakPauseTimed
    <2>2. PeakIsHighWater'
      BY <1>1 DEF Assess, PeakIsHighWater
    <2> QED
      BY <2>1, <2>2
  <1>2. ASSUME NEW epoch \in Nat, NEW pnl \in Int,
               RecordTradeResult(epoch, pnl)
        PROVE  StreakPauseTimed' /\ PeakIsHighWater'
    <2>1. StreakPauseTimed'
      BY <1>2, ConfigAssumption, ScaleAssumption DEF RecordTradeResult, StreakPauseTimed
    <2>2. PeakIsHighWater'
      BY <1>2 DEF RecordTradeResult, PeakAfter, PeakIsHighWater, AtLeast
    <2> QED
      BY <2>1, <2>2
  <1>3. ASSUME ResetEngine PROVE StreakPauseTimed' /\ PeakIsHighWater'
    BY <1>3, ConfigAssumption, ScaleAssumption
    DEF ResetEngine, StreakPauseTimed, PeakIsHighWater
  <1>4. ASSUME UNCHANGED riskVars PROVE StreakPauseTimed' /\ PeakIsHighWater'
    BY <1>4 DEF riskVars, StreakPauseTimed, PeakIsHighWater
  <1> QED
    BY <1>1, <1>2, <1>3, <1>4 DEF RiskCall

LEMMA RiskInvariant == RiskSpec => []RiskInv
  BY RiskInvInit, RiskInvStep, RiskNextCalls, PTL DEF RiskSpec

(* The streak breaker never locks itself: whenever it blocks trading, a     *)
(* pause is being counted down, and the other way round.                   *)
THEOREM StreakPauseAlwaysTimed == RiskSpec => []StreakPauseTimed
  <1>1. RiskInv => StreakPauseTimed
    BY DEF RiskInv
  <1> QED
    BY <1>1, RiskInvariant, PTL

(* The drawdown breaker measures from the highest equity seen, also across  *)
(* the rollover of a day.                                                  *)
THEOREM PeakAlwaysHighWater == RiskSpec => []PeakIsHighWater
  <1>1. RiskInv => PeakIsHighWater
    BY DEF RiskInv
  <1> QED
    BY <1>1, RiskInvariant, PTL

-----------------------------------------------------------------------------
(* What a step may never do.                                                *)

(* Every stake approved lies between the floor and the exposure cap, and no *)
(* breaker is tripped when it is approved.                                 *)
THEOREM ApprovalsWithinLimits == RiskSpec => ApprovalWithinLimits
  <1> DEFINE Limits ==
        assessment' # assessment /\ assessment'.approved =>
          /\ MinStake <= assessment'.stake
          /\ assessment'.stake * Scale <= MaxExposure * equity
          /\ ~DailyTripped /\ ~DrawdownTripped
          /\ consecutiveLosses' < MaxConsecutiveLosses
  <1>1. RiskInv /\ [RiskNext]_riskVars => Limits
    <2> SUFFICES ASSUME RiskInv, RiskNext,
                        assessment' # assessment, assessment'.approved
                 PROVE  Limits
      BY DEF riskVars
    <2>1. PICK ev \in EVEstimate, epoch \in Nat : Assess(ev, epoch)
      BY InputAssumption DEF RiskNext, RecordTradeResult, ResetEngine
    <2>2. Approves(ev) /\ assessment'.stake = RecommendedStake(ev)
      BY <2>1 DEF Assess
    <2>3. consecutiveLosses' < MaxConsecutiveLosses
      BY <2>1, <2>2, ApprovedStake, ConfigAssumption, ScaleAssumption
      DEF Assess, LossesAfterTick, RiskInv, RiskTypeOK
    <2> QED
      BY <2>2, <2>3, ApprovedStake DEF RiskInv, RiskTypeOK
  <1> QED
    BY <1>1, RiskInvariant, PTL DEF RiskSpec, ApprovalWithinLimits

(* A pause shrinks by one evaluation at a time, unless a win or a reset     *)
(* ends it.                                                                *)
THEOREM PausesServedInFull == RiskSpec => PauseServedInFull
  <1> DEFINE Served ==
        cooldown' < cooldown =>
          cooldown' = cooldown - 1 \/ equity' > equity \/ currentDay' = NoDay
  <1>1. RiskInv /\ [RiskNext]_riskVars => Served
    <2> SUFFICES ASSUME RiskInv, [RiskNext]_riskVars PROVE Served
      OBVIOUS
    <2>1. ASSUME NEW ev \in EVEstimate, NEW epoch \in Nat, Assess(ev, epoch)
          PROVE  Served
      BY <2>1, ConfigAssumption, ScaleAssumption
      DEF Assess, CooldownAfterTick, RiskInv, RiskTypeOK
    <2>2. ASSUME NEW epoch \in Nat, NEW pnl \in Int,
                 RecordTradeResult(epoch, pnl)
          PROVE  Served
      BY <2>2, ConfigAssumption, ScaleAssumption DEF RecordTradeResult, RiskInv, RiskTypeOK
    <2>3. ASSUME ResetEngine PROVE Served
      BY <2>3 DEF ResetEngine
    <2>4. ASSUME UNCHANGED riskVars PROVE Served
      BY <2>4, ConfigAssumption, ScaleAssumption DEF riskVars, RiskInv, RiskTypeOK
    <2> QED
      BY <2>1, <2>2, <2>3, <2>4, InputAssumption DEF RiskNext
  <1> QED
    BY <1>1, RiskInvariant, PTL DEF RiskSpec, PauseServedInFull

(* Once the drawdown limit is reached, only an equity recovery or a reset   *)
(* by hand lifts the halt.                                                 *)
THEOREM DrawdownIsHardStop == RiskSpec => DrawdownHardStop
  <1> DEFINE Stop ==
        DrawdownTripped /\ ~DrawdownTripped' =>
          equity' > equity \/ currentDay' = NoDay
  <1>1. RiskInv /\ [RiskNext]_riskVars => Stop
    <2> SUFFICES ASSUME RiskInv, [RiskNext]_riskVars, DrawdownTripped
                 PROVE  DrawdownTripped' \/ equity' > equity
                        \/ currentDay' = NoDay
      OBVIOUS
    <2>1. ASSUME UNCHANGED <<equity, peakEquity>> PROVE DrawdownTripped'
      BY <2>1 DEF DrawdownTripped
    <2>2. ASSUME NEW epoch \in Nat, NEW pnl \in Int, pnl <= 0,
                 RecordTradeResult(epoch, pnl)
          PROVE  DrawdownTripped'
      <3>1. peakEquity' = peakEquity /\ equity' = equity + pnl
        BY <2>2 DEF RecordTradeResult, PeakAfter, AtLeast, RiskInv, RiskTypeOK,
                    PeakIsHighWater
      <3>2. /\ peakEquity - equity \in Int
            /\ peakEquity - (equity + pnl) \in Int
            /\ peakEquity - equity <= peakEquity - (equity + pnl)
        BY <2>2 DEF RiskInv, RiskTypeOK
      <3>3. (peakEquity - equity) * Scale
              <= (peakEquity - (equity + pnl)) * Scale
        BY <3>2, ScaleMonotone, ConfigAssumption, ScaleAssumption
      <3> QED
        BY <3>1, <3>2, <3>3, ConfigAssumption, ScaleAssumption
        DEF DrawdownTripped, RiskInv, RiskTypeOK
    <2>3. ASSUME NEW epoch \in Nat, NEW pnl \in Int, pnl > 0,
                 RecordTradeResult(epoch, pnl)
          PROVE  equity' > equity
      BY <2>3 DEF RecordTradeResult, RiskInv, RiskTypeOK
    <2>4. ASSUME NEW epoch \in Nat, NEW pnl \in Int,
                 RecordTradeResult(epoch, pnl)
          PROVE  DrawdownTripped' \/ equity' > equity
      <3>1. pnl <= 0 \/ pnl > 0
        BY <2>4
      <3> QED
        BY <2>2, <2>3, <2>4, <3>1
    <2>5. ASSUME ResetEngine PROVE currentDay' = NoDay
      BY <2>5 DEF ResetEngine
    <2> QED
      BY <2>1, <2>4, <2>5, InputAssumption DEF RiskNext, Assess, riskVars
  <1> QED
    BY <1>1, RiskInvariant, PTL DEF RiskSpec, DrawdownHardStop

-----------------------------------------------------------------------------
(* The shortfall.                                                           *)

(* The order of places is the order of sorting: whoever is earlier in it    *)
(* has fewer up to it.                                                     *)
LEMMA EarlierPlace ==
    ASSUME NEW s \in Seq(Int), NEW i \in DOMAIN s, NEW j \in DOMAIN s,
           s[i] < s[j] \/ (s[i] = s[j] /\ i < j)
    PROVE  Place(s, i) < Place(s, j)
  <1>1. UpTo(s, i) \subseteq UpTo(s, j) /\ j \in UpTo(s, j) \ UpTo(s, i)
    <2>1. i \in Int /\ j \in Int /\ \A k \in DOMAIN s : k \in Int /\ s[k] \in Int
      OBVIOUS
    <2> QED
      BY <2>1 DEF UpTo
  <1>2. IsFiniteSet(UpTo(s, j))
    <2>1. UpTo(s, j) \in SUBSET (1..Len(s)) /\ Len(s) \in Int
      BY DEF UpTo
    <2> QED
      BY <2>1, FS_Interval, FS_Subset
  <1> HIDE DEF UpTo
  <1>3. /\ Cardinality(UpTo(s, i)) <= Cardinality(UpTo(s, j))
        /\ Cardinality(UpTo(s, i)) # Cardinality(UpTo(s, j))
        /\ IsFiniteSet(UpTo(s, i))
    BY <1>1, <1>2, FS_Subset
  <1>4. /\ Cardinality(UpTo(s, i)) \in Nat
        /\ Cardinality(UpTo(s, j)) \in Nat
    BY <1>2, <1>3, FS_CardinalityType
  <1> QED
    BY <1>3, <1>4 DEF Place

(* Every number has a place, and every place one number.                    *)
LEMMA PlacesAreBijection ==
    ASSUME NEW s \in Seq(Int)
    PROVE  [i \in DOMAIN s |-> Place(s, i)] \in Bijection(DOMAIN s, DOMAIN s)
  <1>1. DOMAIN s = 1..Len(s) /\ Len(s) \in Nat
    OBVIOUS
  <1>2. IsFiniteSet(DOMAIN s) /\ Cardinality(DOMAIN s) = Len(s)
    BY <1>1, FS_Interval
  <1>3. ASSUME NEW i \in DOMAIN s
        PROVE  Place(s, i) \in DOMAIN s
    <2>1. UpTo(s, i) \in SUBSET DOMAIN s /\ i \in UpTo(s, i)
      BY DEF UpTo
    <2> HIDE DEF UpTo
    <2>2. IsFiniteSet(UpTo(s, i)) /\ Cardinality(UpTo(s, i)) <= Len(s)
      BY <1>2, <2>1, FS_Subset
    <2>3. Cardinality(UpTo(s, i)) \in Nat /\ Cardinality(UpTo(s, i)) # 0
      BY <2>1, <2>2, FS_CardinalityType, FS_EmptySet
    <2> QED
      BY <1>1, <2>2, <2>3 DEF Place
  <1>4. ASSUME NEW i \in DOMAIN s, NEW j \in DOMAIN s, i # j
        PROVE  Place(s, i) # Place(s, j)
    <2>1. s[i] < s[j] \/ s[i] > s[j] \/ (s[i] = s[j] /\ (i < j \/ i > j))
      BY <1>4
    <2>2. Place(s, i) < Place(s, j) \/ Place(s, j) < Place(s, i)
      BY <2>1, EarlierPlace
    <2> QED
      BY <1>1, <1>3, <2>2
  <1>5. PICK f : f = [i \in DOMAIN s |-> Place(s, i)]
    OBVIOUS
  <1>6. f \in Injection(DOMAIN s, DOMAIN s)
    <2>1. /\ f \in [DOMAIN s -> DOMAIN s]
          /\ \A i, j \in DOMAIN s : f[i] = f[j] => i = j
      BY <1>3, <1>4, <1>5
    <2> QED
      BY <2>1 DEF Injection, IsInjective
  <1>7. f \in Surjection(DOMAIN s, DOMAIN s)
    BY <1>2, <1>6, FS_Injection
  <1> QED
    BY <1>5, <1>6, <1>7 DEF Bijection

(* The first m of the sorted numbers are m of the numbers, and none of the  *)
(* others is below one of them.                                            *)
LEMMA SortedSlice ==
    ASSUME NEW s \in Seq(Int), NEW m \in 1..Len(s)
    PROVE  \E W \in SUBSET DOMAIN s : \E v \in Int :
              /\ Cardinality(W) = m
              /\ FoldFunction(+, 0, SubSeq(Sorted(s), 1, m)) = SumOver(s, W)
              /\ \A i \in W : s[i] <= v
              /\ \A i \in DOMAIN s \ W : v <= s[i]
  <1>1. DOMAIN s = 1..Len(s) /\ Len(s) \in Nat
    OBVIOUS
  <1>2. PICK f : f = [i \in DOMAIN s |-> Place(s, i)]
    OBVIOUS
  <1>3. /\ f \in [DOMAIN s -> DOMAIN s]
        /\ \A i, j \in DOMAIN s : f[i] = f[j] => i = j
        /\ \A k \in DOMAIN s : \E i \in DOMAIN s : f[i] = k
    <2>1. f \in Bijection(DOMAIN s, DOMAIN s)
      BY <1>2, PlacesAreBijection
    <2> QED
      BY <2>1 DEF Bijection, Injection, IsInjective, Surjection
  <1>4. PICK at : at = [k \in DOMAIN s |-> CHOOSE i \in DOMAIN s : Place(s, i) = k]
    OBVIOUS
  <1>5. ASSUME NEW k \in DOMAIN s
        PROVE  at[k] \in DOMAIN s /\ f[at[k]] = k
    <2>1. \E i \in DOMAIN s : Place(s, i) = k
      BY <1>2, <1>3
    <2>2. Place(s, at[k]) = k /\ at[k] \in DOMAIN s
      BY <1>4, <2>1
    <2> QED
      BY <1>2, <2>2
  <1>6. ASSUME NEW i \in DOMAIN s, NEW j \in DOMAIN s, f[i] <= f[j]
        PROVE  s[i] <= s[j]
    <2>1. ~(f[j] < f[i])
      BY <1>1, <1>3, <1>6
    <2>2. ~(Place(s, j) < Place(s, i))
      BY <1>2, <2>1
    <2> QED
      BY <2>2, EarlierPlace
  <1>7. PICK W \in SUBSET DOMAIN s : W = {i \in DOMAIN s : f[i] <= m}
    OBVIOUS
  <1>8. PICK h : h = [k \in 1..m |-> at[k]]
    OBVIOUS
  <1>9. 1..m \subseteq DOMAIN s /\ m \in DOMAIN s /\ IsFiniteSet(1..m)
        /\ Cardinality(1..m) = m
    BY <1>1, FS_Interval
  <1>10. h \in Bijection(1..m, W)
    <2>1. h \in [1..m -> W]
      <3>1. ASSUME NEW k \in 1..m
            PROVE  at[k] \in W
        <4>1. k \in DOMAIN s /\ k <= m
          BY <1>9
        <4>2. at[k] \in DOMAIN s /\ f[at[k]] <= m
          BY <1>5, <4>1
        <4> QED
          BY <1>7, <4>2
      <3> QED
        BY <1>8, <3>1
    <2>2. \A k, l \in 1..m : h[k] = h[l] => k = l
      BY <1>5, <1>8, <1>9
    <2>3. ASSUME NEW i \in W
          PROVE  \E k \in 1..m : h[k] = i
      <3>1. f[i] \in 1..m
        BY <1>1, <1>3, <1>7
      <3>2. at[f[i]] = i
        <4>1. i \in DOMAIN s /\ f[i] \in DOMAIN s
          BY <1>3
        <4>2. at[f[i]] \in DOMAIN s /\ f[at[f[i]]] = f[i]
          BY <1>5, <4>1
        <4> QED
          BY <1>3, <4>1, <4>2
      <3> QED
        BY <1>8, <3>1, <3>2
    <2> QED
      BY <2>1, <2>2, <2>3 DEF Bijection, Injection, IsInjective, Surjection
  <1>11. Cardinality(W) = m
    BY <1>9, <1>10, FS_Bijection DEF ExistsBijection
  <1>12. FoldFunction(+, 0, SubSeq(Sorted(s), 1, m)) = SumOver(s, W)
    <2>1. PICK t : t = SubSeq(Sorted(s), 1, m)
      OBVIOUS
    <2>2. Sorted(s) = [k \in DOMAIN s |-> s[at[k]]]
      BY <1>4 DEF Sorted
    <2>3. Sorted(s) \in Seq(Int) /\ Len(Sorted(s)) = Len(s)
      <3>1. \A k \in 1..Len(s) : s[at[k]] \in Int
        BY <1>1, <1>5
      <3> QED
        BY <1>1, <2>2, <3>1
    <2>4. DOMAIN t = 1..m /\ \A k \in 1..m : t[k] = Sorted(s)[k]
      BY <1>1, <2>1, <2>3
    <2>5. \A k \in 1..m : t[k] = s[h[k]]
      BY <1>8, <1>9, <2>2, <2>4
    <2>6. Numbers(s, W)
      BY DEF Numbers
    <2>7. SumOver(t, 1..m) = SumOver(s, W)
      BY <1>9, <1>10, <2>5, <2>6, SumOverRenamed
    <2> QED
      BY <2>1, <2>4, <2>7 DEF SumOver, FoldFunction
  <1>13. \A i \in W : s[i] <= s[at[m]]
    BY <1>5, <1>6, <1>7, <1>9
  <1>14. \A i \in DOMAIN s \ W : s[at[m]] <= s[i]
    <2>1. ASSUME NEW i \in DOMAIN s \ W
          PROVE  f[at[m]] <= f[i]
      <3>1. f[at[m]] = m
        BY <1>5, <1>9
      <3>2. f[i] \in Int /\ ~(f[i] <= m)
        BY <1>1, <1>3, <1>7
      <3> QED
        BY <3>1, <3>2
    <2> QED
      BY <1>5, <1>6, <1>9, <2>1
  <1>15. PICK v \in Int : v = s[at[m]]
    <2>1. at[m] \in DOMAIN s
      BY <1>5, <1>9
    <2>2. s[at[m]] \in Int
      BY <2>1
    <2> QED
      BY <2>2
  <1>16. (\A i \in W : s[i] <= v) /\ (\A i \in DOMAIN s \ W : v <= s[i])
    BY <1>13, <1>14, <1>15
  <1> QED
    BY <1>11, <1>12, <1>16

(* Rounding up: the quotient is the one number of units that suffices and   *)
(* of which no unit is spare.                                              *)
LEMMA RoundedUp ==
    ASSUME NEW x \in Nat \ {0}, NEW d \in Nat \ {0}
    PROVE  \E q \in Nat \ {0} :
              /\ q = (x + (d - 1)) \div d
              /\ \A c \in Nat \ {0} : x <= c * d /\ (c - 1) * d < x <=> c = q
  <1>1. PICK q \in Int : q = (x + (d - 1)) \div d
    OBVIOUS
  <1>2. q * d <= x + (d - 1) /\ x + (d - 1) < q * d + d
    BY <1>1
  <1>3. x <= q * d
    BY <1>2
  <1>4. q > 0
    <2> SUFFICES ASSUME q <= 0 PROVE FALSE
      OBVIOUS
    <2>1. q * d <= 0 * d
      BY ScaleMonotone
    <2> QED
      BY <1>3, <2>1
  <1>5. (q - 1) * d = q * d - d /\ q * d \in Int
    OBVIOUS
  <1>6. (q - 1) * d < x
    BY <1>2, <1>5
  <1>7. ASSUME NEW c \in Nat \ {0}, x <= c * d /\ (c - 1) * d < x
        PROVE  c = q
    <2>1. c * d \in Int /\ (c - 1) * d \in Int /\ (q - 1) * d \in Int
      OBVIOUS
    <2>2. ~(c <= q - 1)
      <3> SUFFICES ASSUME c <= q - 1 PROVE FALSE
        OBVIOUS
      <3>1. c * d <= (q - 1) * d
        BY ScaleMonotone
      <3> QED
        BY <1>6, <1>7, <2>1, <3>1
    <2>3. ~(q <= c - 1)
      <3> SUFFICES ASSUME q <= c - 1 PROVE FALSE
        OBVIOUS
      <3>1. q * d <= (c - 1) * d
        BY ScaleMonotone
      <3> QED
        BY <1>3, <1>5, <1>7, <2>1, <3>1
    <2> QED
      BY <2>2, <2>3
  <1> QED
    BY <1>1, <1>3, <1>4, <1>6, <1>7

(* The tail that is averaged is the shortest that the confidence allows.    *)
LEMMA TailLength ==
    ASSUME ~TailRoundedUp, NEW n \in Nat \ {0}
    PROVE  /\ TailCount(n) \in 1..n
           /\ \A c \in Nat \ {0} :
                 c * Scale >= n * ShortfallTail /\ (c - 1) * Scale < n * ShortfallTail
                     <=> c = TailCount(n)
  <1>1. PICK x \in Nat \ {0} : x = n * ShortfallTail
    BY ConfigAssumption
  <1>2. PICK q \in Nat \ {0} :
           /\ q = (x + (Scale - 1)) \div Scale
           /\ \A c \in Nat \ {0} :
                 x <= c * Scale /\ (c - 1) * Scale < x <=> c = q
    BY ScaleAssumption, RoundedUp
  <1>3. TailCount(n) = q
    BY <1>1, <1>2 DEF TailCount, AtLeast
  <1>4. q <= n
    <2> SUFFICES ASSUME n <= q - 1 PROVE FALSE
      OBVIOUS
    <2>1. n * Scale <= (q - 1) * Scale
      BY ScaleMonotone, ScaleAssumption
    <2>2. (q - 1) * Scale < x
      BY <1>2
    <2>3. ShortfallTail * n <= Scale * n
      BY ScaleMonotone, ConfigAssumption, ScaleAssumption
    <2>4. ShortfallTail * n = n * ShortfallTail /\ Scale * n = n * Scale
      BY ConfigAssumption, ScaleAssumption
    <2>5. n * Scale \in Int /\ (q - 1) * Scale \in Int
      BY ScaleAssumption
    <2> QED
      BY <1>1, <2>1, <2>2, <2>3, <2>4, <2>5
  <1>5. \A c \in Nat \ {0} : c * Scale \in Int /\ (x <= c * Scale <=> c * Scale >= x)
    BY ScaleAssumption
  <1> QED
    BY <1>1, <1>2, <1>3, <1>4, <1>5

(* No m of the numbers lose more than the first m of the sorted ones.       *)
LEMMA SliceIsWorst ==
    ASSUME NEW s \in Seq(Int), NEW m \in 1..Len(s), NEW x \in Int
    PROVE  -FoldFunction(+, 0, SubSeq(Sorted(s), 1, m)) > x
             <=> \E I \in SUBSET (1..Len(s)) :
                    Cardinality(I) = m /\ -SumOver(s, I) > x
  <1>1. DOMAIN s = 1..Len(s) /\ IsFiniteSet(1..Len(s)) /\ Numbers(s, 1..Len(s))
    BY FS_Interval DEF Numbers
  <1>2. PICK W \in SUBSET (1..Len(s)), v \in Int :
              /\ Cardinality(W) = m
              /\ FoldFunction(+, 0, SubSeq(Sorted(s), 1, m)) = SumOver(s, W)
              /\ \A i \in W : s[i] <= v
              /\ \A i \in (1..Len(s)) \ W : v <= s[i]
    BY <1>1, SortedSlice
  <1>3. \A I \in SUBSET (1..Len(s)) : SumOver(s, I) \in Int
    BY <1>1, FS_Subset, SumOverType DEF Numbers
  <1>4. ASSUME NEW I \in SUBSET (1..Len(s)), Cardinality(I) = m
        PROVE  SumOver(s, W) <= SumOver(s, I)
    BY <1>1, <1>2, <1>4, SumOverSmallest
  <1>5. ASSUME NEW I \in SUBSET (1..Len(s)), Cardinality(I) = m, -SumOver(s, I) > x
        PROVE  -SumOver(s, W) > x
    <2>1. PICK a, b \in Int : a = SumOver(s, I) /\ b = SumOver(s, W)
      BY <1>3
    <2> QED
      BY <1>4, <1>5, <2>1
  <1> QED
    BY <1>2, <1>5

(* The verdict of the expected shortfall is about the worst tail of the     *)
(* record, for every confidence, limit and sequence of results.            *)
THEOREM ShortfallAlwaysOfWorstTail ==
    ASSUME ~TailRoundedUp
    PROVE  RiskSpec => []ShortfallIsWorstTail
  <1>1. RiskTypeOK => ShortfallIsWorstTail
    <2> SUFFICES ASSUME RiskTypeOK, Len(pnlPcts) >= MinTradesForShortfall
                 PROVE  ShortfallTripped <=>
                          \E I \in SUBSET (1..Len(pnlPcts)) :
                             /\ I # {}
                             /\ Cardinality(I) * Scale >= Len(pnlPcts) * ShortfallTail
                             /\ (Cardinality(I) - 1) * Scale < Len(pnlPcts) * ShortfallTail
                             /\ -SumOver(pnlPcts, I) > MaxShortfall * Cardinality(I)
      BY DEF ShortfallIsWorstTail, SumOver
    <2>1. PICK n \in Nat \ {0} : n = Len(pnlPcts) /\ pnlPcts \in Seq(Int)
      BY ConfigAssumption DEF RiskTypeOK
    <2>2. PICK m \in 1..n : m = TailCount(n)
      BY <2>1, TailLength
    <2>3. MaxShortfall * m \in Int
      BY ConfigAssumption
    <2>4. ShortfallTripped <=>
            -FoldFunction(+, 0, SubSeq(Sorted(pnlPcts), 1, m)) > MaxShortfall * m
      BY <2>1, <2>2 DEF ShortfallTripped
    <2>5. ShortfallTripped <=>
            \E I \in SUBSET (1..n) :
               Cardinality(I) = m /\ -SumOver(pnlPcts, I) > MaxShortfall * m
      BY <2>1, <2>3, <2>4, SliceIsWorst
    <2> DEFINE IsTail(I) ==
          /\ I # {}
          /\ Cardinality(I) * Scale >= n * ShortfallTail
          /\ (Cardinality(I) - 1) * Scale < n * ShortfallTail
    <2>6. ASSUME NEW I \in SUBSET (1..n)
          PROVE  IsTail(I) <=> Cardinality(I) = m
      <3>1. IsFiniteSet(I)
        <4>1. IsFiniteSet(1..n)
          BY FS_Interval
        <4> QED
          BY <4>1, FS_Subset
      <3>2. Cardinality(I) \in Nat /\ (Cardinality(I) = 0 <=> I = {})
        BY <3>1, FS_CardinalityType, FS_EmptySet
      <3>3. Cardinality(I) \in Nat \ {0} => (IsTail(I) <=> Cardinality(I) = m)
        BY <2>2, <3>2, TailLength
      <3>4. I = {} => ~IsTail(I) /\ Cardinality(I) # m
        BY <3>2
      <3> HIDE DEF IsTail
      <3> QED
        BY <3>2, <3>3, <3>4
    <2> QED
      BY <2>1, <2>5, <2>6
  <1> QED
    BY <1>1, RiskTypeCorrect, PTL

=============================================================================
