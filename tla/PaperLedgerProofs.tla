-------------------------- MODULE PaperLedgerProofs --------------------------
(* Theorems about the money in PaperTrading: what the account has gained    *)
(* and lost, and how much more the open positions can cost it.              *)
EXTENDS PaperTradingProofs, SumLemmas

-----------------------------------------------------------------------------
(* The ledger.                                                              *)

BookedPnl == [i \in DOMAIN trades |-> trades[i].pnl]

LEMMA LedgerIsSum ==
    EquityLedger <=>
        /\ equity = StartingEquity + SumOver(BookedPnl, DOMAIN trades)
        /\ Len(pnlPcts) = Len(trades)
  BY DEF EquityLedger, FoldFunction, SumOver, BookedPnl

LEMMA LedgerIsSumNext ==
    EquityLedger' <=>
        /\ equity' = StartingEquity + SumOver(BookedPnl', DOMAIN trades')
        /\ Len(pnlPcts') = Len(trades')
  BY DEF EquityLedger, FoldFunction, FoldFunctionOnSet, MapThenFoldSet, SumOver, BookedPnl

LEMMA BookedPnlNumbers ==
    ASSUME trades \in Seq(CompletedTrade)
    PROVE  /\ IsFiniteSet(DOMAIN trades) /\ Numbers(BookedPnl, DOMAIN trades)
           /\ DOMAIN trades = 1..Len(trades) /\ Len(trades) \in Nat
  <1>1. DOMAIN trades = 1..Len(trades) /\ Len(trades) \in Nat
    BY LenProperties
  <1>2. IsFiniteSet(1..Len(trades))
    BY <1>1, FS_Interval
  <1>3. \A i \in DOMAIN trades : trades[i] \in CompletedTrade
    BY <1>1, ElementOfSeq
  <1>4. Numbers(BookedPnl, DOMAIN trades)
    BY <1>3 DEF Numbers, BookedPnl, CompletedTrade
  <1> QED
    BY <1>1, <1>2, <1>4

(* Booking one trade adds its pnl to the account and to the record's sum.   *)
LEMMA LeavesKeepsLedger ==
    ASSUME LoopInv, EquityLedger,
           NEW s \in Symbols, NEW epoch \in Nat, NEW pnl \in Int,
           Leaves(s, epoch, pnl)
    PROVE  EquityLedger'
  <1> DEFINE n == Len(trades)
  <1>1. trades \in Seq(CompletedTrade) /\ pnlPcts \in Seq(Int)
        /\ equity \in Int /\ StartingEquity \in Int
    BY ConfigAssumption DEF LoopInv, TypeOK, RiskTypeOK
  <1>2. /\ trades' \in Seq(CompletedTrade) /\ Len(trades') = n + 1
        /\ \A i \in 1..n : trades'[i] = trades[i]
        /\ trades'[n + 1] = Completed(s, epoch, pnl)
    BY FinalizeEffect DEF Leaves, LoopInv
  <1>3. n \in Nat /\ DOMAIN trades = 1..n /\ DOMAIN trades' = 1..(n + 1)
        /\ IsFiniteSet(1..n) /\ IsFiniteSet(1..(n + 1))
        /\ Numbers(BookedPnl, 1..n)
    BY <1>1, <1>2, LenProperties, FS_Interval, BookedPnlNumbers
  <1>4. Numbers(BookedPnl', 1..(n + 1))
    <2>1. \A i \in DOMAIN trades' : trades'[i] \in CompletedTrade
      BY <1>2, LenProperties, ElementOfSeq
    <2> QED
      BY <1>3, <2>1 DEF Numbers, BookedPnl, CompletedTrade
  <1>5. /\ BookedPnl'[n + 1] = pnl
        /\ \A i \in 1..n : BookedPnl[i] = BookedPnl'[i]
    BY <1>2, <1>3 DEF BookedPnl, Completed
  <1>6. (1..(n + 1)) \ {n + 1} = 1..n /\ n + 1 \in 1..(n + 1)
    BY <1>3
  <1> HIDE DEF n
  <1>7. SumOver(BookedPnl', 1..(n + 1)) = pnl + SumOver(BookedPnl', 1..n)
    <2> DEFINE booked == BookedPnl'
    <2>1. Numbers(booked, 1..(n + 1)) /\ booked[n + 1] = pnl
      BY <1>4, <1>5
    <2> HIDE DEF booked
    <2>2. SumOver(booked, 1..(n + 1)) = pnl + SumOver(booked, 1..n)
      BY <1>3, <1>6, <2>1, SumOverSplit
    <2> QED
      BY <2>2 DEF booked
  <1>8. /\ SumOver(BookedPnl, 1..n) = SumOver(BookedPnl', 1..n)
        /\ SumOver(BookedPnl, 1..n) \in Int
    <2> DEFINE booked == BookedPnl'
    <2>1. \A i \in 1..n : BookedPnl[i] = booked[i]
      BY <1>5
    <2> HIDE DEF booked
    <2>2. SumOver(BookedPnl, 1..n) = SumOver(booked, 1..n)
      BY <1>3, <2>1, SumOverSame
    <2> QED
      BY <1>3, <2>2, SumOverType DEF booked
  <1>9. equity' = equity + pnl
    BY LeavesEffect
  <1>10. Len(pnlPcts') = Len(pnlPcts) + 1
    <2>1. equity > 0 => (pnl * Scale) \div equity \in Int
      BY <1>1, ScaleAssumption
    <2> QED
      BY <1>1, <2>1, AppendProperties
      DEF Leaves, FinalizeSettledTrade, RecordTradeResult
  <1>11. /\ equity = StartingEquity + SumOver(BookedPnl, 1..n)
         /\ Len(pnlPcts) = n
    BY <1>3, LedgerIsSum DEF n
  <1>12. equity' = StartingEquity + SumOver(BookedPnl', 1..(n + 1))
    BY <1>1, <1>7, <1>8, <1>9, <1>11
  <1>13. Len(pnlPcts') = Len(trades') /\ DOMAIN trades' = 1..(n + 1)
    BY <1>2, <1>3, <1>10, <1>11 DEF n
  <1> QED
    BY <1>12, <1>13, LedgerIsSumNext

LEMMA EmptyLedger ==
    ASSUME trades = <<>>, pnlPcts = <<>>, equity = StartingEquity
    PROVE  EquityLedger
  <1>1. DOMAIN trades = {} /\ Len(pnlPcts) = Len(trades)
    OBVIOUS
  <1>2. SumOver(BookedPnl, DOMAIN trades) = 0 /\ StartingEquity \in Int
    BY <1>1, SumOverEmpty, ConfigAssumption
  <1> QED
    BY <1>1, <1>2, LedgerIsSum

LEMMA EmptyLedgerNext ==
    ASSUME trades' = <<>>, pnlPcts' = <<>>, equity' = StartingEquity
    PROVE  EquityLedger'
  <1>1. DOMAIN trades' = {} /\ Len(pnlPcts') = Len(trades')
    OBVIOUS
  <1>2. SumOver(BookedPnl', {}) = 0 /\ StartingEquity \in Int
    BY SumOverEmpty, ConfigAssumption
  <1> QED
    BY <1>1, <1>2, LedgerIsSumNext

(* The account and the record never disagree: every gain or loss of the     *)
(* account is the pnl of one recorded trade, and every recorded trade's    *)
(* return is in the shortfall record, through restarts too.                *)
THEOREM LedgerAlwaysBalances == Spec => []EquityLedger
  <1>1. Init => EquityLedger
    BY EmptyLedger DEF Init, RiskInit
  <1>2. LoopInv /\ EquityLedger /\ [Next]_vars => EquityLedger'
    <2> SUFFICES ASSUME LoopInv, EquityLedger, [Next]_vars PROVE EquityLedger'
      OBVIOUS
    <2>1. ASSUME UNCHANGED <<equity, trades, pnlPcts>> PROVE EquityLedger'
      BY <2>1, LedgerIsSum, LedgerIsSumNext DEF BookedPnl
    <2>2. CASE Restart
      BY <2>2, EmptyLedgerNext DEF Restart, ResetEngine
    <2>3. ASSUME NEW s \in Symbols, NEW epoch \in Nat, NEW pnl \in Int,
                 Leaves(s, epoch, pnl)
          PROVE  EquityLedger'
      BY <2>3, LeavesKeepsLedger
    <2> QED
      BY <2>1, <2>2, <2>3, StepKinds DEF Quiet, Enters
  <1> QED
    BY <1>1, <1>2, LoopInvariant, PTL DEF Spec

-----------------------------------------------------------------------------
(* The exposure.                                                            *)

Unit == Scale * Scale

(* What one position may be worth, in Units, when the peak is p.            *)
CapAt(p) == MaxExposure * p * (Scale + MaxSlippage)

(* Every stake is within the cap of the highest equity so far: it was when  *)
(* it was opened, and the peak only rises while it is open.                *)
StakesCapped == \A s \in Symbols : pending[s].stake * Unit <= CapAt(peakEquity)

ExposureInv == StakesCapped /\ BreakerOvershootBounded

(* BreakerOvershootBounded for one breaker: were the stakes r at risk lost, *)
(* the fall from top to what remains of the equity e stays within the limit *)
(* and a cap for each symbol.                                              *)
Covered(top, limit, e, r, cap) ==
    (top - e + r) * Unit <= limit * top * Scale + Cardinality(Symbols) * cap

LEMMA ExposureNumbers ==
    /\ Scale \in Nat \ {0} /\ Unit \in Nat \ {0}
    /\ MaxExposure \in Nat \ {0} /\ MaxSlippage \in Nat
    /\ MaxDrawdown \in 1..Scale /\ MaxDailyLoss \in 1..Scale
    /\ IsFiniteSet(Symbols) /\ Cardinality(Symbols) \in Nat
  <1>1. /\ IsFiniteSet(Symbols) /\ Cardinality(Symbols) \in Nat
        /\ Scale \in Nat \ {0} /\ MaxExposure \in Nat \ {0}
        /\ MaxSlippage \in Nat
        /\ MaxDrawdown \in 1..Scale /\ MaxDailyLoss \in 1..Scale
    BY ConfigAssumption, TradingAssumption, ScaleAssumption, FS_CardinalityType
  <1>2. \A n \in Nat \ {0} : n * n \in Nat \ {0}
    OBVIOUS
  <1> QED
    BY <1>1, <1>2 DEF Unit

LEMMA CapGrows ==
    ASSUME NEW p \in Int, NEW q \in Int, p <= q
    PROVE  CapAt(p) \in Int /\ CapAt(q) \in Int /\ CapAt(p) <= CapAt(q)
  <1>1. PICK x, m : x = MaxExposure /\ m = Scale + MaxSlippage
    OBVIOUS
  <1>2. x \in Nat /\ m \in Nat
    BY <1>1, ExposureNumbers
  <1>3. x * p \in Int /\ x * q \in Int /\ x * p <= x * q
    BY <1>2
  <1>4. (x * p) * m \in Int /\ (x * q) * m \in Int /\ (x * p) * m <= (x * q) * m
    BY <1>2, <1>3, ScaleMonotone
  <1> QED
    BY <1>1, <1>4 DEF CapAt

(* The same formula, with its products taken in another order.              *)
LEMMA CoveredIs ==
    ASSUME NEW top \in Int, NEW limit \in Int, NEW e \in Int, NEW r \in Int,
           NEW p \in Int
    PROVE  Covered(top, limit, e, r, CapAt(p)) <=>
              (top - e + r) * Scale * Scale
                <= limit * top * Scale
                   + Cardinality(Symbols) * MaxExposure * p
                     * (Scale + MaxSlippage)
  <1>1. PICK k, n, x, m : /\ k = Scale /\ n = Cardinality(Symbols)
                          /\ x = MaxExposure /\ m = Scale + MaxSlippage
    OBVIOUS
  <1>2. k \in Int /\ n \in Int /\ x \in Int /\ m \in Int
    BY <1>1, ExposureNumbers
  <1>3. \A a \in Int : (a * k) * k = a * (k * k)
    BY <1>2
  <1>4. ((n * x) * p) * m = n * ((x * p) * m)
    <2>1. (n * x) * p = n * (x * p) /\ x * p \in Int
      BY <1>2
    <2>2. \A y \in Int : (n * y) * m = n * (y * m)
      BY <1>2
    <2> QED
      BY <2>1, <2>2
  <1>5. top - e + r \in Int
    OBVIOUS
  <1> QED
    BY <1>1, <1>3, <1>4, <1>5 DEF Covered, CapAt, Unit

LEMMA StakesAtRiskIsSum == StakesAtRisk = SumOver(StakesOpen, Symbols)
  BY DEF StakesAtRisk, SumOver, StakesOpen

LEMMA StakesAtRiskIsSumNext == StakesAtRisk' = SumOver(StakesOpen', Symbols)
  BY DEF StakesAtRisk, SumOver, StakesOpen, FoldFunctionOnSet, MapThenFoldSet

LEMMA StakesNumbers ==
    ASSUME pending \in [Symbols -> PendingTrade \cup {NoTrade}]
    PROVE  Numbers(StakesOpen, Symbols) /\ StakesAtRisk \in Int
  <1>1. \A s \in Symbols : pending[s].stake \in Nat
    BY DEF PendingTrade, NoTrade
  <1>2. Numbers(StakesOpen, Symbols)
    BY <1>1 DEF Numbers, StakesOpen
  <1> QED
    BY <1>2, SumOverType, StakesAtRiskIsSum, ExposureNumbers

LEMMA BoundIsCover ==
    ASSUME TypeOK
    PROVE  BreakerOvershootBounded <=>
              /\ Covered(peakEquity, MaxDrawdown, equity, StakesAtRisk,
                         CapAt(peakEquity))
              /\ Covered(dayStartEquity, MaxDailyLoss, equity, StakesAtRisk,
                         CapAt(peakEquity))
  <1>1. /\ equity \in Int /\ peakEquity \in Int /\ dayStartEquity \in Int
        /\ MaxDrawdown \in Int /\ MaxDailyLoss \in Int /\ StakesAtRisk \in Int
    BY ExposureNumbers, StakesNumbers DEF TypeOK, RiskTypeOK
  <1> QED
    BY <1>1, CoveredIs DEF BreakerOvershootBounded

LEMMA BoundIsCoverNext ==
    ASSUME TypeOK'
    PROVE  BreakerOvershootBounded' <=>
              /\ Covered(peakEquity', MaxDrawdown, equity', StakesAtRisk',
                         CapAt(peakEquity'))
              /\ Covered(dayStartEquity', MaxDailyLoss, equity', StakesAtRisk',
                         CapAt(peakEquity'))
  <1>1. /\ equity' \in Int /\ peakEquity' \in Int /\ dayStartEquity' \in Int
        /\ pending' \in [Symbols -> PendingTrade \cup {NoTrade}]
    BY DEF TypeOK, RiskTypeOK
  <1>2. \A s \in Symbols : pending'[s].stake \in Nat
    BY <1>1 DEF PendingTrade, NoTrade
  <1>3. StakesAtRisk' \in Int
    <2> DEFINE open == StakesOpen'
    <2>1. Numbers(open, Symbols) /\ StakesAtRisk' = SumOver(open, Symbols)
      BY <1>2, StakesAtRiskIsSumNext DEF Numbers, StakesOpen
    <2> HIDE DEF open
    <2> QED
      BY <2>1, SumOverType, ExposureNumbers
  <1>4. MaxDrawdown \in Int /\ MaxDailyLoss \in Int
    BY ExposureNumbers
  <1>5. PICK r \in Int : r = StakesAtRisk'
    BY <1>3
  <1>6. /\ Covered(peakEquity', MaxDrawdown, equity', r, CapAt(peakEquity')) <=>
              (peakEquity' - equity' + r) * Scale * Scale
                <= MaxDrawdown * peakEquity' * Scale
                   + Cardinality(Symbols) * MaxExposure * peakEquity'
                     * (Scale + MaxSlippage)
        /\ Covered(dayStartEquity', MaxDailyLoss, equity', r, CapAt(peakEquity')) <=>
              (dayStartEquity' - equity' + r) * Scale * Scale
                <= MaxDailyLoss * dayStartEquity' * Scale
                   + Cardinality(Symbols) * MaxExposure * peakEquity'
                     * (Scale + MaxSlippage)
    BY <1>1, <1>4, CoveredIs
  <1> QED
    BY <1>5, <1>6 DEF BreakerOvershootBounded

-----------------------------------------------------------------------------
(* Covering, in numbers.                                                    *)

(* A limit that is a fraction of the whole takes no more than the whole.    *)
LEMMA LimitIsPart ==
    ASSUME NEW limit \in 1..Scale, NEW top \in Int
    PROVE  /\ limit * top * Scale \in Int /\ top * Unit \in Int
           /\ top >= 0 => 0 <= limit * top * Scale
                          /\ limit * top * Scale <= top * Unit
           /\ top <= 0 => top * Unit <= limit * top * Scale
  <1>1. PICK k : k = Scale
    OBVIOUS
  <1>2. k \in Nat /\ limit \in Nat /\ limit <= k
    BY <1>1, ExposureNumbers
  <1>3. limit * top \in Int /\ k * top \in Int
        /\ (top >= 0 => 0 <= limit * top /\ limit * top <= k * top)
        /\ (top <= 0 => k * top <= limit * top)
    BY <1>2
  <1>4. (k * top) * k = top * (k * k) /\ (limit * top) * k \in Int
        /\ (k * top) * k \in Int
    BY <1>2, <1>3
  <1>5. /\ top >= 0 => 0 <= (limit * top) * k
                       /\ (limit * top) * k <= (k * top) * k
        /\ top <= 0 => (k * top) * k <= (limit * top) * k
    BY <1>2, <1>3, ScaleMonotone
  <1> QED
    BY <1>1, <1>4, <1>5 DEF Unit

(* A fall below the limit covers any stakes within their caps.              *)
LEMMA BelowLimitCovers ==
    ASSUME NEW top \in Int, NEW limit \in 1..Scale, NEW e \in Int, NEW r \in Int,
           NEW cap \in Int, r * Unit <= Cardinality(Symbols) * cap, e >= 0,
           top > 0 => (top - e) * Scale < limit * top
    PROVE  Covered(top, limit, e, r, cap)
  <1>1. PICK k, u, n : k = Scale /\ u = Unit /\ n = Cardinality(Symbols)
    OBVIOUS
  <1>2. k \in Nat \ {0} /\ u \in Nat /\ n \in Nat /\ u = k * k /\ limit \in Int
    BY <1>1, ExposureNumbers DEF Unit
  <1>3. PICK lhs \in Int, rhs \in Int, slack \in Int :
            lhs = (top - e) * u /\ rhs = limit * top * k /\ slack = n * cap
    <2>1. (top - e) * u \in Int /\ limit * top * k \in Int /\ n * cap \in Int
      BY <1>2
    <2> QED
      BY <2>1
  <1>4. lhs <= rhs
    <2>1. CASE top > 0
      <3>1. PICK fall \in Int, most \in Int :
                fall = (top - e) * k /\ most = limit * top
        <4>1. (top - e) * k \in Int /\ limit * top \in Int
          BY <1>2
        <4> QED
          BY <4>1
      <3>2. fall <= most
        BY <1>1, <2>1, <3>1
      <3>3. fall * k <= most * k
        BY <1>2, <3>2, ScaleMonotone
      <3>4. \A a \in Int : (a * k) * k = a * u
        BY <1>2
      <3>5. top - e \in Int
        OBVIOUS
      <3> QED
        BY <1>3, <3>1, <3>3, <3>4, <3>5
    <2>2. CASE top <= 0
      <3>1. top * u <= rhs /\ top * u \in Int
        BY <1>1, <1>3, <2>2, LimitIsPart
      <3>2. (top - e) * u <= top * u
        <4>1. top - e \in Int /\ top - e <= top
          OBVIOUS
        <4> QED
          BY <1>2, <4>1, ScaleMonotone
      <3> QED
        BY <1>3, <3>1, <3>2
    <2> QED
      BY <2>1, <2>2
  <1>5. (top - e + r) * u = (top - e) * u + r * u /\ r * u \in Int
    BY <1>2
  <1>6. r * u <= slack
    BY <1>1, <1>3
  <1> QED
    BY <1>1, <1>3, <1>4, <1>5, <1>6 DEF Covered

(* Losing what was at risk leaves what is still at risk covered.            *)
LEMMA LossStaysCovered ==
    ASSUME NEW top \in Int, NEW limit \in 1..Scale, NEW e \in Int, NEW r \in Int,
           NEW cap \in Int, NEW e2 \in Int, NEW r2 \in Int, NEW cap2 \in Int,
           Covered(top, limit, e, r, cap), r2 - e2 <= r - e, cap <= cap2
    PROVE  Covered(top, limit, e2, r2, cap2)
  <1>1. PICK u, n : u = Unit /\ n = Cardinality(Symbols)
    OBVIOUS
  <1>2. u \in Nat /\ n \in Nat
    BY <1>1, ExposureNumbers
  <1>3. PICK a \in Int, a2 \in Int : a = top - e + r /\ a2 = top - e2 + r2
    OBVIOUS
  <1>4. a2 * u <= a * u /\ a2 * u \in Int /\ a * u \in Int
    BY <1>2, <1>3, ScaleMonotone
  <1>5. n * cap <= n * cap2 /\ n * cap \in Int /\ n * cap2 \in Int
    BY <1>2
  <1>6. limit * top * Scale \in Int
    BY LimitIsPart
  <1> QED
    BY <1>1, <1>3, <1>4, <1>5, <1>6 DEF Covered

(* A trading day may open at any equity, a lost account's too: what is at   *)
(* risk then is covered below it, because it was covered below the peak.   *)
LEMMA NewDayCovered ==
    ASSUME NEW p \in Int, NEW e \in Int, NEW r \in Int, NEW cap \in Int,
           p >= e, p > 0, r * Unit <= Cardinality(Symbols) * cap,
           Covered(p, MaxDrawdown, e, r, cap)
    PROVE  Covered(e, MaxDailyLoss, e, r, cap)
  <1>1. PICK u, slack : u = Unit /\ slack = Cardinality(Symbols) * cap
    OBVIOUS
  <1>2. u \in Nat /\ slack \in Int
    BY <1>1, ExposureNumbers
  <1>3. PICK part \in Int : part = MaxDailyLoss * e * Scale
    BY LimitIsPart, ExposureNumbers
  <1>4. r * u <= part + slack
    <2>1. CASE e >= 0
      <3>1. part >= 0
        BY <1>3, <2>1, LimitIsPart, ExposureNumbers
      <3>2. r * u <= slack /\ r * u \in Int
        BY <1>1, <1>2
      <3> QED
        BY <1>2, <3>1, <3>2
    <2>2. CASE e < 0
      <3>1. e * u <= part /\ e * u \in Int
        BY <1>1, <1>3, <2>2, LimitIsPart, ExposureNumbers
      <3>2. PICK drop \in Int : drop = MaxDrawdown * p * Scale
        BY LimitIsPart, ExposureNumbers
      <3>3. drop <= p * u /\ p * u \in Int
        <4>1. MaxDrawdown \in 1..Scale /\ p >= 0
          BY ExposureNumbers
        <4>2. MaxDrawdown * p * Scale <= p * Unit /\ p * Unit \in Int
          BY <4>1, LimitIsPart
        <4> QED
          BY <1>1, <3>2, <4>2
      <3>4. (p - e + r) * u = p * u - e * u + r * u /\ r * u \in Int
        BY <1>2
      <3>5. (p - e + r) * u <= drop + slack
        BY <1>1, <3>2 DEF Covered
      <3> QED
        BY <1>2, <3>1, <3>3, <3>4, <3>5
    <2> QED
      BY <2>1, <2>2
  <1>5. e - e + r = r
    OBVIOUS
  <1> QED
    BY <1>1, <1>3, <1>4, <1>5 DEF Covered

-----------------------------------------------------------------------------
(* The steps.                                                               *)

LEMMA CappedStakesAdd ==
    ASSUME NEW open, Numbers(open, Symbols), NEW cap \in Int,
           \A s \in Symbols : open[s] * Unit <= cap
    PROVE  /\ SumOver(open, Symbols) \in Int
           /\ SumOver(open, Symbols) * Unit <= Cardinality(Symbols) * cap
  <1>1. IsFiniteSet(Symbols) /\ Unit \in Int
    BY ExposureNumbers
  <1>2. SumOver(open, Symbols) * Unit <= Cardinality(Symbols) * cap
    BY <1>1, SumOverBound
  <1> QED
    BY <1>1, <1>2, SumOverType

LEMMA EntersKeepsExposure ==
    ASSUME LoopInv, LoopInv', ExposureInv, NEW s \in Symbols, Enters(s)
    PROVE  ExposureInv'
  <1>1. /\ equity \in Int /\ peakEquity \in Nat \ {0} /\ dayStartEquity \in Int
        /\ equity <= peakEquity
        /\ UNCHANGED <<equity, peakEquity, dayStartEquity>>
    BY DEF LoopInv, TypeOK, RiskTypeOK, RiskInv, PeakIsHighWater, Enters
  <1>2. PICK stake \in Nat, cap \in Int :
            stake = pending'[s].stake /\ cap = CapAt(peakEquity)
    BY <1>1, CapGrows DEF Enters
  <1>3. stake * Unit <= CapAt(equity)
    <2>1. Scale \in Int
      BY ExposureNumbers
    <2>2. (stake * Scale) * Scale = stake * Unit
      BY <2>1 DEF Unit
    <2> QED
      BY <1>2, <2>2 DEF Enters, CapAt
  <1>4. equity > 0
    <2> SUFFICES ASSUME equity <= 0 PROVE FALSE
      BY <1>1
    <2>1. CapAt(equity) <= CapAt(0) /\ CapAt(equity) \in Int
      BY <1>1, CapGrows
    <2>2. CapAt(0) = 0
      BY ExposureNumbers DEF CapAt
    <2>3. stake * Unit > 0
      <3>1. stake > 0 /\ Unit \in Nat \ {0}
        BY <1>2, ExposureNumbers DEF Enters
      <3> QED
        BY <3>1
    <2> QED
      BY <1>3, <2>1, <2>2, <2>3, ExposureNumbers
  <1>5. StakesCapped'
    <2>1. CapAt(equity) <= cap /\ CapAt(equity) \in Int
      BY <1>1, <1>2, CapGrows
    <2>2. stake * Unit <= cap
      BY <1>2, <1>3, <2>1, ExposureNumbers
    <2>3. \A t \in Symbols : pending'[t].stake * Unit <= cap
      BY <1>2, <2>2 DEF Enters, ExposureInv, StakesCapped
    <2> QED
      BY <1>1, <1>2, <2>3 DEF StakesCapped
  <1>6. PICK open : open = StakesOpen'
    OBVIOUS
  <1>7. Numbers(open, Symbols) /\ \A t \in Symbols : open[t] * Unit <= cap
    <2>1. \A t \in Symbols : pending'[t].stake \in Nat
      BY DEF LoopInv, TypeOK, PendingTrade, NoTrade
    <2> QED
      BY <1>1, <1>2, <1>5, <1>6, <2>1 DEF StakesCapped, StakesOpen, Numbers
  <1>8. PICK r \in Int : /\ r = StakesAtRisk'
                         /\ r * Unit <= Cardinality(Symbols) * cap
    BY <1>2, <1>6, <1>7, CappedStakesAdd, StakesAtRiskIsSumNext
  <1>9. Account!BelowLimits
    BY BreakersAreLimits DEF Enters
  <1>10. Covered(peakEquity, MaxDrawdown, equity, r, cap)
    <2>1. /\ MaxDrawdown \in 1..Scale /\ equity >= 0 /\ peakEquity \in Int
          /\ (peakEquity - equity) * Scale < MaxDrawdown * peakEquity
      BY <1>1, <1>4, <1>9, ExposureNumbers DEF Account!BelowLimits
    <2> QED
      BY <1>1, <1>8, <2>1, BelowLimitCovers
  <1>11. Covered(dayStartEquity, MaxDailyLoss, equity, r, cap)
    <2>1. /\ MaxDailyLoss \in 1..Scale /\ equity >= 0
          /\ dayStartEquity > 0 =>
                (dayStartEquity - equity) * Scale < MaxDailyLoss * dayStartEquity
      BY <1>1, <1>4, <1>9, ExposureNumbers DEF Account!BelowLimits
    <2> QED
      BY <1>1, <1>8, <2>1, BelowLimitCovers
  <1>12. BreakerOvershootBounded'
    BY <1>1, <1>2, <1>8, <1>10, <1>11, BoundIsCoverNext DEF LoopInv
  <1> QED
    BY <1>5, <1>12 DEF ExposureInv

LEMMA LeavesKeepsExposure ==
    ASSUME LoopInv, LoopInv', ExposureInv,
           NEW s \in Symbols, NEW epoch \in Nat, NEW pnl \in Int,
           Leaves(s, epoch, pnl)
    PROVE  ExposureInv'
  <1>1. /\ equity \in Int /\ peakEquity \in Nat \ {0} /\ dayStartEquity \in Int
        /\ equity <= peakEquity
        /\ equity' \in Int /\ peakEquity' \in Int /\ dayStartEquity' \in Int
        /\ equity' = equity + pnl /\ pnl >= -pending[s].stake
        /\ dayStartEquity' \in {dayStartEquity, equity}
        /\ peakEquity' \in {peakEquity, equity'} /\ peakEquity <= peakEquity'
    <2>1. /\ equity' = equity + pnl /\ pnl >= -pending[s].stake
          /\ peakEquity' = AtLeast(peakEquity, equity + pnl)
          /\ dayStartEquity' \in {dayStartEquity, equity}
      BY LeavesEffect
    <2>2. /\ equity \in Int /\ peakEquity \in Nat \ {0}
          /\ dayStartEquity \in Int /\ equity <= peakEquity
      BY DEF LoopInv, TypeOK, RiskTypeOK, RiskInv, PeakIsHighWater
    <2>3. PICK e2 \in Int : e2 = equity + pnl
      BY <2>2
    <2>4. /\ peakEquity' = AtLeast(peakEquity, e2) /\ peakEquity \in Int
          /\ equity' = e2
      BY <2>1, <2>2, <2>3
    <2>5. /\ peakEquity' \in {peakEquity, e2} /\ peakEquity <= peakEquity'
          /\ peakEquity' \in Int
      BY <2>4, AtLeastType
    <2> QED
      BY <2>1, <2>2, <2>4, <2>5
  <1>2. /\ pending'[s].stake = 0
        /\ \A t \in Symbols \ {s} : pending'[t] = pending[t]
        /\ \A t \in Symbols : pending[t].stake \in Nat /\ pending'[t].stake \in Nat
    <2>1. pending'[s] = NoTrade /\ \A t \in Symbols \ {s} : pending'[t] = pending[t]
      BY LeavesEffect
    <2>2. \A t \in Symbols : pending[t].stake \in Nat
      BY DEF LoopInv, TypeOK, PendingTrade, NoTrade
    <2>3. NoTrade.stake = 0
      BY DEF NoTrade
    <2> QED
      BY <2>1, <2>2, <2>3
  <1>3. PICK cap \in Int, cap2 \in Int :
            /\ cap = CapAt(peakEquity) /\ cap2 = CapAt(peakEquity')
            /\ cap <= cap2
    BY <1>1, CapGrows
  <1>4. \A t \in Symbols : pending[t].stake * Unit <= cap
    BY <1>3 DEF ExposureInv, StakesCapped
  <1>5. \A t \in Symbols : pending'[t].stake * Unit <= cap2
    <2>1. pending'[s].stake * Unit = 0 /\ cap2 >= 0
      <3>1. CapAt(0) <= cap2
        <4>1. peakEquity' \in Int /\ 0 <= peakEquity' /\ 0 \in Int
          BY <1>1
        <4> QED
          BY <1>3, <4>1, CapGrows
      <3>2. CapAt(0) = 0
        BY ExposureNumbers DEF CapAt
      <3> QED
        BY <1>2, <1>3, <3>1, <3>2, ExposureNumbers
    <2>2. \A t \in Symbols \ {s} : pending'[t].stake * Unit <= cap2
      <3> SUFFICES ASSUME NEW t \in Symbols \ {s}
                   PROVE  pending'[t].stake * Unit <= cap2
        OBVIOUS
      <3>1. pending[t].stake * Unit \in Int
        BY <1>2, ExposureNumbers
      <3> QED
        BY <1>2, <1>3, <1>4, <3>1
    <2> QED
      BY <2>1, <2>2
  <1>6. PICK open, open2 : open = StakesOpen /\ open2 = StakesOpen'
    OBVIOUS
  <1>7. /\ Numbers(open, Symbols) /\ Numbers(open2, Symbols)
        /\ \A t \in Symbols : open[t] * Unit <= cap
        /\ \A t \in Symbols : open2[t] * Unit <= cap2
        /\ \A t \in Symbols \ {s} : open[t] = open2[t]
        /\ open[s] = pending[s].stake /\ open2[s] = 0
    BY <1>2, <1>4, <1>5, <1>6 DEF StakesOpen, Numbers
  <1>8. PICK r \in Int, r2 \in Int :
            /\ r = StakesAtRisk /\ r2 = StakesAtRisk'
            /\ r = SumOver(open, Symbols) /\ r2 = SumOver(open2, Symbols)
            /\ r * Unit <= Cardinality(Symbols) * cap
            /\ r2 * Unit <= Cardinality(Symbols) * cap2
    BY <1>3, <1>6, <1>7, CappedStakesAdd, StakesAtRiskIsSum,
       StakesAtRiskIsSumNext
  <1>9. r2 = r - pending[s].stake
    <2>1. IsFiniteSet(Symbols)
      BY ExposureNumbers
    <2>2. SumOver(open2, Symbols) = SumOver(open, Symbols) - open[s] + open2[s]
      BY <1>7, <2>1, SumOverChange
    <2> QED
      BY <1>2, <1>7, <1>8, <2>2
  <1>10. r2 - equity' <= r - equity
    BY <1>1, <1>2, <1>9
  <1>11. /\ Covered(peakEquity, MaxDrawdown, equity, r, cap)
         /\ Covered(dayStartEquity, MaxDailyLoss, equity, r, cap)
    BY <1>3, <1>8, BoundIsCover DEF ExposureInv, LoopInv
  <1>12. Covered(peakEquity', MaxDrawdown, equity', r2, cap2)
    <2>1. CASE peakEquity' = peakEquity
      BY <1>1, <1>3, <1>8, <1>10, <1>11, <2>1, LossStaysCovered, ExposureNumbers
    <2>2. CASE peakEquity' = equity' /\ peakEquity' >= 0
      <3>1. equity' > 0 => (equity' - equity') * Scale < MaxDrawdown * equity'
        BY <1>1, ExposureNumbers
      <3> QED
        BY <1>1, <1>3, <1>8, <2>2, <3>1, BelowLimitCovers, ExposureNumbers
    <2> QED
      BY <1>1, <2>1, <2>2
  <1>13. Covered(dayStartEquity', MaxDailyLoss, equity', r2, cap2)
    <2>1. CASE dayStartEquity' = dayStartEquity
      BY <1>1, <1>3, <1>8, <1>10, <1>11, <2>1, LossStaysCovered, ExposureNumbers
    <2>2. CASE dayStartEquity' = equity
      <3>1. Covered(equity, MaxDailyLoss, equity, r, cap)
        BY <1>1, <1>3, <1>8, <1>11, NewDayCovered
      <3> QED
        BY <1>1, <1>3, <1>8, <1>10, <2>2, <3>1, LossStaysCovered, ExposureNumbers
    <2> QED
      BY <1>1, <2>1, <2>2
  <1>14. BreakerOvershootBounded'
    BY <1>3, <1>8, <1>12, <1>13, BoundIsCoverNext DEF LoopInv
  <1>15. StakesCapped'
    BY <1>3, <1>5 DEF StakesCapped
  <1> QED
    BY <1>14, <1>15 DEF ExposureInv

(* With nothing open and the account at its start, there is nothing to      *)
(* cover.                                                                  *)
LEMMA FreshIsCovered ==
    ASSUME NEW open, open = [s \in Symbols |-> 0]
    PROVE  /\ SumOver(open, Symbols) = 0
           /\ CapAt(StartingEquity) \in Nat
           /\ Covered(StartingEquity, MaxDrawdown, StartingEquity, 0,
                      CapAt(StartingEquity))
           /\ Covered(StartingEquity, MaxDailyLoss, StartingEquity, 0,
                      CapAt(StartingEquity))
  <1>1. StartingEquity \in Nat \ {0}
    BY ConfigAssumption
  <1>2. PICK cap \in Nat : cap = CapAt(StartingEquity)
    <2>1. CapAt(0) <= CapAt(StartingEquity) /\ CapAt(StartingEquity) \in Int
          /\ CapAt(0) = 0
      BY <1>1, CapGrows, ExposureNumbers DEF CapAt
    <2> QED
      BY <2>1
  <1>3. Numbers(open, Symbols) /\ \A s \in Symbols : open[s] * Unit <= 0
    BY ExposureNumbers DEF Numbers
  <1>4. SumOver(open, Symbols) = 0
    BY <1>3, SumOverZero, ExposureNumbers
  <1>5. \A limit \in 1..Scale : Covered(StartingEquity, limit, StartingEquity, 0, cap)
    <2> SUFFICES ASSUME NEW limit \in 1..Scale
                 PROVE  Covered(StartingEquity, limit, StartingEquity, 0, cap)
      OBVIOUS
    <2>1. (StartingEquity - StartingEquity + 0) * Unit = 0
      BY <1>1, ExposureNumbers
    <2>2. /\ limit * StartingEquity * Scale >= 0
          /\ limit * StartingEquity * Scale \in Int
      <3>1. PICK top \in Nat : top = StartingEquity
        BY <1>1
      <3>2. limit * top * Scale >= 0 /\ limit * top * Scale \in Int
        <4>1. top \in Int /\ top >= 0
          OBVIOUS
        <4>2. limit * top * Scale \in Int /\ (top >= 0 => 0 <= limit * top * Scale)
          BY <4>1, LimitIsPart
        <4> QED
          BY <4>1, <4>2
      <3> QED
        BY <3>1, <3>2
    <2>3. Cardinality(Symbols) * cap >= 0 /\ Cardinality(Symbols) * cap \in Int
      BY ExposureNumbers
    <2> QED
      BY <2>1, <2>2, <2>3 DEF Covered
  <1> QED
    BY <1>2, <1>4, <1>5, ExposureNumbers

LEMMA FreshExposure ==
    ASSUME TypeOK, equity = StartingEquity, peakEquity = StartingEquity,
           dayStartEquity = StartingEquity, pending = [s \in Symbols |-> NoTrade]
    PROVE  ExposureInv
  <1>1. PICK open : open = StakesOpen /\ open = [s \in Symbols |-> 0]
    BY DEF StakesOpen, NoTrade
  <1>2. StakesAtRisk = 0
    BY <1>1, FreshIsCovered, StakesAtRiskIsSum
  <1>3. StakesCapped
    <2>1. PICK cap \in Nat : cap = CapAt(peakEquity)
      BY <1>1, FreshIsCovered
    <2>2. \A s \in Symbols : pending[s].stake = 0
      BY DEF NoTrade
    <2>3. 0 * Unit <= cap
      BY ExposureNumbers
    <2> QED
      BY <2>1, <2>2, <2>3 DEF StakesCapped
  <1>4. BreakerOvershootBounded
    BY <1>1, <1>2, FreshIsCovered, BoundIsCover
  <1> QED
    BY <1>3, <1>4 DEF ExposureInv

LEMMA RestartExposure ==
    ASSUME LoopInv', Restart
    PROVE  ExposureInv'
  <1>1. /\ equity' = StartingEquity /\ peakEquity' = StartingEquity
        /\ dayStartEquity' = StartingEquity
        /\ pending' = [s \in Symbols |-> NoTrade]
    BY DEF Restart, ResetEngine
  <1>2. PICK open : open = StakesOpen' /\ open = [s \in Symbols |-> 0]
    BY <1>1 DEF StakesOpen, NoTrade
  <1>3. StakesAtRisk' = 0
    BY <1>2, FreshIsCovered, StakesAtRiskIsSumNext
  <1>4. StakesCapped'
    <2>1. PICK cap \in Nat : cap = CapAt(peakEquity')
      BY <1>1, <1>2, FreshIsCovered
    <2>2. \A s \in Symbols : pending'[s].stake = 0
      BY <1>1 DEF NoTrade
    <2>3. 0 * Unit <= cap
      BY ExposureNumbers
    <2> QED
      BY <2>1, <2>2, <2>3 DEF StakesCapped
  <1>5. BreakerOvershootBounded'
    BY <1>1, <1>2, <1>3, FreshIsCovered, BoundIsCoverNext DEF LoopInv
  <1> QED
    BY <1>4, <1>5 DEF ExposureInv

LEMMA QuietKeepsExposure ==
    ASSUME LoopInv, LoopInv', ExposureInv, Quiet
    PROVE  ExposureInv'
  <1>1. UNCHANGED <<equity, peakEquity, dayStartEquity, pending>>
    BY DEF Quiet
  <1>2. StakesAtRisk' = StakesAtRisk
    BY <1>1, StakesAtRiskIsSum, StakesAtRiskIsSumNext DEF StakesOpen
  <1>3. BreakerOvershootBounded'
    BY <1>1, <1>2, BoundIsCover, BoundIsCoverNext DEF LoopInv, ExposureInv
  <1> QED
    BY <1>1, <1>3 DEF ExposureInv, StakesCapped

(* However the market and the broker behave and however many positions are  *)
(* open at once, losing every open stake takes the account past a breaker's *)
(* limit by at most one exposure cap, with slippage, for each symbol.      *)
THEOREM OvershootAlwaysBounded == Spec => []BreakerOvershootBounded
  <1>1. Init => ExposureInv
    BY LoopInvInit, FreshExposure DEF LoopInv, Init, RiskInit
  <1>2. LoopInv /\ LoopInv' /\ ExposureInv /\ [Next]_vars => ExposureInv'
    BY StepKinds, QuietKeepsExposure, RestartExposure, EntersKeepsExposure,
       LeavesKeepsExposure
  <1>3. ExposureInv => BreakerOvershootBounded
    BY DEF ExposureInv
  <1> QED
    BY <1>1, <1>2, <1>3, LoopInvariant, PTL DEF Spec

=============================================================================
