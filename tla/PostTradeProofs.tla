-------------------------- MODULE PostTradeProofs ---------------------------
(* Theorems about PostTradeAnalysis: the metrics are what their definitions *)
(* say, for every record of trades that end like binary options do.        *)
EXTENDS PostTradeAnalysis, SequenceTheorems, SumLemmas

-----------------------------------------------------------------------------
(* Folds over a sequence, which take its last element first.                *)

LEMMA MaxIsElement ==
    ASSUME NEW n \in Nat, NEW s \in SUBSET (1..n), s # {}
    PROVE  Max(s) \in s /\ \A x \in s : x <= Max(s)
  <1>1. \E i \in s : \A j \in s : j <= i
    BY LastPosition
  <1>2. \E i \in s : \A j \in s : i >= j
    BY <1>1
  <1>3. Max(s) \in s /\ \A j \in s : Max(s) >= j
    BY <1>2 DEF Max
  <1> QED
    BY <1>3

LEMMA MaxOfFirst ==
    ASSUME NEW k \in Nat \ {0}
    PROVE  Max(1..k) = k /\ (1..k) \ {Max(1..k)} = 1..(k - 1)
  <1>1. Max(1..k) \in 1..k /\ \A x \in 1..k : x <= Max(1..k)
    <2>1. k \in Nat /\ 1 \in 1..k /\ 1..k \in SUBSET (1..k)
      OBVIOUS
    <2>2. 1..k # {}
      BY <2>1
    <2> QED
      BY <2>1, <2>2, MaxIsElement
  <1>2. k \in 1..k
    OBVIOUS
  <1>3. Max(1..k) = k
    BY <1>1, <1>2
  <1>4. (1..k) \ {k} = 1..(k - 1)
    OBVIOUS
  <1> QED
    BY <1>3, <1>4

(* A fold of n steps g from b, whose states are in A, has n + 1 states; the *)
(* library's recursion has a solution, and every solution ends in the last *)
(* state.                                                                  *)
Solution(it, g, b, n) ==
    it = [s \in SUBSET (1..n) |->
             IF s = {} THEN b ELSE g[<<Max(s), it[s \ {Max(s)}]>>]]

Follows(it, g, b, A, n) ==
    /\ it[{}] = b
    /\ \A s \in SUBSET (1..n) :
           s # {} /\ it[s \ {Max(s)}] \in A =>
               it[s] = g[<<Max(s), it[s \ {Max(s)}]>>]

AreStates(st, g, b, A, n) ==
    /\ st[0] = b
    /\ \A k \in 1..n : st[k] = g[<<k, st[k - 1]>>]
    /\ \E it : /\ Solution(it, g, b, n)
               /\ \A s \in SUBSET (1..n) : it[s] \in A
    /\ \A it : Follows(it, g, b, A, n) => it[1..n] = st[n]

LEMMA StatesOfFold ==
    ASSUME NEW n \in Nat, NEW A, NEW b \in A, NEW g \in [(1..n) \X A -> A]
    PROVE  \E st \in [0..n -> A] : AreStates(st, g, b, A, n)
  <1> DEFINE c == [s \in SUBSET (1..n) |-> Max(s)]
  <1>1. IsFiniteSet(1..n)
    BY FS_Interval
  <1>2. Chooses(c, 1..n) /\ \A s \in SUBSET (1..n) : c[s] = Max(s)
    BY MaxIsElement DEF Chooses
  <1>3. PICK it : FoldTable(it, g, b, c, 1..n)
    <2> HIDE DEF c
    <2> QED
      BY <1>1, <1>2, FoldExists
  <1>4. Solution(it, g, b, n)
    <2>1. it = [s \in SUBSET (1..n) |->
                   IF s = {} THEN b ELSE g[<<c[s], it[s \ {c[s]}]>>]]
      BY <1>3 DEF FoldTable
    <2> HIDE DEF c
    <2> QED
      BY <1>2, <2>1 DEF Solution
  <1>5. \A s \in SUBSET (1..n) :
            it[s] = IF s = {} THEN b ELSE g[<<Max(s), it[s \ {Max(s)}]>>]
    BY <1>4 DEF Solution
  <1>6. it[{}] = b
    BY <1>5
  <1>7. \A s \in SUBSET (1..n) : it[s] \in A
    <2>1. \A s \in SUBSET (1..n) :
              s # {} /\ it[s \ {c[s]}] \in A => it[s] \in A
      <3> SUFFICES ASSUME NEW s \in SUBSET (1..n), s # {}, it[s \ {Max(s)}] \in A
                   PROVE  it[s] \in A
        BY <1>2
      <3>1. Max(s) \in 1..n
        BY MaxIsElement
      <3>2. it[s] = g[<<Max(s), it[s \ {Max(s)}]>>]
        BY <1>5
      <3> QED
        BY <3>1, <3>2
    <2> HIDE DEF c
    <2> QED
      BY <1>1, <1>2, <1>6, <2>1, FoldStays
  <1>8. \A k \in 0..n : 1..k \in SUBSET (1..n)
    OBVIOUS
  <1>9. PICK st \in [0..n -> A] : st = [k \in 0..n |-> it[1..k]]
    BY <1>7, <1>8
  <1>10. st[0] = b
    <2>1. 1..0 = {}
      OBVIOUS
    <2> QED
      BY <1>6, <1>9, <2>1
  <1>11. ASSUME NEW k \in 1..n
         PROVE  /\ st[k] = g[<<k, st[k - 1]>>]
                /\ 1..k \in SUBSET (1..n) /\ 1..k # {}
                /\ Max(1..k) = k /\ (1..k) \ {Max(1..k)} = 1..(k - 1)
    <2>1. /\ k \in Nat \ {0} /\ k \in 0..n /\ k - 1 \in 0..n
          /\ 1..k # {}
      <3>1. 1 \in 1..k /\ k \in Nat \ {0}
        OBVIOUS
      <3>2. k \in 0..n /\ k - 1 \in 0..n
        OBVIOUS
      <3> QED
        BY <3>1, <3>2
    <2>2. Max(1..k) = k /\ (1..k) \ {Max(1..k)} = 1..(k - 1)
      BY <2>1, MaxOfFirst
    <2>3. it[1..k] = g[<<k, it[1..(k - 1)]>>]
      BY <1>5, <1>8, <2>1, <2>2
    <2> QED
      BY <1>8, <1>9, <2>1, <2>2, <2>3
  <1>12. ASSUME NEW other, Follows(other, g, b, A, n)
         PROVE  other[1..n] = st[n]
    <2> DEFINE P == {k \in 0..n : other[1..k] = st[k]}
    <2>1. 0 \in P
      <3>1. 1..0 = {}
        OBVIOUS
      <3> QED
        BY <1>10, <1>12, <3>1 DEF Follows
    <2>2. ASSUME NEW k \in 0..(n - 1), k \in P
          PROVE  k + 1 \in P
      <3>1. k + 1 \in 1..n /\ (k + 1) - 1 = k /\ k + 1 \in 0..n /\ k \in 0..n
        OBVIOUS
      <3>2. PICK next : /\ next = 1..(k + 1) /\ next \in SUBSET (1..n)
                        /\ next # {} /\ Max(next) = k + 1
                        /\ next \ {Max(next)} = 1..k
                        /\ st[k + 1] = g[<<k + 1, st[k]>>]
        BY <1>11, <3>1
      <3>3. other[next \ {Max(next)}] = st[k]
        BY <2>2, <3>2
      <3>4. st[k] \in A
        BY <3>1
      <3>5. other[next] = g[<<Max(next), other[next \ {Max(next)}]>>]
        BY <1>12, <3>2, <3>3, <3>4 DEF Follows
      <3> QED
        BY <3>1, <3>2, <3>3, <3>5
    <2> HIDE DEF P
    <2>3. n \in P
      <3>1. n \in 0..n
        OBVIOUS
      <3> QED
        BY <2>1, <2>2, <3>1, AllReached
    <2> QED
      BY <2>3 DEF P
  <1> QED
    BY <1>4, <1>7, <1>10, <1>11, <1>12 DEF AreStates

-----------------------------------------------------------------------------
(* Records of trades.                                                       *)

PnlsOf(trades) == [k \in DOMAIN trades |-> trades[k].pnl]

LEMMA TradeNumbers ==
    ASSUME NEW trades \in Seq(AnalyzedTrade)
    PROVE  /\ Len(trades) \in Nat /\ DOMAIN trades = 1..Len(trades)
           /\ IsFiniteSet(DOMAIN trades)
           /\ \A k \in DOMAIN trades :
                  /\ trades[k].epoch \in Nat /\ trades[k].stake \in Nat
                  /\ trades[k].pnl \in Int /\ trades[k].p \in 0..Scale
           /\ Numbers(PnlsOf(trades), DOMAIN trades)
  <1>1. Len(trades) \in Nat /\ DOMAIN trades = 1..Len(trades)
    BY LenProperties
  <1>2. IsFiniteSet(1..Len(trades))
    BY <1>1, FS_Interval
  <1>3. ASSUME NEW k \in DOMAIN trades
        PROVE  /\ trades[k].epoch \in Nat /\ trades[k].stake \in Nat
               /\ trades[k].pnl \in Int /\ trades[k].p \in 0..Scale
    <2>1. trades[k] \in AnalyzedTrade
      BY <1>1, ElementOfSeq
    <2> QED
      BY <2>1 DEF AnalyzedTrade
  <1>4. Numbers(PnlsOf(trades), DOMAIN trades)
    BY <1>3 DEF Numbers, PnlsOf
  <1> QED
    BY <1>1, <1>2, <1>3, <1>4

(* A balance is a sum of the first results, and moves by one at a time.     *)
BalanceOf(trades, k) == SumOver(PnlsOf(trades), 1..k)

LEMMA NetPnlIsSum ==
    ASSUME NEW trades PROVE NetPnl(trades) = SumOver(PnlsOf(trades), DOMAIN trades)
  BY DEF NetPnl, Total, FoldFunction, SumOver, PnlsOf

LEMMA BalanceMoves ==
    ASSUME NEW trades \in Seq(AnalyzedTrade)
    PROVE  /\ \A k \in 0..Len(trades) :
                  /\ BalanceOf(trades, k) \in Int
                  /\ Balance(trades, k) = BalanceOf(trades, k)
           /\ BalanceOf(trades, 0) = 0
           /\ \A k \in 1..Len(trades) :
                  BalanceOf(trades, k) = BalanceOf(trades, k - 1) + trades[k].pnl
  <1>1. /\ Len(trades) \in Nat /\ DOMAIN trades = 1..Len(trades)
        /\ Numbers(PnlsOf(trades), 1..Len(trades))
    BY TradeNumbers
  <1>2. ASSUME NEW k \in 0..Len(trades)
        PROVE  /\ BalanceOf(trades, k) \in Int
               /\ Balance(trades, k) = BalanceOf(trades, k)
    <2>1. IsFiniteSet(1..k) /\ 1..k \subseteq 1..Len(trades)
      BY <1>1, FS_Interval
    <2>2. Numbers(PnlsOf(trades), 1..k)
      BY <1>1, <2>1 DEF Numbers
    <2>3. PICK first : first = SubSeq(trades, 1, k)
      OBVIOUS
    <2>4. DOMAIN first = 1..k /\ \A j \in 1..k : first[j] = trades[j]
      BY <1>1, <2>3
    <2>5. \A j \in 1..k : PnlsOf(trades)[j] = PnlsOf(first)[j]
      BY <1>1, <2>1, <2>4 DEF PnlsOf
    <2>6. SumOver(PnlsOf(trades), 1..k) = SumOver(PnlsOf(first), 1..k)
      BY <2>1, <2>2, <2>5, SumOverSame
    <2> QED
      BY <2>1, <2>2, <2>3, <2>4, <2>6, NetPnlIsSum, SumOverType
      DEF Balance, BalanceOf
  <1>3. BalanceOf(trades, 0) = 0
    <2>1. 1..0 = {}
      OBVIOUS
    <2> QED
      BY <2>1, SumOverEmpty DEF BalanceOf
  <1>4. ASSUME NEW k \in 1..Len(trades)
        PROVE  BalanceOf(trades, k) = BalanceOf(trades, k - 1) + trades[k].pnl
    <2>1. PICK j \in Nat : j = k - 1 /\ k = j + 1
      BY <1>1
    <2>2. Numbers(PnlsOf(trades), 1..(j + 1))
      BY <1>1, <2>1 DEF Numbers
    <2>3. SumOver(PnlsOf(trades), 1..(j + 1))
            = SumOver(PnlsOf(trades), 1..j) + PnlsOf(trades)[j + 1]
      BY <2>2, SumOverNext
    <2> QED
      BY <1>1, <2>1, <2>3 DEF BalanceOf, PnlsOf
  <1> QED
    BY <1>2, <1>3, <1>4

-----------------------------------------------------------------------------
(* The drawdown in money.                                                   *)

Curves == [level: Int, peak: Int, worst: Int]

FlatCurve == [level |-> 0, peak |-> 0, worst |-> 0]

CurveStep(curve, trade) ==
    LET level == curve.level + trade.pnl
        peak == AtLeast(curve.peak, level)
    IN  [level |-> level, peak |-> peak,
         worst |-> AtLeast(curve.worst, peak - level)]

LEMMA CurveStates ==
    ASSUME NEW trades \in Seq(AnalyzedTrade), NEW n \in Nat, n = Len(trades)
    PROVE  \E st \in [0..n -> Curves] :
              /\ st[0] = FlatCurve
              /\ \A k \in 1..n : st[k] = CurveStep(st[k - 1], trades[k])
              /\ MaxDollarDrawdown(trades) = st[n].worst
  <1> DEFINE g == [kc \in (1..n) \X Curves |-> CurveStep(kc[2], trades[kc[1]])]
             Is(it) == it = [s \in SUBSET (1..n) |->
                 IF s = {} THEN FlatCurve
                 ELSE CurveStep(it[s \ {Max(s)}], trades[Max(s)])]
             chosen == CHOOSE it : Is(it)
  <1>1. DOMAIN trades = 1..n /\ \A k \in 1..n : trades[k].pnl \in Int
    BY TradeNumbers
  <1>2. \A c \in Curves, k \in 1..n : CurveStep(c, trades[k]) \in Curves
    BY <1>1 DEF Curves, CurveStep, AtLeast
  <1>3. g \in [(1..n) \X Curves -> Curves] /\ FlatCurve \in Curves
    BY <1>2 DEF Curves, FlatCurve
  <1>4. \A k \in 1..n, c \in Curves : g[<<k, c>>] = CurveStep(c, trades[k])
    OBVIOUS
  <1>5. PICK st \in [0..n -> Curves] : AreStates(st, g, FlatCurve, Curves, n)
    <2> HIDE DEF g
    <2> QED
      BY <1>3, StatesOfFold
  <1>6. \A s \in SUBSET (1..n) :
            s # {} => Max(s) \in 1..n /\ s \ {Max(s)} \in SUBSET (1..n)
    BY MaxIsElement
  <1>7. \E it : Is(it)
    <2>1. PICK it : /\ Solution(it, g, FlatCurve, n)
                    /\ \A s \in SUBSET (1..n) : it[s] \in Curves
      <3> HIDE DEF g
      <3> QED
        BY <1>5 DEF AreStates
    <2> HIDE DEF g
    <2>2. it = [s \in SUBSET (1..n) |->
                   IF s = {} THEN FlatCurve ELSE g[<<Max(s), it[s \ {Max(s)}]>>]]
      BY <2>1 DEF Solution
    <2>3. \A s \in SUBSET (1..n) :
              it[s] = IF s = {} THEN FlatCurve
                      ELSE CurveStep(it[s \ {Max(s)}], trades[Max(s)])
      BY <1>4, <1>6, <2>1, <2>2
    <2>4. Is(it)
      BY <2>2, <2>3
    <2> QED
      BY <2>4
  <1>8. Is(chosen)
    <2> HIDE DEF Is
    <2> QED
      BY <1>7
  <1>9. MaxDollarDrawdown(trades) = chosen[1..n].worst
    BY <1>1 DEF MaxDollarDrawdown, FoldLeft, MapThenFoldSet, CurveStep, FlatCurve
  <1>10. Follows(chosen, g, FlatCurve, Curves, n)
    <2> HIDE DEF chosen, g
    <2>1. \A s \in SUBSET (1..n) :
              chosen[s] = IF s = {} THEN FlatCurve
                          ELSE CurveStep(chosen[s \ {Max(s)}], trades[Max(s)])
      BY <1>8
    <2> QED
      BY <1>4, <1>6, <2>1 DEF Follows
  <1>11. \A k \in 1..n : st[k] = CurveStep(st[k - 1], trades[k])
    <2>1. \A k \in 1..n : k - 1 \in 0..n
      OBVIOUS
    <2> HIDE DEF g
    <2> QED
      BY <1>4, <1>5, <2>1 DEF AreStates
  <1> HIDE DEF chosen, g
  <1> QED
    BY <1>5, <1>9, <1>10, <1>11 DEF AreStates

(* The deepest fall below the running peak is the deepest fall between two  *)
(* moments.                                                                *)
LEMMA DrawdownIsDeepestFall ==
    ASSUME NEW trades \in Seq(AnalyzedTrade), NEW n \in Nat, n = Len(trades)
    PROVE  /\ MaxDollarDrawdown(trades) \in Int
           /\ \A i, j \in 0..n : i <= j =>
                  BalanceOf(trades, i) - BalanceOf(trades, j)
                      <= MaxDollarDrawdown(trades)
           /\ \E i, j \in 0..n :
                  /\ i <= j
                  /\ BalanceOf(trades, i) - BalanceOf(trades, j)
                         = MaxDollarDrawdown(trades)
  <1>1. PICK st \in [0..n -> Curves] :
            /\ st[0] = FlatCurve
            /\ \A k \in 1..n : st[k] = CurveStep(st[k - 1], trades[k])
            /\ MaxDollarDrawdown(trades) = st[n].worst
    BY CurveStates
  <1>2. PICK b \in [0..n -> Int] : b = [k \in 0..n |-> BalanceOf(trades, k)]
    BY BalanceMoves
  <1>3. b[0] = 0 /\ \A k \in 1..n : b[k] = b[k - 1] + trades[k].pnl
    BY <1>2, BalanceMoves
  <1> DEFINE Shows(k) ==
                 /\ st[k].level = b[k]
                 /\ \A i \in 0..k : b[i] <= st[k].peak
                 /\ \E i \in 0..k : b[i] = st[k].peak
                 /\ \A i, j \in 0..k : i <= j => b[i] - b[j] <= st[k].worst
                 /\ \E i, j \in 0..k : i <= j /\ b[i] - b[j] = st[k].worst
             P == {k \in 0..n : Shows(k)}
  <1>4. 0 \in P
    <2>1. 0 \in 0..0 /\ \A i \in 0..0 : i = 0
      OBVIOUS
    <2> QED
      BY <1>1, <1>3, <2>1 DEF FlatCurve
  <1>5. ASSUME NEW k \in 0..(n - 1), k \in P
        PROVE  k + 1 \in P
    <2>1. k \in 0..n /\ k + 1 \in 0..n /\ k + 1 \in 1..n /\ (k + 1) - 1 = k
      OBVIOUS
    <2>2. Shows(k)
      BY <1>5
    <2>3. PICK l, p, w \in Int :
              l = st[k].level /\ p = st[k].peak /\ w = st[k].worst
      BY <2>1 DEF Curves
    <2>4. trades[k + 1].pnl \in Int
      BY <2>1, TradeNumbers
    <2>5. PICK e, q, v \in Int :
              /\ e = b[k + 1] /\ q = AtLeast(p, e) /\ v = AtLeast(w, q - e)
      <3>1. PICK e \in Int : e = b[k + 1]
        BY <2>1
      <3>2. PICK q \in Int : q = AtLeast(p, e)
        BY DEF AtLeast
      <3>3. PICK v \in Int : v = AtLeast(w, q - e)
        BY DEF AtLeast
      <3> QED
        BY <3>1, <3>2, <3>3
    <2>6. st[k + 1].level = e /\ st[k + 1].peak = q /\ st[k + 1].worst = v
      <3>1. e = l + trades[k + 1].pnl
        BY <1>3, <2>1, <2>2, <2>3, <2>5
      <3>2. st[k + 1] = CurveStep(st[k], trades[k + 1])
        BY <1>1, <2>1
      <3> QED
        BY <2>3, <2>5, <3>1, <3>2 DEF CurveStep
    <2>7. \A i \in 0..(k + 1) : i \in 0..k \/ i = k + 1
      OBVIOUS
    <2>8. 0..k \subseteq 0..(k + 1) /\ k + 1 \in 0..(k + 1) /\ 0..k \subseteq 0..n
      OBVIOUS
    <2>9. \A i \in 0..k : b[i] \in Int /\ b[i] <= p
      BY <2>2, <2>3, <2>8
    <2>10. (\A i \in 0..(k + 1) : b[i] <= q) /\ \E i \in 0..(k + 1) : b[i] = q
      <3>1. \E i \in 0..k : b[i] = p
        BY <2>2, <2>3
      <3> QED
        BY <2>5, <2>7, <2>8, <2>9, <3>1 DEF AtLeast
    <2>11. ASSUME NEW i \in 0..(k + 1), NEW j \in 0..(k + 1), i <= j
           PROVE  b[i] - b[j] <= v
      <3>1. CASE j = k + 1
        <4>1. b[i] \in Int /\ b[i] <= q
          BY <2>5, <2>7, <2>9, <2>10
        <4> QED
          BY <2>5, <3>1, <4>1 DEF AtLeast
      <3>2. CASE j # k + 1
        <4>1. i \in 0..k /\ j \in 0..k
          BY <2>7, <2>11, <3>2
        <4>2. b[i] - b[j] <= w
          BY <2>2, <2>3, <2>11, <4>1
        <4>3. b[i] \in Int /\ b[j] \in Int
          BY <2>9, <4>1
        <4> QED
          BY <2>5, <4>2, <4>3 DEF AtLeast
      <3> QED
        BY <3>1, <3>2
    <2>12. \E i, j \in 0..(k + 1) : i <= j /\ b[i] - b[j] = v
      <3>1. CASE v = w
        <4>1. PICK i, j \in 0..k : i <= j /\ b[i] - b[j] = w
          BY <2>2, <2>3
        <4> QED
          BY <2>8, <3>1, <4>1
      <3>2. CASE v = q - e
        <4>1. PICK i \in 0..(k + 1) : b[i] = q
          BY <2>10
        <4>2. i <= k + 1
          OBVIOUS
        <4> QED
          BY <2>5, <2>8, <3>2, <4>1, <4>2
      <3> QED
        BY <2>5, <3>1, <3>2 DEF AtLeast
    <2>13. Shows(k + 1)
      BY <2>5, <2>6, <2>10, <2>11, <2>12
    <2> QED
      BY <2>1, <2>13
  <1>6. Shows(n)
    <2>1. n \in 0..n
      OBVIOUS
    <2>2. n \in P
      <3> HIDE DEF P
      <3> QED
        BY <1>4, <1>5, <2>1, AllReached
    <2> QED
      BY <2>2
  <1>7. MaxDollarDrawdown(trades) \in Int
    <2>1. n \in 0..n
      OBVIOUS
    <2> QED
      BY <1>1, <2>1 DEF Curves
  <1> QED
    BY <1>1, <1>2, <1>6, <1>7
-----------------------------------------------------------------------------
(* The losing streak.                                                       *)

Streaks == [current: Nat, longest: Nat]

NoStreak == [current |-> 0, longest |-> 0]

StreakStep(streak, trade) ==
    LET current == IF WasWin(trade) THEN 0 ELSE streak.current + 1
    IN  [current |-> current, longest |-> AtLeast(streak.longest, current)]

LEMMA StreakStates ==
    ASSUME NEW trades \in Seq(AnalyzedTrade), NEW n \in Nat, n = Len(trades)
    PROVE  \E st \in [0..n -> Streaks] :
              /\ st[0] = NoStreak
              /\ \A k \in 1..n : st[k] = StreakStep(st[k - 1], trades[k])
              /\ MaxConsecutiveLossesOf(trades) = st[n].longest
  <1> DEFINE g == [kc \in (1..n) \X Streaks |-> StreakStep(kc[2], trades[kc[1]])]
             Is(it) == it = [s \in SUBSET (1..n) |->
                 IF s = {} THEN NoStreak
                 ELSE StreakStep(it[s \ {Max(s)}], trades[Max(s)])]
             chosen == CHOOSE it : Is(it)
  <1>1. DOMAIN trades = 1..n
    BY TradeNumbers
  <1>2. \A c \in Streaks, k \in 1..n : StreakStep(c, trades[k]) \in Streaks
    BY DEF Streaks, StreakStep, AtLeast
  <1>3. g \in [(1..n) \X Streaks -> Streaks] /\ NoStreak \in Streaks
    BY <1>2 DEF Streaks, NoStreak
  <1>4. \A k \in 1..n, c \in Streaks : g[<<k, c>>] = StreakStep(c, trades[k])
    OBVIOUS
  <1>5. PICK st \in [0..n -> Streaks] : AreStates(st, g, NoStreak, Streaks, n)
    <2> HIDE DEF g
    <2> QED
      BY <1>3, StatesOfFold
  <1>6. \A s \in SUBSET (1..n) :
            s # {} => Max(s) \in 1..n /\ s \ {Max(s)} \in SUBSET (1..n)
    BY MaxIsElement
  <1>7. \E it : Is(it)
    <2>1. PICK it : /\ Solution(it, g, NoStreak, n)
                    /\ \A s \in SUBSET (1..n) : it[s] \in Streaks
      <3> HIDE DEF g
      <3> QED
        BY <1>5 DEF AreStates
    <2> HIDE DEF g
    <2>2. it = [s \in SUBSET (1..n) |->
                   IF s = {} THEN NoStreak ELSE g[<<Max(s), it[s \ {Max(s)}]>>]]
      BY <2>1 DEF Solution
    <2>3. \A s \in SUBSET (1..n) :
              it[s] = IF s = {} THEN NoStreak
                      ELSE StreakStep(it[s \ {Max(s)}], trades[Max(s)])
      BY <1>4, <1>6, <2>1, <2>2
    <2>4. Is(it)
      BY <2>2, <2>3
    <2> QED
      BY <2>4
  <1>8. Is(chosen)
    <2> HIDE DEF Is
    <2> QED
      BY <1>7
  <1>9. MaxConsecutiveLossesOf(trades) = chosen[1..n].longest
    BY <1>1 DEF MaxConsecutiveLossesOf, FoldLeft, MapThenFoldSet, StreakStep, NoStreak
  <1>10. Follows(chosen, g, NoStreak, Streaks, n)
    <2> HIDE DEF chosen, g
    <2>1. \A s \in SUBSET (1..n) :
              chosen[s] = IF s = {} THEN NoStreak
                          ELSE StreakStep(chosen[s \ {Max(s)}], trades[Max(s)])
      BY <1>8
    <2> QED
      BY <1>4, <1>6, <2>1 DEF Follows
  <1>11. \A k \in 1..n : st[k] = StreakStep(st[k - 1], trades[k])
    <2>1. \A k \in 1..n : k - 1 \in 0..n
      OBVIOUS
    <2> HIDE DEF g
    <2> QED
      BY <1>4, <1>5, <2>1 DEF AreStates
  <1> HIDE DEF chosen, g
  <1> QED
    BY <1>5, <1>9, <1>10, <1>11 DEF AreStates

LostFrom(trades, from, to) == \A k \in from..to : ~WasWin(trades[k])

(* The longest streak counted is the longest interval without a win.        *)
LEMMA StreakIsLongestInterval ==
    ASSUME NEW trades \in Seq(AnalyzedTrade), NEW n \in Nat, n = Len(trades)
    PROVE  /\ \A i, j \in 0..n : i <= j /\ LostFrom(trades, i + 1, j) =>
                  j - i <= MaxConsecutiveLossesOf(trades)
           /\ \E i, j \in 0..n :
                  /\ i <= j /\ j - i = MaxConsecutiveLossesOf(trades)
                  /\ LostFrom(trades, i + 1, j)
  <1>1. PICK st \in [0..n -> Streaks] :
            /\ st[0] = NoStreak
            /\ \A k \in 1..n : st[k] = StreakStep(st[k - 1], trades[k])
            /\ MaxConsecutiveLossesOf(trades) = st[n].longest
    BY StreakStates
  <1> DEFINE Shows(k) ==
                 /\ st[k].current <= k
                 /\ LostFrom(trades, k - st[k].current + 1, k)
                 /\ st[k].current = k \/ WasWin(trades[k - st[k].current])
                 /\ \A i, j \in 0..k : i <= j /\ LostFrom(trades, i + 1, j) =>
                        j - i <= st[k].longest
                 /\ \E i, j \in 0..k :
                        /\ i <= j /\ j - i = st[k].longest
                        /\ LostFrom(trades, i + 1, j)
             P == {k \in 0..n : Shows(k)}
  <1>2. 0 \in P
    <2>1. 0 \in 0..0 /\ (\A i \in 0..0 : i = 0) /\ LostFrom(trades, 0 + 1, 0)
      BY DEF LostFrom
    <2>2. st[0].current = 0 /\ st[0].longest = 0
      BY <1>1 DEF NoStreak
    <2>3. \E i, j \in 0..0 : /\ i <= j /\ j - i = st[0].longest
                             /\ LostFrom(trades, i + 1, j)
      BY <2>1, <2>2
    <2>4. \A i, j \in 0..0 : i <= j /\ LostFrom(trades, i + 1, j) =>
              j - i <= st[0].longest
      BY <2>1, <2>2
    <2>5. 0 - st[0].current + 1 = 0 + 1
      BY <2>2
    <2>6. Shows(0)
      BY <2>1, <2>2, <2>3, <2>4, <2>5
    <2> HIDE DEF Shows
    <2> QED
      BY <2>6
  <1>3. ASSUME NEW k \in 0..(n - 1), k \in P
        PROVE  k + 1 \in P
    <2>1. k \in 0..n /\ k + 1 \in 0..n /\ k + 1 \in 1..n /\ (k + 1) - 1 = k
      OBVIOUS
    <2>2. Shows(k)
      BY <1>3
    <2>3. PICK c, m \in Nat : c = st[k].current /\ m = st[k].longest
      BY <2>1 DEF Streaks
    <2>4. PICK d \in Nat : d = IF WasWin(trades[k + 1]) THEN 0 ELSE c + 1
      OBVIOUS
    <2>5. PICK w \in Nat : w = AtLeast(m, d)
      BY DEF AtLeast
    <2>6. st[k + 1].current = d /\ st[k + 1].longest = w
      <3>1. st[k + 1] = StreakStep(st[k], trades[k + 1])
        BY <1>1, <2>1
      <3>2. StreakStep(st[k], trades[k + 1]) = [current |-> d, longest |-> w]
        BY <2>3, <2>4, <2>5, Zenon DEF StreakStep
      <3> QED
        BY <3>1, <3>2
    <2>7. \A i \in 0..(k + 1) : i \in 0..k \/ i = k + 1
      OBVIOUS
    <2>8. 0..k \subseteq 0..(k + 1) /\ k + 1 \in 0..(k + 1)
      OBVIOUS
    <2>9. /\ d <= k + 1 /\ LostFrom(trades, k + 1 - d + 1, k + 1)
          /\ d = k + 1 \/ WasWin(trades[k + 1 - d])
      <3>1. c <= k /\ LostFrom(trades, k - c + 1, k)
        BY <2>2, <2>3
      <3>2. c = k \/ WasWin(trades[k - c])
        BY <2>2, <2>3
      <3>3. CASE WasWin(trades[k + 1])
        <4>1. d = 0 /\ k + 1 - d = k + 1
          BY <2>4, <3>3
        <4> QED
          BY <3>3, <4>1 DEF LostFrom
      <3>4. CASE ~WasWin(trades[k + 1])
        <4>1. d = c + 1 /\ k + 1 - d = k - c
          BY <2>4, <3>4
        <4>2. \A i \in (k - c + 1)..(k + 1) : i \in (k - c + 1)..k \/ i = k + 1
          OBVIOUS
        <4> QED
          BY <3>1, <3>2, <3>4, <4>1, <4>2 DEF LostFrom
      <3> QED
        BY <3>3, <3>4
    <2>10. ASSUME NEW i \in 0..(k + 1), NEW j \in 0..(k + 1), i <= j,
                  LostFrom(trades, i + 1, j)
           PROVE  j - i <= w
      <3>1. CASE j = k + 1
        <4>1. j - i <= d
          <5> SUFFICES ASSUME i < k + 1 - d PROVE FALSE
            BY <3>1
          <5>1. k + 1 - d \in (i + 1)..j /\ d # k + 1
            BY <3>1
          <5>2. WasWin(trades[k + 1 - d])
            BY <2>9, <5>1
          <5> QED
            BY <2>10, <5>1, <5>2 DEF LostFrom
        <4> QED
          BY <2>5, <4>1 DEF AtLeast
      <3>2. CASE j # k + 1
        <4>1. i \in 0..k /\ j \in 0..k
          BY <2>7, <2>10, <3>2
        <4>2. j - i <= m
          BY <2>2, <2>3, <2>10, <4>1
        <4> QED
          BY <2>5, <4>2 DEF AtLeast
      <3> QED
        BY <3>1, <3>2
    <2>11. \E i, j \in 0..(k + 1) :
               i <= j /\ j - i = w /\ LostFrom(trades, i + 1, j)
      <3>1. CASE w = m
        <4>1. PICK i, j \in 0..k :
                  i <= j /\ j - i = m /\ LostFrom(trades, i + 1, j)
          BY <2>2, <2>3
        <4> QED
          BY <2>8, <3>1, <4>1
      <3>2. CASE w = d
        <4>1. PICK i \in 0..(k + 1) : i = k + 1 - d
          BY <2>9
        <4>2. i <= k + 1 /\ (k + 1) - i = d /\ LostFrom(trades, i + 1, k + 1)
          BY <2>9, <4>1
        <4> QED
          BY <2>8, <3>2, <4>2
      <3> QED
        BY <2>5, <3>1, <3>2 DEF AtLeast
    <2>12. Shows(k + 1)
      BY <2>6, <2>9, <2>10, <2>11
    <2> QED
      BY <2>1, <2>12
  <1>4. Shows(n)
    <2>1. n \in 0..n
      OBVIOUS
    <2>2. n \in P
      <3> HIDE DEF P
      <3> QED
        BY <1>2, <1>3, <2>1, AllReached
    <2> QED
      BY <2>2
  <1> QED
    BY <1>1, <1>4

-----------------------------------------------------------------------------
(* The compounded curve.                                                    *)

Compounds == [level: Int, peak: Nat \ {0}, worst: Int]

UnitCurve == [level |-> Scale, peak |-> Scale, worst |-> 0]

CompoundStep(curve, trade) ==
    LET level == IF trade.stake > 0
                 THEN (curve.level * (trade.stake + trade.pnl)) \div trade.stake
                 ELSE curve.level
        peak == AtLeast(curve.peak, level)
    IN  [level |-> level, peak |-> peak,
         worst |-> AtLeast(curve.worst, ((peak - level) * Scale) \div peak)]

LEMMA CompoundStates ==
    ASSUME NEW trades \in Seq(AnalyzedTrade), NEW n \in Nat, n = Len(trades)
    PROVE  \E st \in [0..n -> Compounds] :
              /\ st[0] = UnitCurve
              /\ \A k \in 1..n : st[k] = CompoundStep(st[k - 1], trades[k])
              /\ Compounded(trades) = st[n]
  <1> DEFINE g == [kc \in (1..n) \X Compounds |-> CompoundStep(kc[2], trades[kc[1]])]
             Is(it) == it = [s \in SUBSET (1..n) |->
                 IF s = {} THEN UnitCurve
                 ELSE CompoundStep(it[s \ {Max(s)}], trades[Max(s)])]
             chosen == CHOOSE it : Is(it)
  <1>1. /\ DOMAIN trades = 1..n
        /\ \A k \in 1..n : trades[k].pnl \in Int /\ trades[k].stake \in Nat
    BY TradeNumbers
  <1>2. \A c \in Compounds, k \in 1..n : CompoundStep(c, trades[k]) \in Compounds
    <2> SUFFICES ASSUME NEW c \in Compounds, NEW k \in 1..n
                 PROVE  CompoundStep(c, trades[k]) \in Compounds
      OBVIOUS
    <2> DEFINE level == IF trades[k].stake > 0
                        THEN (c.level * (trades[k].stake + trades[k].pnl))
                                \div trades[k].stake
                        ELSE c.level
    <2>1. c.level \in Int /\ c.peak \in Nat \ {0} /\ c.worst \in Int
      BY DEF Compounds
    <2>2. level \in Int
      BY <1>1, <2>1
    <2>3. PICK l \in Int : l = level
      BY <2>2
    <2>4. PICK p \in Nat \ {0} : p = AtLeast(c.peak, l)
      BY <2>1 DEF AtLeast
    <2>5. PICK d \in Int : d = ((p - l) * Scale) \div p
      BY ScaleAssumption
    <2>6. PICK w \in Int : w = AtLeast(c.worst, d)
      BY <2>1 DEF AtLeast
    <2>7. CompoundStep(c, trades[k]) = [level |-> l, peak |-> p, worst |-> w]
      BY <2>3, <2>4, <2>5, <2>6 DEF CompoundStep
    <2> QED
      BY <2>7 DEF Compounds
  <1>3. g \in [(1..n) \X Compounds -> Compounds] /\ UnitCurve \in Compounds
    BY <1>2, ScaleAssumption DEF Compounds, UnitCurve
  <1>4. \A k \in 1..n, c \in Compounds : g[<<k, c>>] = CompoundStep(c, trades[k])
    OBVIOUS
  <1>5. PICK st \in [0..n -> Compounds] : AreStates(st, g, UnitCurve, Compounds, n)
    <2> HIDE DEF g
    <2> QED
      BY <1>3, StatesOfFold
  <1>6. \A s \in SUBSET (1..n) :
            s # {} => Max(s) \in 1..n /\ s \ {Max(s)} \in SUBSET (1..n)
    BY MaxIsElement
  <1>7. \E it : Is(it)
    <2>1. PICK it : /\ Solution(it, g, UnitCurve, n)
                    /\ \A s \in SUBSET (1..n) : it[s] \in Compounds
      <3> HIDE DEF g
      <3> QED
        BY <1>5 DEF AreStates
    <2> HIDE DEF g
    <2>2. it = [s \in SUBSET (1..n) |->
                   IF s = {} THEN UnitCurve ELSE g[<<Max(s), it[s \ {Max(s)}]>>]]
      BY <2>1 DEF Solution
    <2>3. \A s \in SUBSET (1..n) :
              it[s] = IF s = {} THEN UnitCurve
                      ELSE CompoundStep(it[s \ {Max(s)}], trades[Max(s)])
      BY <1>4, <1>6, <2>1, <2>2
    <2>4. Is(it)
      BY <2>2, <2>3
    <2> QED
      BY <2>4
  <1>8. Is(chosen)
    <2> HIDE DEF Is
    <2> QED
      BY <1>7
  <1>9. Compounded(trades) = chosen[1..n]
    BY <1>1 DEF Compounded, FoldLeft, MapThenFoldSet, CompoundStep, UnitCurve
  <1>10. Follows(chosen, g, UnitCurve, Compounds, n)
    <2> HIDE DEF chosen, g
    <2>1. \A s \in SUBSET (1..n) :
              chosen[s] = IF s = {} THEN UnitCurve
                          ELSE CompoundStep(chosen[s \ {Max(s)}], trades[Max(s)])
      BY <1>8
    <2> QED
      BY <1>4, <1>6, <2>1 DEF Follows
  <1>11. \A k \in 1..n : st[k] = CompoundStep(st[k - 1], trades[k])
    <2>1. \A k \in 1..n : k - 1 \in 0..n
      OBVIOUS
    <2> HIDE DEF g
    <2> QED
      BY <1>4, <1>5, <2>1 DEF AreStates
  <1> HIDE DEF chosen, g
  <1> QED
    BY <1>5, <1>9, <1>10, <1>11 DEF AreStates
(* What the contracts traded here end with: all of the stake lost, or some  *)
(* payout won.                                                             *)
EndsLikeOption(trade) ==
    /\ trade.stake > 0
    /\ trade.pnl = -trade.stake \/ trade.pnl >= 0

LEMMA ExactQuotient ==
    ASSUME NEW a \in Nat \ {0}, NEW b \in Int
    PROVE  (a * b) \div a = b
  <1>1. PICK x, q \in Int, r \in 0..(a - 1) :
            x = a * b /\ q = x \div a /\ x = q * a + r
    <2>1. PICK x \in Int : x = a * b
      OBVIOUS
    <2>2. /\ x \div a \in Int /\ x % a \in 0..(a - 1)
          /\ x = (x \div a) * a + (x % a)
      OBVIOUS
    <2> QED
      BY <2>1, <2>2
  <1>2. (b - q) * a = r
    <2>1. PICK y \in Int : y = q * a
      OBVIOUS
    <2>2. (b - q) * a = x - y
      BY <1>1, <2>1
    <2> QED
      BY <1>1, <2>1, <2>2
  <1>3. b - q = 0
    <2>1. b - q \in Int /\ -a < (b - q) * a /\ (b - q) * a < a
      BY <1>2
    <2> QED
      BY <2>1, SmallMultiple
  <1> QED
    BY <1>1, <1>3

LEMMA GrownQuotient ==
    ASSUME NEW s \in Nat \ {0}, NEW p \in Nat, NEW g \in Nat
    PROVE  (p * (s + g)) \div s >= p
  <1>1. PICK x \in Int : x = p * g /\ x >= 0
    OBVIOUS
  <1>2. PICK y \in Int : y = p * s
    OBVIOUS
  <1>3. p * (s + g) = y + x
    BY <1>1, <1>2
  <1>4. PICK q \in Int : q = (y + x) \div s
    OBVIOUS
  <1>5. y + x < q * s + s
    BY <1>4
  <1>6. PICK z \in Int : z = q * s
    OBVIOUS
  <1>7. y < z + s
    BY <1>1, <1>5, <1>6
  <1>8. ~(q < p)
    <2> SUFFICES ASSUME q < p PROVE FALSE
      OBVIOUS
    <2>1. PICK d \in Nat : p = q + 1 + d
      <3>1. p - q - 1 \in Nat /\ p = q + 1 + (p - q - 1)
        OBVIOUS
      <3> QED
        BY <3>1
    <2>2. (q + 1 + d) * s = q * s + s + d * s /\ d * s >= 0 /\ d * s \in Int
      OBVIOUS
    <2> QED
      BY <1>2, <1>6, <1>7, <2>1, <2>2
  <1> QED
    BY <1>3, <1>4, <1>8

(* The compounded curve falls to 0 with the first stake lost and by nothing *)
(* else.                                                                   *)
LEMMA WholeDrawdownIsLostStake ==
    ASSUME NEW trades \in Seq(AnalyzedTrade), NEW n \in Nat, n = Len(trades),
           \A k \in 1..n : EndsLikeOption(trades[k])
    PROVE  Compounded(trades).worst = Scale
             <=> \E k \in 1..n : trades[k].pnl = -trades[k].stake
  <1>1. PICK st \in [0..n -> Compounds] :
            /\ st[0] = UnitCurve
            /\ \A k \in 1..n : st[k] = CompoundStep(st[k - 1], trades[k])
            /\ Compounded(trades) = st[n]
    BY CompoundStates
  <1> DEFINE Lost(j) == trades[j].pnl = -trades[j].stake
             Shows(k) ==
                 \/ /\ \E j \in 1..k : Lost(j)
                    /\ st[k].level = 0 /\ st[k].worst = Scale
                 \/ /\ \A j \in 1..k : ~Lost(j)
                    /\ st[k].level = st[k].peak /\ st[k].worst = 0
             P == {k \in 0..n : Shows(k)}
  <1>2. 0 \in P
    BY <1>1 DEF UnitCurve
  <1>3. ASSUME NEW k \in 0..(n - 1), k \in P
        PROVE  k + 1 \in P
    <2>1. k \in 0..n /\ k + 1 \in 0..n /\ k + 1 \in 1..n /\ (k + 1) - 1 = k
      OBVIOUS
    <2>2. Shows(k)
      BY <1>3
    <2>3. PICK l \in Int, p \in Nat \ {0}, w \in Int :
              l = st[k].level /\ p = st[k].peak /\ w = st[k].worst
      BY <2>1 DEF Compounds
    <2>4. PICK s \in Nat \ {0}, g \in Int :
              /\ s = trades[k + 1].stake /\ g = trades[k + 1].pnl
              /\ g = -s \/ g >= 0
      <3>1. trades[k + 1].stake \in Nat /\ trades[k + 1].pnl \in Int
        BY <2>1, TradeNumbers
      <3>2. EndsLikeOption(trades[k + 1])
        BY <2>1
      <3> QED
        BY <3>1, <3>2 DEF EndsLikeOption
    <2>5. PICK e \in Int, q \in Nat \ {0}, d \in Int :
              /\ e = (l * (s + g)) \div s /\ q = AtLeast(p, e)
              /\ d = ((q - e) * Scale) \div q
      <3>1. PICK e \in Int : e = (l * (s + g)) \div s
        OBVIOUS
      <3>2. PICK q \in Nat \ {0} : q = AtLeast(p, e)
        BY DEF AtLeast
      <3>3. PICK d \in Int : d = ((q - e) * Scale) \div q
        BY ScaleAssumption
      <3> QED
        BY <3>1, <3>2, <3>3
    <2>6. st[k + 1] = [level |-> e, peak |-> q, worst |-> AtLeast(w, d)]
      <3>1. st[k + 1] = CompoundStep(st[k], trades[k + 1])
        BY <1>1, <2>1
      <3>2. trades[k + 1].stake > 0
        BY <2>4
      <3>3. e = (st[k].level * (trades[k + 1].stake + trades[k + 1].pnl))
                    \div trades[k + 1].stake
        BY <2>3, <2>4, <2>5
      <3> QED
        BY <2>3, <2>5, <3>1, <3>2, <3>3 DEF CompoundStep
    <2>7. \A j \in 1..(k + 1) : j \in 1..k \/ j = k + 1
      OBVIOUS
    <2>8. 1..k \subseteq 1..(k + 1) /\ k + 1 \in 1..(k + 1)
      OBVIOUS
    <2>9. Lost(k + 1) <=> g = -s
      BY <2>4
    <2>10. ASSUME e = 0, q = p
           PROVE  d = Scale
      <3>1. (q - e) * Scale = p * Scale
        BY <2>10, ScaleAssumption
      <3> QED
        BY <2>5, <2>10, <3>1, ExactQuotient, ScaleAssumption
    <2>11. CASE l = 0
      <3>1. e = 0
        <4>1. l * (s + g) = s * 0
          BY <2>11
        <4> QED
          BY <2>5, <4>1, ExactQuotient
      <3>2. q = p
        BY <2>5, <3>1 DEF AtLeast
      <3>3. d = Scale
        BY <2>10, <3>1, <3>2
      <3>4. w = Scale /\ \E j \in 1..k : Lost(j)
        BY <2>2, <2>3, <2>11
      <3>5. AtLeast(w, d) = Scale
        BY <3>3, <3>4, ScaleAssumption DEF AtLeast
      <3>6. \E j \in 1..(k + 1) : Lost(j)
        BY <2>8, <3>4
      <3>7. Shows(k + 1)
        BY <2>6, <3>1, <3>5, <3>6
      <3> QED
        BY <2>1, <3>7
    <2>12. CASE l # 0
      <3>1. l = p /\ w = 0 /\ \A j \in 1..k : ~Lost(j)
        BY <2>2, <2>3, <2>12
      <3>2. CASE g = -s
        <4>1. e = 0
          <5>1. s + g = 0 /\ l * 0 = s * 0
            BY <3>2
          <5> QED
            BY <2>5, <5>1, ExactQuotient
        <4>2. q = p
          BY <2>5, <4>1 DEF AtLeast
        <4>3. AtLeast(w, d) = Scale
          BY <2>10, <3>1, <4>1, <4>2, ScaleAssumption DEF AtLeast
        <4>4. \E j \in 1..(k + 1) : Lost(j)
          BY <2>8, <2>9, <3>2
        <4>5. Shows(k + 1)
          BY <2>6, <4>1, <4>3, <4>4
        <4> QED
          BY <2>1, <4>5
      <3>3. CASE g >= 0
        <4>1. e >= p
          <5>1. e = (p * (s + g)) \div s /\ g \in Nat /\ p \in Nat
            BY <2>5, <3>1, <3>3
          <5>2. (p * (s + g)) \div s >= p
            BY <5>1, GrownQuotient
          <5> QED
            BY <5>1, <5>2
        <4>2. q = e
          BY <2>5, <4>1 DEF AtLeast
        <4>3. d = 0
          <5>1. (q - e) * Scale = q * 0
            BY <4>2, ScaleAssumption
          <5> QED
            BY <2>5, <5>1, ExactQuotient
        <4>4. AtLeast(w, d) = 0
          BY <3>1, <4>3 DEF AtLeast
        <4>5. \A j \in 1..(k + 1) : ~Lost(j)
          <5>1. g # -s
            BY <3>3
          <5> QED
            BY <2>7, <2>9, <3>1, <5>1
        <4>6. Shows(k + 1)
          BY <2>6, <4>2, <4>4, <4>5
        <4> QED
          BY <2>1, <4>6
      <3> QED
        BY <2>4, <3>2, <3>3
    <2> QED
      BY <2>11, <2>12
  <1>4. Shows(n)
    <2>1. n \in 0..n
      OBVIOUS
    <2>2. n \in P
      <3> HIDE DEF P
      <3> QED
        BY <1>2, <1>3, <2>1, AllReached
    <2> QED
      BY <2>2
  <1> QED
    BY <1>1, <1>4, ScaleAssumption

-----------------------------------------------------------------------------
(* Calibration.                                                             *)

Members(trades, bin) == {k \in DOMAIN trades : InBin(trades[k].p, bin)}

FilledBins(trades) ==
    {bin \in 1..CalibrationBins : Members(trades, bin) # {}}

Predictions(trades) == [k \in DOMAIN trades |-> trades[k].p]
Outcomes(trades) == [k \in DOMAIN trades |-> Outcome(trades[k])]

LEMMA BinsAreSums ==
    ASSUME NEW trades
    PROVE  CalibrationBinsOf(trades) =
              [bin \in FilledBins(trades) |->
                  [n |-> Cardinality(Members(trades, bin)),
                   predicted |-> SumOver(Predictions(trades), Members(trades, bin)),
                   realized |-> SumOver(Outcomes(trades), Members(trades, bin))]]
  BY DEF CalibrationBinsOf, FilledBins, Members, Predictions, Outcomes, SumOver

(* Each probability falls in one bin.                                       *)
LEMMA OneBinEach ==
    ASSUME NEW p \in 0..Scale
    PROVE  /\ \E bin \in 1..CalibrationBins : InBin(p, bin)
           /\ \A a, b \in 1..CalibrationBins : InBin(p, a) /\ InBin(p, b) => a = b
  <1>1. PICK n \in Nat \ {0} : n = CalibrationBins
    BY AnalysisAssumption
  <1>2. PICK x \in Nat : x = p * n
    BY ScaleAssumption
  <1>3. x <= n * Scale
    <2>1. PICK d \in Nat : Scale = p + d
      <3>1. Scale - p \in Nat /\ Scale = p + (Scale - p)
        BY ScaleAssumption
      <3> QED
        BY <3>1
    <2>2. n * (p + d) = p * n + n * d /\ n * d \in Nat
      OBVIOUS
    <2> QED
      BY <1>2, <2>1, <2>2
  <1>4. \E bin \in 1..n : InBin(p, bin)
    <2>1. PICK q \in Int : q = x \div Scale
      BY ScaleAssumption
    <2>2. q * Scale <= x /\ x < q * Scale + Scale
      BY <2>1, ScaleAssumption
    <2>3. q \in Nat
      BY <2>1, ScaleAssumption
    <2>4. (q + 1) * Scale = q * Scale + Scale
      BY <2>3, ScaleAssumption
    <2>5. CASE q + 1 <= n
      <3>1. q + 1 \in 1..n /\ (q + 1) - 1 = q
        BY <2>3, <2>5
      <3>2. InBin(p, q + 1)
        BY <1>1, <1>2, <2>2, <2>4, <3>1 DEF InBin
      <3> QED
        BY <3>1, <3>2
    <2>6. CASE ~(q + 1 <= n)
      <3>1. (n - 1) * Scale <= x
        <4>1. PICK d \in Nat : q = (n - 1) + d
          <5>1. q - (n - 1) \in Nat /\ q = (n - 1) + (q - (n - 1))
            BY <2>3, <2>6
          <5> QED
            BY <5>1
        <4>2. ((n - 1) + d) * Scale = (n - 1) * Scale + d * Scale /\ d * Scale >= 0
          BY ScaleAssumption
        <4>3. (n - 1) * Scale \in Int /\ d * Scale \in Int
          BY ScaleAssumption
        <4> QED
          BY <2>2, <4>1, <4>2, <4>3
      <3>2. InBin(p, n)
        BY <1>1, <1>2, <1>3, <3>1 DEF InBin
      <3> QED
        BY <3>2
    <2> QED
      BY <2>5, <2>6
  <1>5. ASSUME NEW a \in 1..n, NEW b \in 1..n, a < b, InBin(p, a), InBin(p, b)
        PROVE  FALSE
    <2>1. a # n /\ x < a * Scale
      BY <1>1, <1>2, <1>5 DEF InBin
    <2>2. (b - 1) * Scale <= x
      BY <1>1, <1>2, <1>5 DEF InBin
    <2>3. PICK d \in Nat : b - 1 = a + d
      <3>1. b - 1 - a \in Nat /\ b - 1 = a + (b - 1 - a)
        BY <1>5
      <3> QED
        BY <3>1
    <2>4. /\ (a + d) * Scale = a * Scale + d * Scale /\ d * Scale >= 0
          /\ a * Scale \in Int /\ d * Scale \in Int
      BY ScaleAssumption
    <2> QED
      BY <2>1, <2>2, <2>3, <2>4
  <1>6. ASSUME NEW a \in 1..n, NEW b \in 1..n, InBin(p, a), InBin(p, b)
        PROVE  a = b
    <2>1. ~(a < b) /\ ~(b < a)
      BY <1>5, <1>6
    <2> QED
      BY <2>1
  <1> QED
    BY <1>1, <1>4, <1>6

(* The bins count every trade once, and their gaps bound that of the whole. *)
LEMMA BinsPartitionRecord ==
    ASSUME NEW trades \in Seq(AnalyzedTrade)
    PROVE  LET bins == CalibrationBinsOf(trades)
           IN  /\ FoldFunction(+, 0, [b \in DOMAIN bins |-> bins[b].n]) = Len(trades)
               /\ Magnitude(Total(LAMBDA t : t.p - Outcome(t), trades))
                      <= CalibrationError(bins)
  <1> DEFINE S == DOMAIN trades
             I == FilledBins(trades)
             In(b) == Members(trades, b)
             bins == CalibrationBinsOf(trades)
             h == [k \in S |-> CHOOSE b \in 1..CalibrationBins : InBin(trades[k].p, b)]
             part == [b \in I |-> In(b)]
             ones == [k \in S |-> 1]
             gaps == [k \in S |-> trades[k].p - Outcome(trades[k])]
             binGaps == [b \in I |-> SumOver(gaps, In(b))]
             bounds == [b \in I |-> Magnitude(bins[b].predicted - bins[b].realized)]
  <1>1. /\ Len(trades) \in Nat /\ S = 1..Len(trades) /\ IsFiniteSet(S)
        /\ \A k \in S : trades[k].p \in 0..Scale
    BY TradeNumbers
  <1>2. IsFiniteSet(I) /\ I \subseteq 1..CalibrationBins
    <2>1. IsFiniteSet(1..CalibrationBins) /\ I \subseteq 1..CalibrationBins
      BY AnalysisAssumption, FS_Interval DEF FilledBins
    <2> QED
      BY <2>1, FS_Subset
  <1>3. \A k \in S : h[k] \in 1..CalibrationBins /\ InBin(trades[k].p, h[k])
    BY <1>1, OneBinEach
  <1>4. /\ \A k \in S : h[k] \in I
        /\ \A b \in I : part[b] = In(b)
        /\ PartedBy(S, I, h, part)
    <2>1. \A k \in S : k \in In(h[k])
      BY <1>3 DEF Members
    <2>2. \A k \in S : h[k] \in I
      BY <1>3, <2>1 DEF FilledBins
    <2>3. ASSUME NEW b \in I, NEW k \in S
          PROVE  h[k] = b <=> k \in In(b)
      BY <1>1, <1>2, <1>3, OneBinEach DEF Members
    <2>4. \A b \in I : part[b] = In(b) /\ In(b) \subseteq S
      BY DEF Members
    <2> HIDE DEF S, h, In, I, part
    <2>5. \A b \in I : part[b] = {k \in S : h[k] = b}
      BY <2>3, <2>4
    <2> QED
      BY <2>2, <2>4, <2>5 DEF PartedBy
  <1>5. \A b \in I : In(b) \in SUBSET S /\ IsFiniteSet(In(b))
    BY <1>1, FS_Subset DEF Members
  <1>6. \A b \in I : /\ bins[b].n = Cardinality(In(b))
                     /\ bins[b].predicted = SumOver(Predictions(trades), In(b))
                     /\ bins[b].realized = SumOver(Outcomes(trades), In(b))
    BY BinsAreSums
  <1>7. DOMAIN bins = I
    BY BinsAreSums
  <1>8. FoldFunction(+, 0, [b \in DOMAIN bins |-> bins[b].n]) = Len(trades)
    <2> DEFINE sizes == [b \in I |-> bins[b].n]
    <2>1. SumsOfParts(ones, part, I, sizes)
      <3>1. ASSUME NEW b \in I
            PROVE  SumOver(ones, In(b)) = Cardinality(In(b))
        <4>1. \A k \in In(b) : ones[k] = 1
          BY <1>5
        <4> HIDE DEF ones, In
        <4> QED
          BY <1>5, <4>1, SumOverOnes
      <3>2. \A b \in I : sizes[b] = bins[b].n
        OBVIOUS
      <3> HIDE DEF S, I, In, h, ones, bins, part, sizes
      <3> QED
        BY <1>4, <1>6, <3>1, <3>2 DEF SumsOfParts
    <2>2. SumOver(ones, S) = Cardinality(S) /\ Cardinality(S) = Len(trades)
      <3>1. \A k \in S : ones[k] = 1
        OBVIOUS
      <3>2. Cardinality(1..Len(trades)) = Len(trades)
        <4>1. PICK n \in Nat : n = Len(trades)
          BY <1>1
        <4>2. Cardinality(1..n) = n
          <5> HIDE DEF S, I, In, bins, h, part, ones, gaps, binGaps, bounds, sizes
          <5>1. Cardinality(1..n) = IF 1 > n THEN 0 ELSE n - 1 + 1
            BY FS_Interval
          <5> QED
            BY <4>1, <5>1
        <4> QED
          BY <4>1, <4>2
      <3> HIDE DEF ones, S
      <3> QED
        BY <1>1, <3>1, <3>2, SumOverOnes
    <2>3. Numbers(ones, S)
      BY DEF Numbers
    <2>4. SumOver(ones, S) = SumOver(sizes, I)
      <3> HIDE DEF S, I, In, h, part, ones, sizes
      <3>1. IsFiniteSet(S) /\ \A k \in S : h[k] \in I
        BY <1>1, <1>4
      <3> QED
        BY <1>2, <1>4, <2>1, <2>3, <3>1, SumOverParts
    <2>5. FoldFunction(+, 0, [b \in DOMAIN bins |-> bins[b].n]) = SumOver(sizes, I)
      BY <1>7 DEF FoldFunction, SumOver
    <2> HIDE DEF S, I, ones, sizes, bins
    <2> QED
      BY <2>2, <2>4, <2>5
  <1>9. /\ Numbers(gaps, S) /\ Numbers(Predictions(trades), S)
        /\ Numbers(Outcomes(trades), S)
        /\ \A k \in S : gaps[k] = Predictions(trades)[k] - Outcomes(trades)[k]
    BY <1>1, ScaleAssumption DEF Numbers, Predictions, Outcomes, Outcome
  <1>10. ASSUME NEW b \in I
         PROVE  /\ binGaps[b] = bins[b].predicted - bins[b].realized
                /\ binGaps[b] \in Int
                /\ bounds[b] = Magnitude(binGaps[b])
    <2>1. /\ Numbers(gaps, In(b)) /\ Numbers(Predictions(trades), In(b))
          /\ Numbers(Outcomes(trades), In(b)) /\ IsFiniteSet(In(b))
          /\ \A k \in In(b) :
                 gaps[k] = Predictions(trades)[k] - Outcomes(trades)[k]
      BY <1>5, <1>9 DEF Numbers
    <2>2. /\ SumOver(gaps, In(b)) = SumOver(Predictions(trades), In(b))
                                        - SumOver(Outcomes(trades), In(b))
          /\ SumOver(gaps, In(b)) \in Int
      <3> HIDE DEF gaps, In
      <3> QED
        BY <2>1, SumOverDifference, SumOverType
    <2>3. binGaps[b] = SumOver(gaps, In(b))
      OBVIOUS
    <2>4. bounds[b] = Magnitude(bins[b].predicted - bins[b].realized)
      OBVIOUS
    <2> HIDE DEF gaps, binGaps, bounds, bins, In
    <2> QED
      BY <1>6, <2>2, <2>3, <2>4
  <1>11. SumOver(gaps, S) = SumOver(binGaps, I)
    <2>1. SumsOfParts(gaps, part, I, binGaps)
      <3>1. \A b \in I : binGaps[b] = SumOver(gaps, In(b))
        OBVIOUS
      <3> HIDE DEF S, I, In, h, part, gaps, binGaps
      <3> QED
        BY <1>4, <3>1 DEF SumsOfParts
    <2> HIDE DEF S, I, In, h, part, gaps, binGaps
    <2>2. IsFiniteSet(S) /\ (\A k \in S : h[k] \in I) /\ Numbers(gaps, S)
      BY <1>1, <1>4, <1>9
    <2> QED
      BY <1>2, <1>4, <2>1, <2>2, SumOverParts
  <1>12. /\ SumOver(binGaps, I) <= SumOver(bounds, I)
         /\ -SumOver(binGaps, I) <= SumOver(bounds, I)
    <2>1. \A b \in I : /\ binGaps[b] \in Int /\ bounds[b] \in Int
                       /\ binGaps[b] <= bounds[b] /\ -binGaps[b] <= bounds[b]
      <3> HIDE DEF binGaps, bounds, I
      <3> QED
        BY <1>10 DEF Magnitude, AtLeast
    <2>2. Numbers(binGaps, I) /\ Numbers(bounds, I)
      BY <2>1 DEF Numbers
    <2> HIDE DEF binGaps, bounds, I
    <2> QED
      BY <1>2, <2>1, <2>2, SumOverMagnitude
  <1>13. Total(LAMBDA t : t.p - Outcome(t), trades) = SumOver(gaps, S)
    BY DEF Total, FoldFunction, SumOver
  <1>14. CalibrationError(bins) = SumOver(bounds, I)
    BY <1>7 DEF CalibrationError, FoldFunction, SumOver
  <1>15. SumOver(gaps, S) \in Int
    <2> HIDE DEF gaps, S
    <2> QED
      BY <1>1, <1>9, SumOverType
  <1>16. Magnitude(SumOver(gaps, S)) <= SumOver(bounds, I)
    <2> HIDE DEF gaps, S, bounds, I, binGaps
    <2> QED
      BY <1>11, <1>12, <1>15 DEF Magnitude, AtLeast
  <1> HIDE DEF gaps, S, bounds, I, bins
  <1> QED
    BY <1>8, <1>13, <1>14, <1>16 DEF bins

-----------------------------------------------------------------------------
(* All the metrics.                                                         *)

LEMMA MetricsOfWhole ==
    ASSUME NEW trades \in Seq(AnalyzedTrade), NEW window \in Nat,
           window >= Len(trades)
    PROVE  /\ Metrics(trades, window) = Metrics(trades, Len(trades))
           /\ Metrics(trades, window).n = Len(trades)
           /\ Metrics(trades, window).maxDollarDrawdown = MaxDollarDrawdown(trades)
           /\ Metrics(trades, window).maxConsecutiveLosses
                  = MaxConsecutiveLossesOf(trades)
           /\ Metrics(trades, window).maxDrawdownPct = Compounded(trades).worst
           /\ Metrics(trades, window).bins = CalibrationBinsOf(trades)
           /\ Metrics(trades, window).calibrationError
                  = CalibrationError(CalibrationBinsOf(trades))
  <1>1. Len(trades) \in Nat
    BY TradeNumbers
  <1>2. Latest(trades, window) = trades /\ Latest(trades, Len(trades)) = trades
    BY <1>1 DEF Latest
  <1> QED
    BY <1>2 DEF Metrics

(* What compute_metrics folds over a record is what its metrics are defined *)
(* as, whatever the record: the deepest fall between two moments, the      *)
(* longest interval without a win, ruin exactly when a whole stake was     *)
(* lost, and bins that count every trade once; of trades that end like     *)
(* binary options, with the stake lost or a payout won.                    *)
THEOREM MetricsAreTheirDefinitions ==
    ASSUME NEW trades \in Seq(AnalyzedTrade),
           \A k \in DOMAIN trades : EndsLikeOption(trades[k])
    PROVE  MetricsMatchDefinitions(trades)
  <1> DEFINE m == Metrics(trades, Len(trades))
             balance == [k \in 0..Len(trades) |-> Balance(trades, k)]
             moments == {ij \in (0..Len(trades)) \X (0..Len(trades)) :
                            ij[1] <= ij[2]}
             bins == CalibrationBinsOf(trades)
  <1>1. PICK n \in Nat : n = Len(trades) /\ DOMAIN trades = 1..n
    BY TradeNumbers
  <1>2. /\ m.n = n /\ m.maxDollarDrawdown = MaxDollarDrawdown(trades)
        /\ m.maxConsecutiveLosses = MaxConsecutiveLossesOf(trades)
        /\ m.maxDrawdownPct = Compounded(trades).worst
        /\ m.bins = bins /\ m.calibrationError = CalibrationError(bins)
    BY <1>1, MetricsOfWhole
  <1>3. \A k \in 0..n : balance[k] = BalanceOf(trades, k)
    BY <1>1, BalanceMoves
  <1>4. \A ij \in moments : /\ ij[1] \in 0..n /\ ij[2] \in 0..n
                            /\ ij[1] <= ij[2]
    BY <1>1
  <1>5. \A i, j \in 0..n : i <= j =>
            /\ <<i, j>> \in moments
            /\ <<i, j>>[1] = i /\ <<i, j>>[2] = j
    BY <1>1
  <1> HIDE DEF m, balance, moments, bins
  <1>6. \A ij \in moments :
            balance[ij[1]] - balance[ij[2]] <= m.maxDollarDrawdown
    BY <1>1, <1>2, <1>3, <1>4, DrawdownIsDeepestFall
  <1>7. \E ij \in moments :
            balance[ij[1]] - balance[ij[2]] = m.maxDollarDrawdown
    <2>1. PICK i \in 0..n, j \in 0..n :
              /\ i <= j
              /\ BalanceOf(trades, i) - BalanceOf(trades, j)
                     = MaxDollarDrawdown(trades)
      BY <1>1, DrawdownIsDeepestFall
    <2>2. balance[<<i, j>>[1]] - balance[<<i, j>>[2]] = m.maxDollarDrawdown
      BY <1>2, <1>3, <1>5, <2>1
    <2> QED
      BY <1>5, <2>1, <2>2
  <1>8. \A ij \in moments :
            ij[1] < ij[2] /\ LostFrom(trades, ij[1] + 1, ij[2]) =>
                ij[2] - ij[1] <= m.maxConsecutiveLosses
    BY <1>1, <1>2, <1>4, StreakIsLongestInterval
  <1>9. \E ij \in moments :
            /\ ij[2] - ij[1] = m.maxConsecutiveLosses
            /\ LostFrom(trades, ij[1] + 1, ij[2])
    <2>1. PICK i \in 0..n, j \in 0..n :
              /\ i <= j /\ j - i = MaxConsecutiveLossesOf(trades)
              /\ LostFrom(trades, i + 1, j)
      BY <1>1, StreakIsLongestInterval
    <2>2. /\ <<i, j>>[2] - <<i, j>>[1] = m.maxConsecutiveLosses
          /\ LostFrom(trades, <<i, j>>[1] + 1, <<i, j>>[2])
      BY <1>2, <1>5, <2>1
    <2> QED
      BY <1>5, <2>1, <2>2
  <1>10. m.maxDrawdownPct = Scale
             <=> \E k \in DOMAIN trades : trades[k].pnl = -trades[k].stake
    BY <1>1, <1>2, WholeDrawdownIsLostStake
  <1>11. /\ FoldFunction(+, 0, [b \in DOMAIN m.bins |-> m.bins[b].n]) = m.n
         /\ Magnitude(Total(LAMBDA t : t.p - Outcome(t), trades))
                <= m.calibrationError
    BY <1>1, <1>2, BinsPartitionRecord DEF bins
  <1> QED
    BY <1>6, <1>7, <1>8, <1>9, <1>10, <1>11
    DEF MetricsMatchDefinitions, m, balance, moments, LostFrom
=============================================================================
