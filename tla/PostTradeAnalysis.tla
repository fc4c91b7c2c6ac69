------------------------- MODULE PostTradeAnalysis --------------------------
(***************************************************************************)
(* Level 8, the Post-Trade Analyzer (post_trade/analyzer.py): the metrics  *)
(* of a record of completed trades.  Ratios are pairs of numerator and     *)
(* denominator; the means and deviations behind Sharpe and Sortino are     *)
(* statistics over reals and left out.                                     *)
(***************************************************************************)
EXTENDS Fractions, SequencesExt

CONSTANT CalibrationBins    \* n_calibration_bins

ASSUME AnalysisAssumption == CalibrationBins \in Nat \ {0, 1}

(* A CompletedTrade, of which compute_metrics reads all but the epoch it    *)
(* was entered and left at.                                                *)
AnalyzedTrade == [epoch: Nat, stake: Nat, pnl: Int, p: 0..Scale]

WasWin(trade) == trade.pnl > 0
Outcome(trade) == IF WasWin(trade) THEN Scale ELSE 0

Total(Value(_), trades) ==
    FoldFunction(+, 0, [k \in DOMAIN trades |-> Value(trades[k])])

(* trades[-w:], or all of them.                                             *)
Latest(trades, window) ==
    IF window < Len(trades)
    THEN SubSeq(trades, Len(trades) - window + 1, Len(trades)) ELSE trades

NetPnl(trades) == Total(LAMBDA t : t.pnl, trades)
GrossWins(trades) == Total(LAMBDA t : AtLeast(0, t.pnl), trades)
GrossLosses(trades) == Total(LAMBDA t : AtLeast(0, -t.pnl), trades)

(* profit_factor, calmar_ratio and recovery_factor divide this way.         *)
Infinite == <<1, 0>>
Ratio(gain, loss) ==
    IF loss > 0 THEN <<gain, loss>> ELSE IF gain > 0 THEN Infinite ELSE <<0, 1>>

(* The deepest fall of the summed results below their running peak, 0       *)
(* included.                                                               *)
MaxDollarDrawdown(trades) ==
    FoldLeft(LAMBDA curve, t :
                LET level == curve.level + t.pnl
                    peak == AtLeast(curve.peak, level)
                IN  [level |-> level, peak |-> peak,
                     worst |-> AtLeast(curve.worst, peak - level)],
             [level |-> 0, peak |-> 0, worst |-> 0], trades).worst

(* The same of the curve that starts at 1 and is multiplied by              *)
(* 1 + return_pct; level is its last value, worst the fall from the peak.  *)
Compounded(trades) ==
    FoldLeft(LAMBDA curve, t :
                LET level == IF t.stake > 0
                             THEN (curve.level * (t.stake + t.pnl)) \div t.stake
                             ELSE curve.level
                    peak == AtLeast(curve.peak, level)
                IN  [level |-> level, peak |-> peak,
                     worst |-> AtLeast(curve.worst,
                                       ((peak - level) * Scale) \div peak)],
             [level |-> Scale, peak |-> Scale, worst |-> 0], trades)

(* _max_consecutive_losses: a result of 0 is no win.                        *)
MaxConsecutiveLossesOf(trades) ==
    FoldLeft(LAMBDA streak, t :
                LET current == IF WasWin(t) THEN 0 ELSE streak.current + 1
                IN  [current |-> current, longest |-> AtLeast(streak.longest, current)],
             [current |-> 0, longest |-> 0], trades).longest

(* Slip: a probability on a lower edge falls in no bin.                     *)
InBinOpen(p, bin) ==
    /\ p * CalibrationBins > (bin - 1) * Scale
    /\ p * CalibrationBins < bin * Scale

(* The masks of _calibration_bins: half-open, the last one closed.          *)
InBin(p, bin) ==
    /\ p * CalibrationBins >= (bin - 1) * Scale
    /\ \/ p * CalibrationBins < bin * Scale
       \/ bin = CalibrationBins /\ p * CalibrationBins <= bin * Scale

(* _calibration_bins: the bins with trades, each with the sums behind its   *)
(* two means.                                                              *)
CalibrationBinsOf(trades) ==
    LET Members(bin) == {k \in DOMAIN trades : InBin(trades[k].p, bin)}
        SumOf(Value(_), members) ==
            FoldFunctionOnSet(+, 0, [k \in DOMAIN trades |-> Value(trades[k])],
                              members)
    IN  [bin \in {b \in 1..CalibrationBins : Members(b) # {}} |->
            [n |-> Cardinality(Members(bin)),
             predicted |-> SumOf(LAMBDA t : t.p, Members(bin)),
             realized |-> SumOf(Outcome, Members(bin))]]

(* N times _expected_calibration_error.                                     *)
CalibrationError(bins) ==
    FoldFunction(+, 0, [b \in DOMAIN bins |->
                           Magnitude(bins[b].predicted - bins[b].realized)])

(* compute_metrics(window); of no trades, _empty_metrics is this with NaN   *)
(* for the ratios.                                                         *)
Metrics(record, window) ==
    LET trades == Latest(record, window)
        net == NetPnl(trades)
        drawdown == MaxDollarDrawdown(trades)
        curve == Compounded(trades)
        bins == CalibrationBinsOf(trades)
    IN  [n |-> Len(trades),
         wins |-> Len(SelectSeq(trades, WasWin)),
         netPnl |-> net,
         profitFactor |-> Ratio(GrossWins(trades), GrossLosses(trades)),
         maxDrawdownPct |-> curve.worst,
         calmar |-> Ratio(curve.level - Scale, curve.worst),
         maxDollarDrawdown |-> drawdown,
         recoveryFactor |-> Ratio(net, drawdown),
         maxConsecutiveLosses |-> MaxConsecutiveLossesOf(trades),
         brier |-> Total(LAMBDA t : (t.p - Outcome(t)) * (t.p - Outcome(t)), trades),
         bins |-> bins,
         calibrationError |-> CalibrationError(bins)]

-----------------------------------------------------------------------------
(* The metrics by their definitions, for comparison.                        *)

Balance(trades, k) == NetPnl(SubSeq(trades, 1, k))

(* A drawdown is a fall between two moments; a losing streak an interval    *)
(* without a win; the calibration of the whole bounds that of its parts.   *)
MetricsMatchDefinitions(trades) ==
    LET m == Metrics(trades, Len(trades))
        balance == [k \in 0..Len(trades) |-> Balance(trades, k)]
        Fall(i, j) == balance[i] - balance[j]
        moments == {ij \in (0..Len(trades)) \X (0..Len(trades)) : ij[1] <= ij[2]}
        Lost(from, to) == \A k \in from..to : ~WasWin(trades[k])
    IN  /\ \A ij \in moments : Fall(ij[1], ij[2]) <= m.maxDollarDrawdown
        /\ \E ij \in moments : Fall(ij[1], ij[2]) = m.maxDollarDrawdown
        /\ \A ij \in moments : ij[1] < ij[2] /\ Lost(ij[1] + 1, ij[2])
                => ij[2] - ij[1] <= m.maxConsecutiveLosses
        /\ \E ij \in moments :
               /\ ij[2] - ij[1] = m.maxConsecutiveLosses
               /\ Lost(ij[1] + 1, ij[2])
        /\ (m.maxDrawdownPct = Scale)
               <=> \E k \in DOMAIN trades : trades[k].pnl = -trades[k].stake
        /\ FoldFunction(+, 0, [b \in DOMAIN m.bins |-> m.bins[b].n]) = m.n
        /\ Magnitude(Total(LAMBDA t : t.p - Outcome(t), trades))
               <= m.calibrationError
=============================================================================
