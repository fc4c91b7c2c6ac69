----------------------------- MODULE StressTest -----------------------------
(***************************************************************************)
(* The Monte Carlo stress tester (backtesting/monte_carlo.py): replays of  *)
(* a series of results, in blocks drawn from it with wrap-around.  The     *)
(* statistics over many replays are left out; one replay is a draw of      *)
(* "starts".                                                               *)
(***************************************************************************)
EXTENDS Fractions, SequencesExt

CONSTANT StartingCapital    \* MonteCarloStressConfig.starting_capital

ASSUME CapitalAssumption == StartingCapital \in Nat \ {0}

(* ceil(n / block_size)                                                     *)
BlockCount(n, size) == (n + size - 1) \div size

(* Slip: blocks are drawn where they need not wrap around.                  *)
StartsUnwrapped(n, size) == [1..BlockCount(n, size) -> 0..(n - size)]

Starts(n, size) == [1..BlockCount(n, size) -> 0..(n - 1)]

(* The places in the series, counted from 1, that a replay of length n      *)
(* takes its results from.                                                 *)
PathIndices(n, size, starts) ==
    [at \in 1..n |->
        1 + ((starts[1 + ((at - 1) \div size)] + ((at - 1) % size)) % n)]

Replay(series, size, starts) ==
    LET indices == PathIndices(Len(series), size, starts)
    IN  [at \in DOMAIN series |-> series[indices[at]]]

(* The equity curve of a replay, from the starting capital on: where it     *)
(* ends, whether it ever is at or below 0, its deepest relative fall.      *)
Stressed(path) ==
    FoldLeft(LAMBDA curve, pnl :
                LET equity == curve.final + pnl
                    peak == AtLeast(curve.peak, equity)
                IN  [final |-> equity, peak |-> peak,
                     ruined |-> curve.ruined \/ equity <= 0,
                     maxDrawdownPct |->
                        AtLeast(curve.maxDrawdownPct,
                                ((peak - equity) * Scale) \div peak)],
             [final |-> StartingCapital, peak |-> StartingCapital,
              ruined |-> FALSE, maxDrawdownPct |-> 0], path)

(* run() refuses a series of fewer than two results, and a block longer     *)
(* than the series.                                                        *)
Replayable(series, size) == Len(series) >= 2 /\ size <= Len(series)
=============================================================================
