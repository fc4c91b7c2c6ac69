---------------------------- MODULE MCRiskEngine ----------------------------
(* RiskEngine under the most general client, on a small account.            *)
EXTENDS RiskEngine

CONSTANT MaxTrades  \* bound: trades recorded since the last reset

Estimate(valid, positive, p, b, ruin) ==
    [isValid |-> valid, isPositive |-> positive, direction |-> 1,
     p |-> p, b |-> b, ruinCapital |-> ruin]

MCEVEstimates == {
    Estimate(TRUE, TRUE, 80, 90, 4),    \* sized by the exposure cap
    Estimate(TRUE, TRUE, 56, 90, 4),    \* sized by Kelly, near the floor
    Estimate(TRUE, TRUE, 80, 90, 12),   \* too little capital for the stake
    Estimate(TRUE, FALSE, 50, 90, 0),   \* rejected by the EV gate
    Estimate(FALSE, FALSE, 0, 0, 0)}    \* not a number

MCPnls == {-16, -6, 0, 12}

TradeBound == Len(pnlPcts) <= MaxTrades
=============================================================================
