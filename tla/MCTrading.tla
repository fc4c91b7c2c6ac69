----------------------------- MODULE MCTrading ------------------------------
(* PaperTrading on two symbols and a small account.                         *)
EXTENDS PaperTrading

CONSTANTS s1, s2

MCSymbols == {s1, s2}

Estimate(direction, p) ==
    [isValid |-> TRUE, isPositive |-> TRUE, direction |-> direction,
     p |-> p, b |-> 90, ruinCapital |-> 2]

(* An edge upwards and an edge downwards, both sized by the exposure cap.   *)
MCEVEstimates == {Estimate(1, 75), Estimate(-1, 70)}
MCEdgeUp == {Estimate(1, 75)}

Quote(slip, ratio) == [slip |-> slip, ratio |-> ratio]

(* As decided, dearer within and beyond the slippage tolerance, a worse     *)
(* reward, and no price at all.                                            *)
MCQuotes == {Quote(0, 90), Quote(1, 90), Quote(5, 90), Quote(0, 40),
             Quote(-100, 90)}
=============================================================================
