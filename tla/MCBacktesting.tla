--------------------------- MODULE MCBacktesting ----------------------------
(* Backtesting on a few candles, an account where two losses matter.        *)
EXTENDS Backtesting

Configured(n, train, test, step) ==
    [n |-> n, train |-> train, test |-> test, step |-> step]

MCSetups == {
    Configured(6, 2, 2, 2),     \* the standard setup
    Configured(8, 2, 3, 3),     \* windows that cut days
    Configured(6, 2, 2, 1),     \* overlapping windows
    Configured(7, 2, 3, 1),     \* so far that the aggregate is cut
    Configured(6, 1, 2, 2),     \* too few observations
    Configured(3, 2, 2, 1),     \* no window at all
    Configured(0, 2, 2, 2)}     \* no series run() takes

Encoded(trend, persistence, compressionExpansion) ==
    [isValid |-> TRUE, trend |-> trend, volatility |-> 0,
     persistence |-> persistence, compressionExpansion |-> compressionExpansion]

Falling == Encoded(-80, 20, 70)     \* a breakout
Calm == Encoded(10, 20, 0)          \* a range
Broken == [Calm EXCEPT !.isValid = FALSE]

MCCandles == {[state |-> Falling, up |-> TRUE], [state |-> Falling, up |-> FALSE],
              [state |-> Calm, up |-> TRUE], [state |-> Broken, up |-> FALSE]}

Says(probUp, uncertainty) ==
    [isValid |-> TRUE, probUp |-> probUp, uncertainty |-> uncertainty]

Model(falling, calm) ==
    [state \in {Falling, Calm} |-> IF state = Falling THEN falling ELSE calm]

(* Sure of a rise, sure of a fall and without an opinion, with an edge too  *)
(* small for the first threshold.                                          *)
MCModels == {Model(Says(80, 10), Says(80, 10)),
             Model(Says(25, 40), Says(50, 0)),
             Model(Says(60, 50), Says(80, 10))}

MCRuinCapital(p) == IF p > 52 THEN 2 ELSE 200

MCKeys == {Priority[i] : i \in DOMAIN Priority}

(* A configuration file has no negative numbers.                            *)
MCMeanReversion == -30
MCCompression == -50
MCLowVolatility == -60

MCSeries == {<<5>>, <<5, -5>>, <<6, -8, 4>>, <<6, -4, -10, 3>>}
=============================================================================
