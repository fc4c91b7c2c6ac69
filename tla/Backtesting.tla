---------------------------- MODULE Backtesting -----------------------------
(***************************************************************************)
(* The walk-forward backtester (backtesting/walk_forward.py) over the      *)
(* components it drives, Levels 1 to 5 and 8, and the stress tester its    *)
(* caller may run instead.                                                 *)
(*                                                                         *)
(* One risk engine and one scorer live through the whole run; the model is *)
(* fitted anew for each window.  Candle i closes at epoch i, and its       *)
(* outcome is whether candle i + 1 closes higher.  What the candles hold   *)
(* and what a fitted model says of each state are the instance's; a candle *)
(* is chosen when it is first met and keeps what it holds.                 *)
(***************************************************************************)
EXTENDS RiskEngine, RegimeRules, ExpectedValue, OpportunityScorer,
        PostTradeAnalysis, StressTest

CONSTANTS
    Setups,         \* configurations of a run, see Setup
    Candles,        \* what a candle may hold: [state, up]
    Models,         \* what fitting may yield: states to estimates
    MinObservations,\* observations the model needs, 5 in the code
    Series,         \* results a caller may hand to the stress tester
    BlockSizes      \* MonteCarloStressConfig.block_size

(* WalkForwardConfig and n, the number of usable states, 0 when there are no*)
(* two pairs of a state and a close, or not as many closes as states.      *)
Setup == [n: Nat, train: Nat \ {0}, test: Nat \ {0}, step: Nat \ {0}]

ValidStates == {c.state : c \in {d \in Candles : d.state.isValid}}

(* A model fitted to a missing value, and so to NaN weights.                *)
Blind == [state \in ValidStates |-> InvalidProbability]

ASSUME BacktestAssumption ==
    /\ Setups \subseteq Setup
    /\ Candles \subseteq [state: MarketState, up: BOOLEAN]
    /\ Models \subseteq [ValidStates -> {e \in ProbabilityEstimate : e.isValid}]
    /\ MinObservations \in Nat
    /\ Series \subseteq Seq(Int) /\ BlockSizes \subseteq Nat \ {0}
    /\ \A label \in DOMAIN Priority : Priority[label] \in Keys

VARIABLES
    stage,          \* where the caller or run() stands
    setup,          \* the configuration of the run
    candles,        \* the candles met so far, by index
    testStart,      \* test_start
    index,          \* i, the candle under evaluation
    model,          \* the window's model and the observations it was fitted to
    opportunity,    \* the approved opportunity being settled
    windowTrades,   \* window_analyzer's record
    allTrades,      \* global_analyzer's record
    windows,        \* window_results
    evaluations,    \* history: every evaluation, in order
    stressed        \* the replay of the stress tester

walkVars == <<setup, candles, testStart, index, model, opportunity>>
recordVars == <<windowTrades, allTrades, windows, evaluations>>
vars == <<riskVars, buckets, stage, walkVars, recordVars, stressed>>

NoSetup == [n |-> 0, train |-> 0, test |-> 0, step |-> 0]
NoModel == [from |-> 0, to |-> 0, says |-> <<>>]
NoOpportunity == [ev |-> InvalidEstimate, regime |-> "range", quality |-> 0]
NoReplay == [series |-> <<>>, size |-> 1, path |-> <<>>]

TestEnd == testStart + setup.test

(* Slip: the training window takes in the window it is tested on.           *)
TrainEndOfTest == TestEnd

TrainEnd == testStart
TrainStart == AtLeast(0, testStart - setup.train)

-----------------------------------------------------------------------------
(* run() refuses states and closes of unequal length, or fewer than two     *)
(* pairs, which n = 0 stands for; for a series it takes, the engine, the   *)
(* scorer and the analyzer are new.                                        *)
StartRun ==
    /\ stage = "idle"
    /\ \E s \in Setups :
          \/ /\ s.n = 0
             /\ stage' = "failed"
             /\ UNCHANGED <<setup, testStart>>
          \/ /\ s.n > 0
             /\ stage' = "fit"
             /\ setup' = s
             /\ testStart' = s.train
    /\ UNCHANGED <<riskVars, buckets, candles, index, model, opportunity,
                   recordVars, stressed>>

(* What candle i holds: already met, or any.                                *)
Held(i) == IF i \in DOMAIN candles THEN {candles[i]} ELSE Candles

(* fit() takes the states as they come: one that is not valid spoils the    *)
(* window's model.                                                         *)
FittedModels ==
    LET Training == TrainStart..(TrainEnd - 1)
        MayBeSound ==
            \A i \in Training : \E c \in Held(i) : c.state.isValid
        MayBeSpoilt ==
            \E i \in Training : \E c \in Held(i) : ~c.state.isValid
    IN  {m \in Models : MayBeSound} \cup {m \in {Blind} : MayBeSpoilt}

(* The head of the loop: a window that does not fit ends the run.  fit()    *)
(* refuses too few observations, and nothing catches that.                 *)
FitWindow ==
    /\ stage = "fit" /\ TestEnd <= setup.n
    /\ \/ /\ TrainEnd - TrainStart < MinObservations
          /\ stage' = "failed"
          /\ UNCHANGED <<index, model, windowTrades>>
       \/ /\ TrainEnd - TrainStart >= MinObservations
          /\ stage' = "evaluate"
          /\ model' \in [from: {TrainStart}, to: {TrainEnd}, says: FittedModels]
          /\ index' = testStart
          /\ windowTrades' = <<>>
    /\ UNCHANGED <<riskVars, buckets, setup, candles, testStart, opportunity,
                   allTrades, windows, evaluations, stressed>>

(* predict()                                                                *)
Predict(state) ==
    IF state.isValid THEN model.says[state] ELSE InvalidProbability

(* What assess() reads of the estimate.                                     *)
ForRisk(ev) == [field \in {"isValid", "isPositive", "direction", "p", "b",
                           "ruinCapital"} |-> ev[field]]

(* One evaluation: regime, probability, expected value, risk, score.  The   *)
(* risk engine counts a pause down whether or not the scorer approves.     *)
Evaluate ==
    /\ stage = "evaluate" /\ index < TestEnd
    /\ \E candle \in Held(index) :
        LET probability == Predict(candle.state)
            classified == Classify(candle.state)
            ev == ExpectedValueOf(probability)
            quality == Quality(ev, classified, probability)
            approved ==
                Clears(ev, Approves(ForRisk(ev)), classified.regime, quality)
        IN  /\ candles' = [i \in DOMAIN candles \cup {index} |->
                             IF i = index THEN candle ELSE candles[i]]
            /\ Assess(ForRisk(ev), index)
            /\ RecordEvaluation(classified.regime, approved)
            /\ evaluations' = Append(evaluations,
                   [index |-> index, regime |-> classified.regime,
                    approved |-> approved])
            /\ \/ /\ approved
                  /\ stage' = "settle"
                  /\ opportunity' = [ev |-> ev, regime |-> classified.regime,
                                     quality |-> quality]
                  /\ UNCHANGED index
               \/ /\ ~approved
                  /\ index' = index + 1
                  /\ UNCHANGED <<stage, opportunity>>
    /\ UNCHANGED <<setup, testStart, model, windowTrades, allTrades, windows,
                   stressed>>

(* Slip: the state's place in its window is taken for its epoch.            *)
EpochInWindow(i) == i - testStart

EpochOf(i) == i

(* The stake recommended, paid out at the contract's ratio if the next close*)
(* went the way of the direction; an unchanged close is no rise.           *)
SettledPnl ==
    LET stake == assessment.stake
        rose == candles[index].up
        won == IF rose THEN opportunity.ev.direction = 1
               ELSE opportunity.ev.direction = -1
    IN  IF won THEN (stake * opportunity.ev.b) \div Scale ELSE -stake

Settle ==
    /\ stage = "settle"
    /\ stage' = "evaluate"
    /\ index' = index + 1
    /\ opportunity' = NoOpportunity
    /\ RecordTradeResult(EpochOf(index), SettledPnl)
    /\ LET trade == [epoch |-> index, stake |-> assessment.stake,
                     pnl |-> SettledPnl, p |-> opportunity.ev.p]
       IN  /\ windowTrades' = Append(windowTrades, trade)
           /\ allTrades' = Append(allTrades, trade)
    /\ UNCHANGED <<buckets, setup, candles, testStart, model, windows,
                   evaluations, stressed>>

CloseWindow ==
    /\ stage = "evaluate" /\ index = TestEnd
    /\ stage' = "fit"
    /\ windows' = Append(windows,
           [trainStart |-> model.from, trainEnd |-> model.to,
            testStart |-> testStart, testEnd |-> TestEnd,
            metrics |-> Metrics(windowTrades, setup.test)])
    /\ testStart' = testStart + setup.step
    /\ UNCHANGED <<riskVars, buckets, setup, candles, index, model, opportunity,
                   windowTrades, allTrades, evaluations, stressed>>

(* aggregate_metrics, what run() returns with the windows.                  *)
AggregateMetrics == Metrics(allTrades, setup.n + 1)

Report ==
    /\ stage = "fit" /\ TestEnd > setup.n
    /\ stage' = "reported"
    /\ UNCHANGED <<riskVars, buckets, walkVars, recordVars, stressed>>

-----------------------------------------------------------------------------
(* MonteCarloStressTester.run on a series of the caller's: one replay.      *)
StressRun ==
    /\ stage = "idle"
    /\ \E series \in Series, size \in BlockSizes :
        \/ /\ ~Replayable(series, size)
           /\ stage' = "failed"
           /\ UNCHANGED stressed
        \/ /\ Replayable(series, size)
           /\ stage' = "stressed"
           /\ \E starts \in Starts(Len(series), size) :
                  stressed' = [series |-> series, size |-> size,
                               path |-> Replay(series, size, starts)]
    /\ UNCHANGED <<riskVars, buckets, walkVars, recordVars>>

(* The call has returned or raised.                                         *)
Returned == stage \in {"failed", "reported", "stressed"} /\ UNCHANGED vars

Init ==
    /\ RiskInit
    /\ ScorerInit
    /\ stage = "idle"
    /\ setup = NoSetup
    /\ candles = <<>>
    /\ testStart = 0 /\ index = 0
    /\ model = NoModel
    /\ opportunity = NoOpportunity
    /\ windowTrades = <<>> /\ allTrades = <<>>
    /\ windows = <<>> /\ evaluations = <<>>
    /\ stressed = NoReplay

Next ==
    \/ StartRun \/ FitWindow \/ Evaluate \/ Settle \/ CloseWindow \/ Report
    \/ StressRun \/ Returned

Spec == Init /\ [][Next]_vars

-----------------------------------------------------------------------------
(* Properties.                                                              *)

Running == stage \in {"evaluate", "settle"}

(* Every variable holds a value of its kind; in particular no bucket's      *)
(* threshold ever leaves its floor and ceiling if the step it moves by is  *)
(* not negative, and a valid classification is at least half confident, as *)
(* near as Scale can tell.                                                 *)
TypeOK ==
    /\ RiskTypeOK
    /\ ScorerTypeOK
    /\ stage \in {"idle", "fit", "evaluate", "settle", "failed", "reported",
                   "stressed"}
    /\ setup \in Setups \cup {NoSetup}
    /\ DOMAIN candles \subseteq 0..(setup.n - 1)
    /\ \A i \in DOMAIN candles :
           /\ candles[i] \in Candles
           /\ candles[i].state.isValid =>
                  2 * Classify(candles[i].state).confidence
                      \in (Scale - 1)..(2 * Scale)
    /\ testStart \in Nat /\ index \in Nat
    /\ Running => /\ index \in testStart..TestEnd
                  /\ TestEnd <= setup.n
                  /\ model.says \in Models \cup {Blind}
    /\ stage = "settle" <=> opportunity # NoOpportunity
    /\ \A k \in DOMAIN allTrades : allTrades[k] \in AnalyzedTrade

(* The point of a walk-forward analysis: the candles are evaluated window   *)
(* after window in their order, none skipped, each by a model fitted to a  *)
(* full training window whose last outcome was known before the window     *)
(* under test began.                                                       *)
OutOfSample ==
    /\ \A k \in DOMAIN evaluations :
           LET window == (k - 1) \div setup.test
               start == setup.train + window * setup.step
           IN  /\ evaluations[k].index = start + ((k - 1) % setup.test)
               /\ window < Len(windows) =>
                      /\ windows[window + 1].trainEnd <= start
                      /\ windows[window + 1].trainEnd
                             - windows[window + 1].trainStart = setup.train
    /\ Running => model.to <= testStart /\ model.to - model.from = setup.train

(* One account lives through all windows, and each day has one budget: the  *)
(* opening equity of the engine's day is the account after the trades of   *)
(* earlier days, whatever windows they were made in.  With a step shorter  *)
(* than the test window epochs run backwards and the budget is renewed.    *)
DayBudgetPerDay ==
    LET today == DayOf(allTrades[Len(allTrades)].epoch)
        earlier == {k \in DOMAIN allTrades : DayOf(allTrades[k].epoch) < today}
    IN  setup.step >= setup.test =>
            dayStartEquity = StartingEquity + FoldFunctionOnSet(
                +, 0, [k \in DOMAIN allTrades |-> allTrades[k].pnl], earlier)

(* The threshold of a regime answers to that regime's evaluations alone: of *)
(* k evaluations that were all rejected (by whatever gate, a halt of the   *)
(* risk engine included) it has eased by one step at the first adjustment  *)
(* and one more per cooldown, down to the floor; of k that were all        *)
(* approved it has tightened likewise, if the band allows it to.           *)
BarFollowsFrequency ==
    \A key \in BucketKeys :
        LET own == {i \in DOMAIN evaluations :
                        BucketKey(evaluations[i].regime) = key}
            k == Cardinality(own)
            first == AtLeast(1, AtLeast(AdjustmentCooldown, MinSamples))
            adjustments ==
                IF MinSamples > RollingWindow \/ k < first THEN 0
                ELSE 1 + (k - first) \div AtLeast(1, AdjustmentCooldown)
            moved == AdjustmentStep * adjustments
        IN  /\ (\A i \in own : ~evaluations[i].approved) =>
                   buckets[key].threshold =
                       AtLeast(ThresholdMin, BaseThreshold - moved)
            /\ (\A i \in own : evaluations[i].approved) /\ k > 0 =>
                   buckets[key].threshold =
                       IF TargetFrequency * BandHigh < Scale * Scale
                       THEN AtMost(ThresholdMax, BaseThreshold + moved)
                       ELSE BaseThreshold

(* A losing streak shows in the record as a pause, across the windows'      *)
(* seams too: after every MaxConsecutiveLosses losses in a row the next    *)
(* trade is at the earliest the CooldownEvaluations-th evaluation on.      *)
PauseShowsInRecord ==
    LET places == {j \in DOMAIN evaluations : evaluations[j].approved}
        Ordinal(j) == Cardinality({i \in places : i <= j})
        LostAt(j) ==    \* settled at a loss
            Ordinal(j) <= Len(allTrades) /\ ~WasWin(allTrades[Ordinal(j)])
        Streak(j) ==    \* losses in a row up to and with j
            Cardinality({i \in places : i <= j /\
                            \A h \in places : i <= h /\ h <= j => LostAt(h)})
    IN  \A j, next \in places :
            /\ j < next
            /\ Streak(j) > 0 /\ Streak(j) % MaxConsecutiveLosses = 0
            => next >= j + CooldownEvaluations

(* What is reported is what happened: the account is the record's balance,  *)
(* the engine's drawdown is within the record's, the metrics are what their*)
(* definitions say, no trade is missing from the windows, and none from the*)
(* aggregate unless windows overlap so far that it is cut to n + 1 trades. *)
ReportMatchesRecord ==
    LET counted == FoldFunction(+, 0, [w \in DOMAIN windows |-> windows[w].metrics.n])
    IN  /\ equity = StartingEquity + NetPnl(allTrades)
        /\ peakEquity - equity <= MaxDollarDrawdown(allTrades)
        /\ MetricsMatchDefinitions(allTrades)
        /\ counted + (IF Running THEN Len(windowTrades) ELSE 0) = Len(allTrades)
        /\ stage = "reported" /\ setup.step >= setup.test =>
               AggregateMetrics = Metrics(allTrades, Len(allTrades))

(* A stress test replays fairly: over all draws every trade is as likely as *)
(* any other in every place of a replay (what wrapping around is for), and *)
(* within a block trades keep their neighbors.  A replay is ruined exactly *)
(* when its drawdown reaches the whole of its peak.                        *)
StressUnbiased ==
    stage = "stressed" =>
        LET n == Len(stressed.series)
            paths == [starts \in Starts(n, stressed.size) |->
                         PathIndices(n, stressed.size, starts)]
            outcome == Stressed(stressed.path)
        IN  /\ \A at, place \in 1..n :
                   n * Cardinality({starts \in DOMAIN paths :
                                       paths[starts][at] = place})
                   = Cardinality(DOMAIN paths)
            /\ \A starts \in DOMAIN paths, at \in 1..(n - 1) :
                   at % stressed.size # 0 =>
                       paths[starts][at + 1] = 1 + (paths[starts][at] % n)
            /\ outcome.ruined <=> outcome.maxDrawdownPct >= Scale
=============================================================================
