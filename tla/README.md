# A verification project for the trading platform

TLA+ models of the platform's core, the TLC configurations that check them on
small instances, and theorems about them proved with TLAPS for every value of
the constants. Paths are relative to the repository.

## 1. The system

The program (`main.py`) is one asyncio process. Ticks arrive over one
WebSocket (`data/deriv_client.py`), are flagged by an integrity validator,
stored, and aggregated into candles; each completed candle goes through the
feature pipeline and the state encoder to the trading loop
(`paper_trading/orchestrator.py`), which settles the symbol's pending trade
and then decides whether to open another: probability, expected value, risk
veto and sizing, opportunity score, execution.

| component | state | operations | called by |
|---|---|---|---|
| broker client, `data/deriv_client.py` | connection, request counter, `_pending` futures, reconnect attempt | `run_forever`, `fetch_bootstrap_history`, `fetch_proposal`, `buy`, `check_contract_status`, `stop` | main, the loop |
| integrity validator, `data/integrity.py` | last epoch and quote, returns, per symbol | `validate` | broker client |
| candle aggregator, `data/candle_aggregator.py` | open candle per symbol | `on_tick`, `flush` | main |
| tick stores, `data/storage.py` | buffer, lock, flush task, connection | `start`, `write_ticks`, `read_ticks`, `close` | main |
| feature pipeline, encoder, `features/`, `state_encoder/` | rolling windows, running statistics | `on_candle`, `encode` | main, the loop |
| regime detectors, `regime/` | none (rules); fitted HMM, not wired in | `classify` | main, the loop |
| probability, `probability/` | fitted weights | `fit`, `predict` | the loop |
| expected value, `expected_value/` | none | `evaluate` | the loop |
| risk engine, `risk/` | equity, peak, day budget, loss streak and pause, returns | `assess`, `record_trade_result`, `reset` | the loop, backtests |
| opportunity scorer, `opportunity/` | threshold and history per regime | `evaluate` | the loop |
| execution engine, outcome tracker, `execution/` | none | `execute`, `poll` | the loop |
| paper-trading orchestrator | models, scorers, pending trade per symbol | `bootstrap`, `on_candle` | main |
| post-trade analyzer, `post_trade/` | completed trades | `record_trade`, `compute_metrics` | the loop |
| walk-forward backtester, stress tester, `backtesting/` | none between runs; a run's engine, scorer, record | `run` | offline only |
| trade management, `trade_management/` | Q table | training over a simulator | offline only |

How they interact. Everything runs on one event loop. The client's `_listen`
awaits the tick handler, so candles reach the loop one at a time, in the order
they complete; the loop's own awaits (a status poll, a proposal, a purchase)
are the points at which the broker moves. One risk engine and one broker
account are shared by all symbols, while pending trades and models are kept
per symbol. The client is also the loop's `BrokerClient`, and its reader is the
very task that runs the handler. Nothing of the loop's state is written to a
file; `railway.json` starts the process again when it fails, at most ten times.
The backtester calls the same levels without the loop: regime, probability,
expected value, risk, score, and the analyzer for the record.

What is hard here, and what makes each part correct:

* **Trading loop.** Settlement, decision and purchase of several symbols
  interleave on one account; answers are late, lost or stale. Correct when
  each position is booked exactly once with the broker's result, never
  overwritten, and opened only below the limits.
* **Risk engine.** Its breakers stop the very trades that would clear them.
  Correct when each halt ends the way its documentation says and no other,
  the drawdown is measured from a true high-water mark, and an approved stake
  lies within floor and cap.
* **Broker client.** Drops, clean closes, refusals, timeouts and late answers
  at every step. Correct when it always ends up listening, subscribed to every
  symbol, on fresh credentials, or has given up as configured.
* **Stores, validator, aggregator.** The reader, the periodic flush, the
  shutdown and the server share a buffer and a lock; flushes fail, are
  cancelled, or are applied after the client gave up. Correct when nothing
  written is lost short of a crash, the last write of a key wins, a shutdown ends,
  and each well-ordered tick is counted in exactly one candle.
* **Process.** A failure forgets positions, breakers and record while the broker
  keeps the contracts. Correct when the new process starts from one consistent
  state and never books a contract of the old one.
* **Scorer.** An adaptive threshold per regime, which every rejection eases, a
  veto of the risk engine included. Correct when the steps follow the cooldown
  and each regime's own frequency, within floor and ceiling.
* **Backtester, stress tester, analyzer.** Models are new in every window, while
  engine, scorer and account live on across the seams. Correct when no model
  sees what it is tested on, streaks, pauses and days that span a seam count as
  one, the report is the record's, and a replay draws every result evenly.

`PROJECT.json` lists the components, hazards and source lines in full.

## 2. The modules

| module | what it is |
|---|---|
| `RiskEngine` | `risk/engine.py` with `kelly.py` and `ruin.py`, under any client |
| `PaperTrading` | the loop, execution engine and outcome tracker over `RiskEngine`, with an external broker; `EXTENDS RiskEngine`, whose `Assess` and `RecordTradeResult` are conjuncts of its actions |
| `TradingAccount` | the abstract account the loop implements |
| `DerivClient` | the broker client and the network |
| `TickStore` | both tick stores with their periodic task, and an external server |
| `MarketFeed` | the way of a tick through validator, store, aggregator, feature buffer and encoder, and the shutdown; `EXTENDS TickStore`, whose flushes are conjuncts of its actions |
| `Fractions` | fixed point: a fraction is a numerator over `Scale` |
| `RegimeRules` | Level 1, `regime/rule_based.py` |
| `ExpectedValue` | Levels 2 and 3: what a model hands on, and `expected_value/engine.py` |
| `OpportunityScorer` | Level 5, `opportunity/scorer.py` |
| `PostTradeAnalysis` | Level 8, `post_trade/analyzer.py` |
| `StressTest` | `backtesting/monte_carlo.py` |
| `Backtesting` | `backtesting/walk_forward.py` over all of these and `RiskEngine`; `EXTENDS` them, so that `Assess`, `RecordTradeResult` and `RecordEvaluation` are conjuncts of its actions |
| `RiskEngineProofs`, `PaperTradingProofs`, `PaperLedgerProofs`, `DerivClientProofs`, `MarketFeedProofs`, `PostTradeProofs`, `BacktestingProofs` | the theorems |
| `SumLemmas` | what their proofs share: least and last numbers, sums and other folds, counting, remainders |
| `MCRiskEngine`, `MCTrading`, `MCBacktesting` | inputs and bounds for TLC |

**RiskEngine.** A variable per field of the class, plus the last assessment
returned. `Assess` ticks the pause first and then collects the whole veto list
(the code never stops at the first reason); `RecordTradeResult` rolls the day,
appends the return, moves equity and peak, and counts the streak, in the
code's order (the return is measured on the old equity). Money is integer,
fractions are numerators over `Scale`. `risk_of_ruin` solves a root; what
`assess` uses of it is monotone in the capital, so an estimate carries
`ruinCapital`, the number of stakes it demands. The tail of the shortfall is a
ceiling of a float product; `TailRoundedUp` says whether `1.0 - confidence`
exceeds the exact fraction, as it does for the default 0.95. `np.sort` is
`Sorted`, which gives every return the place its rank has (`Place`).

**PaperTrading.** `handling` is the program counter of `on_candle` with the
locals that live across an await: `idle`, `poll`, `polled`, `decide`, `proposal`, `buy`.
`OnCandle` is everything up to the first await (the early return of a symbol
without a model, the paper settlement); `PollAnswered` and `PollFails` are the two
ends of a poll, the broker's answer holding when it was given, and `PollFindsSold` and
`PollFindsOpen` what the handler makes of an answer; `Decide` the assessment with its
sizing, and in paper mode the fill; `ProposalAnswered`, `ProposalFails`,
`BuyAnswered`, `BuyFails` the live execution. The handler is also cut between settlement
and decision, though the code does not await there; since no other handler runs
meanwhile, this adds only broker steps that touch no variable the handler reads
at that point. `contracts` is the broker's side: requested, then filled or
refused, then sold, at any time. The scorer and the models are inputs of
`Decide`: any quality verdict, any estimate of the instance. Time is coarser
than a candle, so two candles of a symbol may bear one epoch. `Restart` is the
process failing at any point and being started again: everything the process
held is as it was at its first start, every symbol is to be bootstrapped again,
and the contracts stay with the broker, one still in the post included.

**TradingAccount.** Balance, peak, opening balance and stake at risk per
symbol; `Open` only below both limits, on a free symbol, within the cap plus
slippage; `Close` loses at most the stake, `StartOver` is the failure of a process.
`PaperTrading!Account` maps the pending trade's stake to `atRisk`.

**DerivClient.** `stage` tells the bootstrap from the stream, `phase` where the
current call stands, `ws` is the connection with what has been asked and what
has arrived, `awaiting` the one request in progress (requests are sequential),
`pending` the keys of the dictionary. An answer is read only while the reader
stands at its `async for` (`Reading`), which in the stream excludes a running
handler and in the bootstrap does not. `Raise` is the exception path:
`run_forever` retries after the three classes it catches and lets every other
end the program. A timeout or a backoff may expire at any moment. The loop's
model assumes a broker client that can answer; section 5 tells what this one does.

**TickStore.** `buffer`, `lock` and `flusher` are the store's fields; `rows` is the
table, a function of symbol and epoch, the primary key. The two backends share
the buffering and differ in the flush: SQLite's executes and commits without leaving
the event loop, so it happens at once or not at all (`FlushesAtOnce`,
`FailsAtOnce`); Supabase's holds the lock across a request (`StartPost`,
`PostSucceeds`, `PostFails`), during which everybody else may run and the
holder may be cancelled (`CancelPost`). The server may apply the rows before the
answer is lost, or after the client has stopped waiting: a request cut while
unanswered may stay in `late`. That Postgres refuses an upsert naming a
key twice (`Upsertable`) is an assumption about that external server. A failed
flush of the periodic task ends the task, as in the code: nothing catches it.

**MarketFeed.** `task` is the program counter of main's task. `ReadTick` is the
validator, and `WriteTick` the call of `write_ticks` with what follows in the
same step when nothing is awaited; when the batch is posted, `HandlerPostEnds` is
the rest. Validation and write are two steps where the code only awaits a lock:
if the lock is free the step in between changes no variable either reads. Whether a return
is a price jump is a choice once enough returns are known. An emitted candle enters the feature
buffer and, when that is long enough, is encoded once by main and once more by the loop if the
symbol has a model (the loop's first encoding is skipped while a live trade
stays pending, so `Encodings` has both numbers). `CancelFlusher` and `CloseFlushes`
are `close()`. `StopFeed` stands for every way in which `run_forever` ends. A killed
process is no action: at any state it leaves `rows`, and `LossBounded` says
what it costs. Nothing in the program calls `CandleAggregator.flush` or
`read_ticks`, and they are not modelled.

**RegimeRules, ExpectedValue, PostTradeAnalysis, StressTest.** Pure functions.
`Classify` takes the first rule of `Priority` that matches, with the confidence
of its margin. `ExpectedValueOf` is `evaluate()`, with square roots rounded down
(`Root`) and `risk_of_ruin` again a demand for capital. `Metrics` has a field
for each metric of `compute_metrics` but Sharpe and Sortino; ratios stay pairs,
so that an infinite one is a value. `Replay` is one draw of the block
bootstrap, and `Stressed` its curve.

**OpportunityScorer.** `buckets` is the dictionary `_buckets`, one per regime label or
one for all (`PerRegime`); a bucket not met yet is a fresh one. `Recorded` is
`_record_and_maybe_adjust`: the bounded history, the count since the last
adjustment, and the adjustment with its clamps. Its assumptions are the ones
`OpportunityScoringConfig` validates; it validates nothing about scales, step and
counters. The step is any integer, a negative one included; scales and window are
taken for positive numbers and the counters for natural ones.

**Backtesting.** `stage` is the program counter of `run()`: `StartRun` refuses a series of
no use (`n = 0` stands for those) or builds engine, scorer and analyzer, `FitWindow` is the head of the loop with the model's
refusal to fit too few observations, `Evaluate` one candle through all levels,
`Settle` what follows an approval, `CloseWindow` the end of the window and
`Report` the end of the run. What a candle holds (its encoded state and whether
the next close is higher) is chosen when it is first met and then kept in
`candles`, so that overlapping windows see the same market; what a fit yields
is any model of the instance, or, when a candle of the training window holds a
missing value, `Blind`: `fit()` lets a NaN through, and a model of NaN weights
answers every state with an estimate that is not valid (`FittedModels`). `StressRun` is the stress tester on a series of
the caller's. `evaluations` is a history variable. Evaluation and settlement are
two steps of one sequential program, cut for readability only.

## 3. The runs

| run | instance and bounds | shows |
|---|---|---|
| `risk_engine` | at most 3 trades recorded before a cut, 3 days, 5 estimates (sized by the cap, by Kelly, short of capital, rejected, NaN), results −16 −6 0 12 on an account of 100; 2 losses trip the streak, 3 evaluations pause | breakers, pause, peak, shortfall tail, sizing: 87,580 states |
| `paper_trading` | 2 symbols, 3 positions opened per process, 1 restart, 2 closes, 2 days, histories too short and long enough | ledger, one-candle settlement, overshoot bound, refinement, end of every pause: 278,958 states |
| `live_trading` | 2 symbols, 2 contracts, 1 restart, quotes as decided, dearer within and beyond tolerance, worse reward, no price | the books against the broker's, no entry while halted, positions polled until booked, refinement: 275,217 states |
| `deriv_client` | 2 symbols, any number of connections, 10 request ids, 3 requests per tick, 3 unread messages, 2 attempts, one-time passwords | subscriptions, attempts, passwords, the bootstrap's end, streaming resumes: 345,680 states |
| `market_feed` | both backends, batch of 2, 3 ticks of 4 epochs and 2 prices in windows of 3, a gap above 2, 1 late request, any bootstrap with the feature buffer it leaves | buffer against table, open candle against its ticks, store against candles, flushing and shutdown: 866,976 states |
| `walk_forward` | 7 setups of up to 8 candles, 4 candles, 3 models, days of 3 candles; stress series of 1 to 4 results in blocks of 1 to 3 | training before test, the day's budget, the thresholds against their frequencies, pauses in the record, the report against the record, the fairness of replays: 278,992 states |
| `lost_purchase`, `daily_halt`, `skipped_symbol`, `late_answer`, `long_outage`, `folded_twice` | smaller instances | the findings of section 5 |

Why the bounds are enough. A breaker of the risk engine needs one or two losses
of these sizes to trip, and the third trade acts on a tripped engine; the
shortfall starts counting at two trades and its tail of 40 % is one or two of
three. Two symbols are the smallest number that share the account, and with three
openings one symbol trades twice while the other's position is open; two live
contracts suffice for the second to be requested while the first is unsettled,
and for one symbol to be traded twice. The client's connections are not counted, so
drops, refusals and reconnects may go on for ever, as in the code. Its request ids
are: the tenth is the last told apart (subscriptions go on with it, a handler asks no
more), and a tick handler makes three requests, which are the
most one candle can cause (a poll, a proposal, a purchase). Three ticks are a full batch and
one more, or a window of three ticks, or two windows, with a duplicate or a
disordered tick; a late request and the one after it are the shortest race for a
row. One symbol is enough there, because validator and candle are per symbol and
what symbols share is the buffer, which one symbol fills. One restart is enough
of the ten the platform allows, because the second starts from the same state as
the first but for the broker's contracts, of which there are two; a symbol with
too little history is in the paper run only. The backtest's setups
are the ones the properties tell apart: windows side by side, windows that cut
days, windows that overlap by a candle, windows that overlap so far that the
aggregate is cut, too few observations to fit, a series too short for one
window, and one that is refused. Its candles give a breakout and a range, each with either outcome, and a
state with a NaN; its models are sure of a rise, sure of a fall or undecided, and one
has an edge that only clears a threshold that has eased. Two evaluations
adjust a threshold and three fill its history; from the base two steps reach the
floor and three the ceiling. The account is
small so that one stake matters against the limits: a loss of 18 trips the day,
24 the drawdown, a stake is at most 20.

`CHECK_DEADLOCK` stays on in every run: a bounded trading loop can still receive
candles, and the end of the client, of the feed and of a backtest is a step of its own
(`Terminated`, `Returned`).

Fairness. Trading: each symbol's candles keep completing with a usable vector
(strong, since a handler for another symbol disables the step), a started
handler goes on because every request is answered or times out (weak), and open
contracts are sold in the end (weak). Nothing is assumed about prices, approvals or
fills, nor that a poll is ever answered: the handler goes on whichever way it ends. Client:
weak fairness of its own steps together, which is what an event loop and
finite timeouts give, for a handler that awaits a request included; the network owes nothing. Feed: weak fairness of each step of
main's task that does not wait for the network, and of the end of a request; strong of the periodic
task, since asyncio's lock is first come, first served and the task's sleep
is finite. No tick and no shutdown is owed, and the server owes nothing. The
backtest has no liveness property and no fairness: it is one loop over a list.
Restarts are never owed, and there are finitely many.

Properties worth reading first: `BooksAgreeWithBroker`, `BreakerOvershootBounded`
(the stakes of open positions are not set aside, so a breaker can be overshot,
and by this much), `StreakPauseEnds` (under fairness of candles only, no win
needed), `PolledUntilBooked` (a live position that is never booked is polled for
ever, and in the end without a single answer: the loop neither stops asking nor
passes over an answer; with the client that is wired in, whose polls from the
handler all fail, it says only that the loop keeps asking while the program
lives), `ImplementsAccount`, `ShortfallIsWorstTail` (sorting and slicing against a
choice of the worst subset), `StreamingResumes` (once nothing breaks any more, the
client has stopped or is on one open connection and back at its reader again and
again, also after a handler's requests have waited for that reader; as long as
connections are opened and dropped it promises nothing), `GivesUpOnlyAfterTrying`,
`LastWriteWins` (with the one case where it fails, a request given up on,
in its premise), `EveryTickInOneCandle`, `BarFollowsFrequency` (the threshold's
walk against a closed formula) and `PauseShowsInRecord` (the risk engine's pause
read off the record alone, across windows).

## 4. What is proved

All theorems are about the specification without fairness and hold for every
value of the constants that satisfies the named assumptions.

* `RiskEngineProofs`: `RiskTypeCorrect`, `StreakPauseAlwaysTimed`,
  `PeakAlwaysHighWater`, `ApprovalsWithinLimits`, `PausesServedInFull`,
  `DrawdownIsHardStop`, `ShortfallAlwaysOfWorstTail`. The invariant `RiskInv`
  joins the pause's equivalence with the high-water mark; neither is inductive
  without the type bound on the pause. The steps are proved over `RiskCall`, a
  client that may hand in any estimate, epoch and result, so that the loop and the
  backtest inherit them. The shortfall theorem is about operators: places are a
  bijection (`PlacesAreBijection`), so a slice of the sorted returns is a
  set of returns none of which exceeds one outside (`SortedSlice`), and such a set
  has the least sum of its size (`SumOverSmallest`). It assumes `~TailRoundedUp`:
  with it the statement is false, as section 5 says.
* `PaperTradingProofs`: `TypeCorrect`, `BooksAlwaysAgree`,
  `LoopPauseAlwaysTimed`, `PaperAlwaysHeldOneCandle`, `NeverEntersWhileHalted`,
  `PositionsLeaveByBooking`, `LoopImplementsAccount`. `BooksAgreeWithBroker` is not inductive: a purchase
  that is answered must be nobody's contract, so `HandlerInv` states what a
  handler remembers across an await and what still holds of it; `PositionInv` ties
  a position to its contract, `ContractInv` bounds what a contract can lose and
  `TradesInv` keeps booked contracts within those requested. `LoopInv` joins them
  with types and `RiskInv`, and has one lemma per action. Then every step is of one of four kinds (`StepKinds`):
  it leaves positions and account alone, it enters one position, it books
  one, or it is a restart; the action properties and the refinement follow from
  the kind. `PaperAlwaysHeldOneCandle` rests on `HeldInv`: only symbols with a
  model hold positions, and a handler works on its symbol's last candle.
* `PaperLedgerProofs`: `LedgerAlwaysBalances`, `OvershootAlwaysBounded`, for any
  number of symbols, by the kinds of steps again. The overshoot bound is not
  inductive: a booking may lose no more than a stake, and the stake was capped
  by an equity of the past. `StakesCapped` carries that to the present, because the
  peak only rises while a position is open.
* `DerivClientProofs`: `ClientTypeCorrect`, `AlwaysSubscribedWhileListening`,
  `PasswordsAlwaysFresh`, `StreamAlwaysStartsClean`, `NeverGivesUpEarly`.
  `ClientInv` joins what each phase implies about the connection (`PhaseInv`: no
  tick reaches a connection of the bootstrap, so no handler runs there), which keys
  of `_pending` can exist (`RequestInv`, from which a clean start follows: a request
  of the bootstrap that fails also ends it), and that the attempts never exceed the
  tries since the last connection (`TriesInv`); that one needs the history
  variable `tries` to reach the limit, `MaxTries >= MaxAttempts`. Each group of
  actions has a lemma, and one lemma (`FailureKeeps`) covers every raised exception.
* `MarketFeedProofs`: `FeedTypeCorrect`, `LossIsBounded`,
  `NoTickLost`, `LastTickWins`, `CandleIsItsTicks`, `OneCandlePerTick`,
  `CandlesAdvance`. First come the lemmas about the table of `TickStore`: the last row
  of a key in a batch counts (`UpsertPresent`), an appended tick is the last of its
  key (`UpsertAppend`), and a batch applied twice leaves what it left once.
  `FeedInv` is the invariant: the table overlaid with all that is
  under way is what was written (`WrittenInv`, from which the store's three
  properties follow), a request that was applied has left its rows (`RequestInv`), the
  buffer is short between writes (`BufferInv`), no tick of the open candle is later
  than the validator's last epoch (`OrderInv`, without which a tick could reopen a
  window), and ticks accepted are ticks emitted, open or awaited (`CountInv`).
* `PostTradeProofs`: lemmas about the metrics of any record, joined in
  `MetricsAreTheirDefinitions`. A fold is the last of a sequence of states
  (`StatesOfFold`), over which drawdown and losing streak are followed trade by trade
  (`DrawdownIsDeepestFall`, `StreakIsLongestInterval`); the compounded curve is all lost
  exactly when a whole stake was (`WholeDrawdownIsLostStake`, of trades that
  end like binary options); and the calibration bins are a partition of the record,
  the edges included (`OneBinEach`), so that their counts add up to its length and
  their gaps bound the whole's (`BinsPartitionRecord`).
* `BacktestingProofs`: `AlwaysOutOfSample`, `ThresholdsWithinBounds`,
  `BacktestAccountSound`, `BacktestTypeCorrect`, `OneBudgetPerDay`,
  `BarsFollowFrequency`, `PausesShowInRecord`, `ReportsMatchRecord`,
  `ReplaysAreFair`. `WalkInv` tells from the windows closed and the candles
  done in the open one how long the record is and which candle each place of it
  holds, by division with remainder (`PlaceInWindow`); before a run there is no
  record. `LevelsInv` joins `RiskInv` and the scorer's bounds with what the levels
  hand to each other, and inherits the engine's steps from `RiskCall`.
  `KindsInv` adds the kinds of the rest. `BudgetInv` says that the account is the record's
  balance, that the engine's day is the last trade's, and, while windows do not
  overlap, that trades are recorded in the order of their epochs, without which
  "earlier days" and "already recorded" differ. `BarInv` follows a bucket's
  counters and history through its own evaluations (`BucketAfter`, `BarSettled`), because
  the threshold alone does not tell when it moves next. `PauseInv` reads the engine's
  streak and pause off the record (`PauseClock`). `ReportInv` adds what the report
  needs: that every approved trade has a stake and a payout above 0, so that it ends
  with all of the stake lost or none, that the engine's peak is a balance the record
  went through, that the windows closed count all trades but the open one's, and that
  windows that do not overlap make no more trades than there are candles, so that
  the aggregate is never cut short. `ReplaysAreFair` is about
  operators: changing the start of one block is a bijection between the draws that put
  one trade in a place and those that put another there (`DrawsAreEven`).

Sums and folds are defined by recursion, and what is proved of them rests on
`SumLemmas`: in place of the induction theorems, whose operator parameter no
installed prover can instantiate, a set of counterexamples is shown to have no
least element.

Only model-checked: liveness (`StreakPauseEnds`, `PolledUntilBooked`,
`StreamingResumes`, `BufferFlushed`, `ShutdownEnds`), which is out of the prover's
reach under fairness. Every invariant and every other action property that a passing
run checks is a theorem.

## 5. Disagreements with the documentation

Each is a run whose counterexample is a behaviour of the code.

* `lost_purchase`: a buy whose answer is lost is an `error` decision and no pending
  trade, so the next candle may open a second position on the symbol
  (`execution/engine.py:193`; `paper_trading/types.py:27`).
* `daily_halt`: the day is rolled by settlements only, so a daily-loss halt with
  nothing pending lasts beyond its day (`risk/engine.py:165`;
  `configs/risk_schema.py:11`).
* `skipped_symbol`: nothing ever retries a symbol's bootstrap (`main.py:98`, `101`).
* `late_answer`: a request made inside the tick handler cannot be answered, because
  the reader is running that handler; when the answer is read at last its
  future has been cancelled, and `InvalidStateError` ends the program
  (`data/deriv_client.py:323`; `execution/engine.py:157`). With the wired client,
  live mode ends at its first order.
* `long_outage`: the backoff's power is computed before it is capped, and
  `2.0 ** 1024` is an `OverflowError` (`data/deriv_client.py:456`;
  `configs/schema.py:87`). The run uses the real number, 1024.
* `folded_twice`: main encodes each candle and the loop encodes it again with the
  same encoder, so live statistics fold each vector in twice, and bootstrap's once
  (`main.py:150`; `orchestrator.py:197`; `README.md:424` promises identical sequences
  for live and backtest).

Not runs, but modelled or met: with confidence 0.95 the shortfall tail is one
trade too long at every multiple of 20 trades (`TailRoundedUp`); a result of
exactly 0 counts as a loss (`risk/engine.py:84`) and an unchanged close as a
fall (`orchestrator.py:229`); a day change is any other day, an earlier one
included (`risk/engine.py:75`); the first failure ends the periodic flush for good
(`data/storage.py:187`); a Supabase batch with one key twice, which a duplicate
tick makes, is refused again at every retry (`data/storage.py:214`); a duplicate's
row replaces the original's, and `resolve_duplicate` is never called; a suspect
tick that opens a window does not mark the candle; the statistics of the normaliser are shared by all
symbols; a clean close is followed by an immediate
reconnect, without event or backoff. Every connection that opens clears the attempts
(`data/deriv_client.py:167`), so a server that accepts and then drops is reconnected
to for ever, whatever `max_reconnect_attempts`, and always after the first and
shortest backoff. A probability of exactly 1 has `math.exp` overflow in the search for
the root of `risk_of_ruin` (`risk/ruin.py:94-98`), out of `assess`; and `min_stake`
has no validator (`RiskEngine` takes it for positive).

Of a restart: it lifts every breaker, the drawdown stop included, which
`configs/risk_schema.py:28` and `README.md:72` hold until an explicit `reset()`, and
the new process buys a symbol whose old contract may still be open.

Of the backtest: nothing settles while the daily limit is tripped, so the halt
lasts for the rest of the run, not the day; with `step_trades` below
`test_window_trades` epochs run backwards from window to window, which may
renew a day's budget, and once candles are traded more than n + 1 times the
aggregate forgets the first trades, though `tests/test_walk_forward.py:94-96` takes
aggregate and windows to agree; a `train_window_trades` below 5 passes the schema and
raises in the first fit. A training window with a
missing value yields a model that answers nothing, and every candle of the test window
is rejected without a word. Of the levels: a negative `threshold_adjustment_step`
passes the schema (`configs/opportunity_schema.py:54`), and easing then raises a
threshold past `threshold_max`, its "hard ceiling" (`ThresholdsWithinBounds` has a step
that is not negative for its premise); a breakout is said to want expansion and
trend of the same sign (`configs/regime_schema.py:42`) and is decided on the trend's
magnitude; an expected value of exactly the threshold counts as positive; more
`min_samples_for_adjustment` than `rolling_window_size` silently freezes
every threshold, and a target band whose upper end exceeds 1 can never tighten one.
`max_drawdown_pct` is 100 % from the first trade lost, as `README.md:99` explains and
`MetricsMatchDefinitions` confirms.

## 6. Not modelled

Numerical code is over reals and out of TLC's reach: the feature mathematics, the
fitting and updating of the probability models and of the HMM (which main does not
use), the z-scores of normaliser and validator, the means and deviations behind
Sharpe and Sortino, the percentiles over many replays. Modules receive its results as
inputs: an estimate, a vector or none, a flag. Fixed point rounds where floats
do not: `Quality`, `RiskAdjusted` and the confidences are exact to one unit of
`Scale`, and no property depends on that unit.

Trade management trains a table of reals over a simulator with random prices; it is
not wired into main and shares no state with the rest. Message parsing, logging and
metrics are left out. Configuration appears as the assumptions on the constants;
the loader reads a file once. `find_step_index_symbols.py` and the empty packages
have no state.

## 7. The plan

The trade-management simulator: positions, its exit reasons and the discretizer's
bins, apart from the values learned.
