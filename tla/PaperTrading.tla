---------------------------- MODULE PaperTrading ----------------------------
(***************************************************************************)
(* The trading loop: PaperTradingOrchestrator (paper_trading/orchestrator. *)
(* py), the ExecutionEngine and the ContractOutcomeTracker it drives, the  *)
(* one RiskEngine all symbols share, and the broker, which is external.    *)
(*                                                                         *)
(* Candles reach on_candle one at a time: the client's only receive loop   *)
(* awaits each handler.  A handler is cut where the code awaits the broker *)
(* and between its two calls into the risk engine; "handling" is its       *)
(* program counter with the locals that live across a cut.                 *)
(***************************************************************************)
EXTENDS RiskEngine

CONSTANTS
    Symbols,        \* the configured instruments
    Mode,           \* ExecutionConfig.mode, "paper" or "live"
    Closes,         \* closing prices of candles
    Histories,      \* numbers of usable states a symbol's history may yield
    MinBootstrap,   \* min_bootstrap_candles
    Quotes,         \* how a live proposal may differ from the decision
    MaxDrift,       \* max_payout_drift_pct
    MaxSlippage,    \* price_slippage_tolerance_pct
    MaxRestarts,    \* restartPolicyMaxRetries of railway.json
    MaxOpenings     \* bound: positions opened in a process's life, in live
                    \* mode contracts requested in a behavior

ASSUME TradingAssumption ==
    /\ IsFiniteSet(Symbols) /\ Symbols # {}
    /\ Mode \in {"paper", "live"}
    /\ Closes \subseteq Nat /\ Histories \subseteq Nat /\ MinBootstrap \in Nat
    /\ Quotes \subseteq [slip: Int, ratio: Nat]
    /\ MaxDrift \in Nat /\ MaxSlippage \in Nat /\ MaxOpenings \in Nat
    /\ MaxRestarts \in Nat

VARIABLES
    restarts,       \* processes that failed and were replaced
    toBootstrap,    \* symbols main.py has not called bootstrap() for yet
    bootstrapped,   \* keys of _probability_models
    liveCandles,    \* live candles seen by a symbol that has no model
    lastCandle,     \* the last completed candle of each symbol
    pending,        \* _pending_trades, NoTrade for None
    trades,         \* the PostTradeAnalyzer's record
    handling,       \* the candle handler's program counter and locals
    contracts       \* contracts requested of the broker, by contract_id

startVars == <<restarts, toBootstrap, bootstrapped>>
marketVars == <<liveCandles, lastCandle>>
bookVars == <<pending, trades>>
vars == <<riskVars, startVars, marketVars, bookVars, handling, contracts>>

-----------------------------------------------------------------------------
(* Data.                                                                    *)

Candle == [epoch: Nat, close: Nat]
NoContract == 0     \* contract_id = None

PendingTrade ==
    [entryEpoch: Nat, entryClose: Nat, direction: {-1, 1},
     stake: Nat, payout: Int, contract: Nat]
NoTrade == [entryEpoch |-> 0, entryClose |-> 0, direction |-> 0,
            stake |-> 0, payout |-> 0, contract |-> NoContract]

CompletedTrade ==
    [symbol: Symbols, entryEpoch: Nat, exitEpoch: Nat, stake: Nat, pnl: Int,
     contract: Nat]

Contract ==
    [symbol: Symbols, stake: Nat, payout: Int,
     status: {"sent", "refused", "open", "sold"}, profit: Int]

Idle == [stage |-> "idle"]
Handler ==
    {Idle}
    \cup [stage: {"poll"}, symbol: Symbols, candle: Candle, usable: BOOLEAN]
    \cup [stage: {"polled"}, symbol: Symbols, candle: Candle, usable: BOOLEAN,
          isSold: BOOLEAN, pnl: Int]
    \cup [stage: {"decide"}, symbol: Symbols, candle: Candle]
    \cup [stage: {"proposal"}, symbol: Symbols, candle: Candle, stake: Nat,
          b: Int, direction: {-1, 1}]
    \cup [stage: {"buy"}, symbol: Symbols, candle: Candle, contract: Nat,
          direction: {-1, 1}]

IsPending(s) == pending[s] # NoTrade
AwaitsBroker(s) == IsPending(s) /\ pending[s].contract # NoContract

Openings ==
    IF Mode = "live" THEN Len(contracts)
    ELSE Len(trades) + Cardinality({s \in Symbols : IsPending(s)})

-----------------------------------------------------------------------------
(* Settlement.                                                              *)

(* Paper fiction: the direction of this candle's close against the entry's, *)
(* an unchanged close counting as down.                                    *)
PaperPnl(trade, close) ==
    LET actualDirection == IF close > trade.entryClose THEN 1 ELSE -1
    IN  IF actualDirection = trade.direction
        THEN trade.payout - trade.stake ELSE -trade.stake

Completed(s, exitEpoch, pnl) ==
    [symbol |-> s, entryEpoch |-> pending[s].entryEpoch,
     exitEpoch |-> exitEpoch, stake |-> pending[s].stake, pnl |-> pnl,
     contract |-> pending[s].contract]

(* Slip: the slot is not cleared.                                           *)
FinalizeKeepingSlot(s, exitEpoch, pnl) ==
    /\ RecordTradeResult(exitEpoch, pnl)
    /\ trades' = Append(trades, Completed(s, exitEpoch, pnl))
    /\ UNCHANGED pending

(* _finalize_settled_trade: risk engine, analyzer, then the pending slot.   *)
FinalizeSettledTrade(s, exitEpoch, pnl) ==
    /\ RecordTradeResult(exitEpoch, pnl)
    /\ trades' = Append(trades, Completed(s, exitEpoch, pnl))
    /\ pending' = [pending EXCEPT ![s] = NoTrade]

(* With nothing left pending, the decision follows if the pipeline produced *)
(* a vector and the encoder a valid state.                                 *)
AfterSettlement(s, candle, usable) ==
    IF usable THEN [stage |-> "decide", symbol |-> s, candle |-> candle]
    ELSE Idle

-----------------------------------------------------------------------------
(* The handler.                                                             *)

(* main.py bootstraps every symbol once, before streaming starts.           *)
Bootstrap(s, usableStates) ==
    /\ s \in toBootstrap
    /\ toBootstrap' = toBootstrap \ {s}
    /\ bootstrapped' = IF usableStates < MinBootstrap + 1
                       THEN bootstrapped ELSE bootstrapped \cup {s}
    /\ UNCHANGED <<riskVars, restarts, marketVars, bookVars, handling,
                   contracts>>

(* on_candle, up to its first await or its decision.  Time is counted in    *)
(* units coarser than a candle: two candles of a symbol may bear one epoch. *)
OnCandle(s, candle, usable) ==
    /\ toBootstrap = {} /\ handling = Idle
    /\ candle.epoch >= lastCandle[s].epoch
    /\ lastCandle' = [lastCandle EXCEPT ![s] = candle]
    /\ \/ /\ s \notin bootstrapped
          /\ liveCandles' = [liveCandles EXCEPT
                                 ![s] = AtMost(@ + 1, MinBootstrap + 1)]
          /\ UNCHANGED <<riskVars, bookVars, handling>>
       \/ /\ s \in bootstrapped /\ AwaitsBroker(s)
          /\ handling' = [stage |-> "poll", symbol |-> s, candle |-> candle,
                          usable |-> usable]
          /\ UNCHANGED <<riskVars, bookVars, liveCandles>>
       \/ /\ s \in bootstrapped /\ IsPending(s) /\ ~AwaitsBroker(s)
          /\ FinalizeSettledTrade(s, candle.epoch,
                                  PaperPnl(pending[s], candle.close))
          /\ handling' = AfterSettlement(s, candle, usable)
          /\ UNCHANGED liveCandles
       \/ /\ s \in bootstrapped /\ ~IsPending(s)
          /\ handling' = AfterSettlement(s, candle, usable)
          /\ UNCHANGED <<riskVars, bookVars, liveCandles>>
    /\ UNCHANGED <<startVars, contracts>>

(* Slip: the handler goes on to a decision with the trade still pending.    *)
PollFailsGoingOn ==
    /\ handling.stage = "poll"
    /\ handling' = AfterSettlement(handling.symbol, handling.candle,
                                   handling.usable)
    /\ UNCHANGED <<riskVars, startVars, marketVars, bookVars, contracts>>

(* The poll raises or times out: the trade stays pending and nothing is     *)
(* opened.                                                                 *)
PollFails ==
    /\ handling.stage = "poll"
    /\ handling' = Idle
    /\ UNCHANGED <<riskVars, startVars, marketVars, bookVars, contracts>>

(* Slips: a contract that was filled counts as settled, or only one that    *)
(* was sold at a profit does.                                              *)
IsFilled(contract) == contract.status \in {"open", "sold"}
IsSoldAtProfit(contract) == contract.status = "sold" /\ contract.profit > 0

IsSold(contract) == contract.status = "sold"

(* The broker answers; the contract may be sold before the answer is read.  *)
PollAnswered ==
    /\ handling.stage = "poll"
    /\ LET contract == contracts[pending[handling.symbol].contract]
       IN  handling' = [stage |-> "polled", symbol |-> handling.symbol,
                        candle |-> handling.candle, usable |-> handling.usable,
                        isSold |-> IsSold(contract),
                        pnl |-> IF IsSold(contract) THEN contract.profit ELSE 0]
    /\ UNCHANGED <<riskVars, startVars, marketVars, bookVars, contracts>>

PollFindsOpen ==
    /\ handling.stage = "polled" /\ ~handling.isSold
    /\ handling' = Idle
    /\ UNCHANGED <<riskVars, startVars, marketVars, bookVars, contracts>>

PollFindsSold ==
    /\ handling.stage = "polled" /\ handling.isSold
    /\ FinalizeSettledTrade(handling.symbol, handling.candle.epoch,
                            handling.pnl)
    /\ handling' = AfterSettlement(handling.symbol, handling.candle,
                                   handling.usable)
    /\ UNCHANGED <<startVars, marketVars, contracts>>

(* _pending_trades[symbol] = opportunity_to_pending_trade(...).             *)
OpenPosition(s, candle, direction, stake, payout, contract) ==
    pending' = [pending EXCEPT
        ![s] = [entryEpoch |-> candle.epoch, entryClose |-> candle.close,
                direction |-> direction, stake |-> stake, payout |-> payout,
                contract |-> contract]]

(* The scorer approves what the risk engine approves and whose quality      *)
(* reaches its threshold; the bound on openings is put on the quality.     *)
Executes(ev, quality) ==
    /\ Approves(ev) /\ quality
    /\ RecommendedStake(ev) > 0 /\ ev.direction \in {-1, 1}

Decide(ev, quality) ==
    /\ handling.stage = "decide"
    /\ quality => Openings < MaxOpenings
    /\ LET s == handling.symbol
           candle == handling.candle
           stake == RecommendedStake(ev)
       IN  /\ Assess(ev, candle.epoch)
           /\ \/ /\ ~Executes(ev, quality)
                 /\ handling' = Idle
                 /\ UNCHANGED pending
              \/ /\ Executes(ev, quality) /\ Mode = "paper"
                 /\ OpenPosition(s, candle, ev.direction, stake,
                        stake + (stake * ev.b) \div Scale, NoContract)
                 /\ handling' = Idle
              \/ /\ Executes(ev, quality) /\ Mode = "live"
                 /\ handling' = [stage |-> "proposal", symbol |-> s,
                                 candle |-> candle, stake |-> stake,
                                 b |-> ev.b, direction |-> ev.direction]
                 /\ UNCHANGED pending
    /\ UNCHANGED <<startVars, marketVars, trades, contracts>>

(* The live quote against the decision: reward ratio, then price.           *)
Acceptable(ask, payout, stake, b) ==
    LET shift == (payout - ask) * Scale - b * ask
    IN  /\ ask > 0 /\ b > 0
        /\ AtLeast(shift, -shift) * Scale <= MaxDrift * b * ask
        /\ ask * Scale <= stake * (Scale + MaxSlippage)

ProposalAnswered(quote) ==
    /\ handling.stage = "proposal"
    /\ LET ask == handling.stake + quote.slip
           payout == ask + (ask * quote.ratio) \div Scale
       IN  \/ /\ ~Acceptable(ask, payout, handling.stake, handling.b)
              /\ handling' = Idle
              /\ UNCHANGED contracts
           \/ /\ Acceptable(ask, payout, handling.stake, handling.b)
              /\ contracts' = Append(contracts,
                     [symbol |-> handling.symbol, stake |-> ask,
                      payout |-> payout, status |-> "sent", profit |-> 0])
              /\ handling' = [stage |-> "buy", symbol |-> handling.symbol,
                              candle |-> handling.candle,
                              contract |-> Len(contracts) + 1,
                              direction |-> handling.direction]
    /\ UNCHANGED <<riskVars, startVars, marketVars, bookVars>>

ProposalFails ==
    /\ handling.stage = "proposal"
    /\ handling' = Idle
    /\ UNCHANGED <<riskVars, startVars, marketVars, bookVars, contracts>>

BuyAnswered ==
    /\ handling.stage = "buy"
    /\ LET contract == contracts[handling.contract]
       IN  /\ contract.status \in {"open", "sold"}
           /\ OpenPosition(handling.symbol, handling.candle,
                  handling.direction, contract.stake, contract.payout,
                  handling.contract)
    /\ handling' = Idle
    /\ UNCHANGED <<riskVars, startVars, marketVars, trades, contracts>>

(* The request is refused, times out or loses its answer: one error         *)
(* decision, and no pending trade, whatever the broker did or will do.     *)
BuyFails ==
    /\ handling.stage = "buy"
    /\ handling' = Idle
    /\ UNCHANGED <<riskVars, startVars, marketVars, bookVars, contracts>>

-----------------------------------------------------------------------------
(* The broker, as the code in src/ uses it: a buy request is filled or      *)
(* refused at any time after it was sent; a filled contract is sold on the *)
(* broker's own clock for its payout or for nothing.                       *)

BrokerFills(c) ==
    /\ contracts[c].status = "sent"
    /\ contracts' = [contracts EXCEPT ![c].status = "open"]
    /\ UNCHANGED <<riskVars, startVars, marketVars, bookVars, handling>>

BrokerRefuses(c) ==
    /\ contracts[c].status = "sent"
    /\ contracts' = [contracts EXCEPT ![c].status = "refused"]
    /\ UNCHANGED <<riskVars, startVars, marketVars, bookVars, handling>>

BrokerSettles(c, won) ==
    /\ contracts[c].status = "open"
    /\ contracts' = [contracts EXCEPT
           ![c].status = "sold",
           ![c].profit = IF won THEN contracts[c].payout - contracts[c].stake
                        ELSE -contracts[c].stake]
    /\ UNCHANGED <<riskVars, startVars, marketVars, bookVars, handling>>

-----------------------------------------------------------------------------
(* A failure.                                                               *)

(* Slip: the trade history is read back, the engine's record is not.        *)
RestartWithHistory ==
    /\ restarts < MaxRestarts
    /\ restarts' = restarts + 1
    /\ ResetEngine
    /\ toBootstrap' = Symbols /\ bootstrapped' = {}
    /\ liveCandles' = [s \in Symbols |-> 0]
    /\ pending' = [s \in Symbols |-> NoTrade]
    /\ handling' = Idle
    /\ UNCHANGED <<lastCandle, trades, contracts>>

(* The worker fails at any point, in a request to the broker perhaps, and   *)
(* railway.json starts main.py again: engine, loop and record are built    *)
(* anew and no file is read, so contracts the broker has, filled or still  *)
(* to be filled, are forgotten.  The market and the broker go on.          *)
Restart ==
    /\ restarts < MaxRestarts
    /\ restarts' = restarts + 1
    /\ ResetEngine
    /\ toBootstrap' = Symbols /\ bootstrapped' = {}
    /\ liveCandles' = [s \in Symbols |-> 0]
    /\ pending' = [s \in Symbols |-> NoTrade]
    /\ trades' = <<>>
    /\ handling' = Idle
    /\ UNCHANGED <<lastCandle, contracts>>

-----------------------------------------------------------------------------
Init ==
    /\ RiskInit
    /\ restarts = 0
    /\ toBootstrap = Symbols
    /\ bootstrapped = {}
    /\ liveCandles = [s \in Symbols |-> 0]
    /\ lastCandle = [s \in Symbols |-> [epoch |-> 0, close |-> 0]]
    /\ pending = [s \in Symbols |-> NoTrade]
    /\ trades = <<>>
    /\ handling = Idle
    /\ contracts = <<>>

Candles == [epoch: Epochs, close: Closes]

BootstrapStep == \E s \in Symbols, n \in Histories : Bootstrap(s, n)

CandleStep(s, usable) == \E candle \in Candles : OnCandle(s, candle, usable)

DecideStep == \E ev \in EVEstimates, quality \in BOOLEAN : Decide(ev, quality)

ProposalStep ==
    ProposalFails \/ \E quote \in Quotes : ProposalAnswered(quote)

PollStep == PollFails \/ PollAnswered \/ PollFindsOpen \/ PollFindsSold

Next ==
    \/ BootstrapStep
    \/ \E s \in Symbols, usable \in BOOLEAN : CandleStep(s, usable)
    \/ PollStep
    \/ DecideStep
    \/ ProposalStep
    \/ BuyAnswered \/ BuyFails
    \/ \E c \in DOMAIN contracts :
          \/ BrokerFills(c) \/ BrokerRefuses(c)
          \/ \E won \in BOOLEAN : BrokerSettles(c, won)
    \/ Restart

Spec == Init /\ [][Next]_vars

(* What the running system owes: every symbol's candles keep completing and *)
(* keep yielding vectors, a handler that has started goes on (each request *)
(* is answered or times out), and an open contract is sold in the end.     *)
(* No request need ever succeed.                                           *)
Fairness ==
    /\ WF_vars(BootstrapStep)
    /\ \A s \in Symbols : SF_vars(CandleStep(s, TRUE))
    /\ WF_vars(DecideStep) /\ WF_vars(ProposalStep)
    /\ WF_vars(BuyAnswered \/ BuyFails)
    /\ WF_vars(PollStep)
    /\ WF_vars(\E c \in DOMAIN contracts, won \in BOOLEAN :
                   BrokerSettles(c, won))

FairSpec == Spec /\ Fairness

-----------------------------------------------------------------------------
(* Properties.                                                              *)

(* Every variable of the loop holds a value of its kind.                    *)
TypeOK ==
    /\ RiskTypeOK
    /\ restarts \in 0..MaxRestarts
    /\ toBootstrap \subseteq Symbols /\ bootstrapped \subseteq Symbols
    /\ liveCandles \in [Symbols -> 0..(MinBootstrap + 1)]
    /\ lastCandle \in [Symbols -> Candle]
    /\ pending \in [Symbols -> PendingTrade \cup {NoTrade}]
    /\ trades \in Seq(CompletedTrade)
    /\ handling \in Handler
    /\ contracts \in Seq(Contract)

StakesAtRisk == FoldFunctionOnSet(+, 0, [s \in Symbols |-> pending[s].stake],
                                  Symbols)

(* The account and the record agree: the risk engine's equity is the        *)
(* starting equity plus the pnl of every completed trade, each of which    *)
(* reached the shortfall record.                                           *)
EquityLedger ==
    /\ equity = StartingEquity
                + FoldFunction(+, 0, [i \in DOMAIN trades |-> trades[i].pnl])
    /\ Len(pnlPcts) = Len(trades)

(* The platform's books are the broker's: a live trade is booked once, only *)
(* after the broker sold that contract and with the broker's profit, and a *)
(* contract still pending is booked nowhere and belongs to its symbol.     *)
BooksAgreeWithBroker ==
    LET Live == {i \in DOMAIN trades : trades[i].contract # NoContract}
    IN  /\ \A i \in Live :
              LET contract == contracts[trades[i].contract]
              IN  /\ contract.status = "sold" /\ contract.profit = trades[i].pnl
                  /\ contract.symbol = trades[i].symbol
        /\ \A i, j \in Live : trades[i].contract = trades[j].contract => i = j
        /\ \A s \in {t \in Symbols : AwaitsBroker(t)} :
              /\ contracts[pending[s].contract].symbol = s
              /\ contracts[pending[s].contract].status \in {"open", "sold"}
              /\ \A i \in Live : trades[i].contract # pending[s].contract

(* A paper position is held for exactly one candle of its symbol: between   *)
(* handlers, what is pending was opened on the last candle that completed. *)
PaperHeldOneCandle ==
    handling = Idle =>
        \A s \in {t \in Symbols : IsPending(t) /\ ~AwaitsBroker(t)} :
            /\ pending[s].entryEpoch = lastCandle[s].epoch
            /\ pending[s].entryClose = lastCandle[s].close

(* The most a breaker can be overshot by.  Positions are opened only below  *)
(* the limits, but the stakes already open elsewhere are not set aside: if *)
(* all were lost, the loss would stay within the limit plus one exposure   *)
(* cap (with slippage) per symbol.                                         *)
BreakerOvershootBounded ==
    LET Slack == Cardinality(Symbols) * MaxExposure * peakEquity
                 * (Scale + MaxSlippage)
        Within(top, limit) ==
            (top - equity + StakesAtRisk) * Scale * Scale
                <= limit * top * Scale + Slack
    IN  Within(peakEquity, MaxDrawdown) /\ Within(dayStartEquity, MaxDailyLoss)

(* No position is opened while a breaker is tripped, however long the       *)
(* proposal and the purchase take after the decision.                      *)
NoEntryWhileHalted ==
    [][\A s \in Symbols :
          ~IsPending(s) /\ IsPending(s)' => ~DrawdownTripped /\ ~DailyTripped
      ]_vars

(* As long as the process lives, a position once opened is never replaced   *)
(* or altered: it leaves its slot only by being booked.                    *)
PositionLeavesByBooking ==
    [][\A s \in Symbols :
          IsPending(s) /\ pending'[s] # pending[s] /\ restarts' = restarts =>
              /\ ~IsPending(s)'
              /\ Len(trades') = Len(trades) + 1
              /\ trades'[Len(trades')].symbol = s
              /\ trades'[Len(trades')].stake = pending[s].stake
      ]_vars

(* The loop keeps the account's promises.                                   *)
Account == INSTANCE TradingAccount WITH
    balance <- equity, peak <- peakEquity, opening <- dayStartEquity,
    atRisk <- [s \in Symbols |-> pending[s].stake]

ImplementsAccount == Account!AccountSpec

(* A pause after a losing streak comes to an end, though no trade can be    *)
(* won while it lasts.                                                     *)
StreakPauseEnds == cooldown > 0 ~> cooldown = 0

(* A live position is polled until it is booked.  One that is never booked  *)
(* is asked after for ever and, from some time on, always without an       *)
(* answer: the loop neither stops asking nor takes the answer that the     *)
(* contract was sold, at a gain or a loss, for anything else.              *)
PolledUntilBooked ==
    \A s \in Symbols :
        \/ []<>~AwaitsBroker(s)
        \/ /\ []<><<PollFails /\ handling.symbol = s>>_vars
           /\ <>[][PollAnswered => handling.symbol # s]_vars

-----------------------------------------------------------------------------
(* What the repository says of the loop and the code does not keep.         *)

(* "One open position per symbol at a time" (orchestrator.py, types.py), at *)
(* the broker, where the positions are.                                    *)
OneOpenPositionPerSymbol ==
    \A s \in Symbols :
        Cardinality({c \in DOMAIN contracts :
            contracts[c].symbol = s /\ contracts[c].status = "open"}) <= 1

(* "Trading halts for the day" (risk_schema.py): a daily-loss veto is given *)
(* only on the day the loss was made.                                      *)
DailyHaltEndsWithTheDay ==
    "daily" \in assessment.vetoes => DayOf(assessment.epoch) = currentDay

(* A symbol skipped at startup "will retry once enough live candles         *)
(* accumulate" (main.py).                                                  *)
BootstrapRetried ==
    \A s \in Symbols :
        liveCandles[s] >= MinBootstrap + 1 ~> s \in bootstrapped

=============================================================================
