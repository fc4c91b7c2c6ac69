------------------------- MODULE PaperTradingProofs -------------------------
(* Theorems about PaperTrading, for every configuration, market and broker. *)
EXTENDS PaperTrading, RiskEngineProofs, SequenceTheorems

USE DEF NoContract

-----------------------------------------------------------------------------
(* The inductive invariant.                                                 *)

(* What a handler remembers across an await still holds after it: the       *)
(* polled trade is pending, an answer that its contract was sold is true,  *)
(* the symbol decided on is free, no breaker has tripped since the         *)
(* decision, and the contract being bought is nobody's yet.                *)
HandlerInv ==
    /\ handling.stage \in {"poll", "polled"} => AwaitsBroker(handling.symbol)
    /\ handling.stage = "polled" /\ handling.isSold =>
          LET contract == contracts[pending[handling.symbol].contract]
          IN  contract.status = "sold" /\ contract.profit = handling.pnl
    /\ handling.stage \in {"decide", "proposal", "buy"} =>
          ~IsPending(handling.symbol)
    /\ handling.stage \in {"proposal", "buy"} =>
          ~DrawdownTripped /\ ~DailyTripped
    /\ handling.stage = "proposal" =>
          /\ handling.stake > 0
          /\ handling.stake * Scale <= MaxExposure * equity
    /\ handling.stage = "buy" =>
          /\ handling.contract \in DOMAIN contracts
          /\ contracts[handling.contract].symbol = handling.symbol
          /\ contracts[handling.contract].stake * Scale * Scale
                <= MaxExposure * equity * (Scale + MaxSlippage)
          /\ \A s \in Symbols : pending[s].contract # handling.contract
          /\ \A i \in DOMAIN trades : trades[i].contract # handling.contract

(* An open position has a stake, cannot pay less than nothing, and a live   *)
(* one is a contract that was really requested.                            *)
PositionInv ==
    \A s \in Symbols : IsPending(s) =>
        /\ pending[s].stake > 0 /\ pending[s].payout >= 0
        /\ AwaitsBroker(s) =>
              /\ pending[s].contract \in DOMAIN contracts
              /\ contracts[pending[s].contract].stake = pending[s].stake

(* A contract can lose its stake and no more.                               *)
ContractInv ==
    \A c \in DOMAIN contracts :
        /\ contracts[c].stake > 0 /\ contracts[c].payout >= 0
        /\ contracts[c].profit >= -contracts[c].stake

(* A booked live trade names a contract that was really requested.          *)
TradesInv ==
    \A i \in DOMAIN trades :
        trades[i].contract \in DOMAIN contracts \cup {NoContract}

LoopInv ==
    /\ TypeOK /\ RiskInv /\ HandlerInv /\ PositionInv /\ ContractInv
    /\ TradesInv /\ BooksAgreeWithBroker

-----------------------------------------------------------------------------
(* The handler's record at each of its stages.                              *)

LEMMA HandlerStages ==
    ASSUME handling \in Handler
    PROVE  /\ handling.stage \in
                 {"idle", "poll", "polled", "decide", "proposal", "buy"}
           /\ handling.stage # "idle" =>
                 handling.symbol \in Symbols /\ handling.candle \in Candle
           /\ handling.stage \in {"poll", "polled"} =>
                 handling.usable \in BOOLEAN
           /\ handling.stage = "polled" =>
                 handling.isSold \in BOOLEAN /\ handling.pnl \in Int
           /\ handling.stage = "proposal" =>
                 /\ handling.stake \in Nat /\ handling.b \in Int
                 /\ handling.direction \in {-1, 1}
           /\ handling.stage = "buy" =>
                 handling.contract \in Nat /\ handling.direction \in {-1, 1}
  BY DEF Handler, Idle

LEMMA AfterSettlementType ==
    ASSUME NEW s \in Symbols, NEW candle \in Candle, NEW usable \in BOOLEAN
    PROVE  /\ AfterSettlement(s, candle, usable) \in Handler
           /\ AfterSettlement(s, candle, usable).stage \in {"idle", "decide"}
           /\ AfterSettlement(s, candle, usable).stage = "decide" =>
                 AfterSettlement(s, candle, usable).symbol = s
  BY DEF AfterSettlement, Handler, Idle

LEMMA IdleType == Idle \in Handler /\ Idle.stage = "idle"
  BY DEF Handler, Idle

LEMMA ContractType ==
    ASSUME TypeOK, NEW c \in DOMAIN contracts
    PROVE  /\ contracts[c].symbol \in Symbols /\ contracts[c].stake \in Nat
           /\ contracts[c].payout \in Int /\ contracts[c].profit \in Int
           /\ contracts[c].status \in {"sent", "refused", "open", "sold"}
  <1>1. contracts \in Seq(Contract)
    BY DEF TypeOK
  <1>2. contracts[c] \in Contract
    BY <1>1, ElementOfSeq, LenProperties
  <1> QED
    BY <1>2 DEF Contract

(* A record that is nobody's position is not a position.                    *)
LEMMA NoTradeIsNone == NoTrade \notin PendingTrade
  BY DEF NoTrade, PendingTrade

-----------------------------------------------------------------------------
(* Booking a trade.                                                         *)

LEMMA FinalizeEffect ==
    ASSUME TypeOK, NEW s \in Symbols, NEW epoch \in Nat, NEW pnl \in Int,
           FinalizeSettledTrade(s, epoch, pnl)
    PROVE  /\ RiskCall
           /\ pending' \in [Symbols -> PendingTrade \cup {NoTrade}]
           /\ \A t \in Symbols :
                 pending'[t] = IF t = s THEN NoTrade ELSE pending[t]
           /\ trades' \in Seq(CompletedTrade)
           /\ Len(trades') = Len(trades) + 1
           /\ \A i \in 1..Len(trades) : trades'[i] = trades[i]
           /\ trades'[Len(trades) + 1] = Completed(s, epoch, pnl)
  <1>1. RiskCall
    BY DEF FinalizeSettledTrade, RiskCall
  <1>2. pending' \in [Symbols -> PendingTrade \cup {NoTrade}]
    BY DEF FinalizeSettledTrade, TypeOK
  <1>3. \A t \in Symbols : pending'[t] = IF t = s THEN NoTrade ELSE pending[t]
    BY DEF FinalizeSettledTrade, TypeOK
  <1>4. Completed(s, epoch, pnl) \in CompletedTrade
    <2>1. pending[s] \in PendingTrade \cup {NoTrade}
      BY DEF TypeOK
    <2> QED
      BY <2>1 DEF Completed, CompletedTrade, PendingTrade, NoTrade
  <1>5. trades' = Append(trades, Completed(s, epoch, pnl))
    BY DEF FinalizeSettledTrade
  <1>6. trades \in Seq(CompletedTrade)
    BY DEF TypeOK
  <1> QED
    BY <1>1, <1>2, <1>3, <1>4, <1>5, <1>6, AppendProperties

(* Booking the settled trade of a symbol, with the broker's profit when the *)
(* trade was live, keeps the books; the symbol is then free.               *)
LEMMA FinalizeKeepsBooks ==
    ASSUME LoopInv, NEW s \in Symbols, NEW epoch \in Nat, NEW pnl \in Int,
           FinalizeSettledTrade(s, epoch, pnl), UNCHANGED contracts,
           AwaitsBroker(s) =>
              /\ contracts[pending[s].contract].status = "sold"
              /\ contracts[pending[s].contract].profit = pnl
    PROVE  /\ RiskInv' /\ PositionInv' /\ ContractInv' /\ TradesInv'
           /\ BooksAgreeWithBroker' /\ ~IsPending(s)'
  <1> USE DEF LoopInv
  <1>1. /\ RiskCall
        /\ \A t \in Symbols :
              pending'[t] = IF t = s THEN NoTrade ELSE pending[t]
        /\ Len(trades) \in Nat /\ DOMAIN trades = 1..Len(trades)
        /\ trades' \in Seq(CompletedTrade)
        /\ Len(trades') = Len(trades) + 1
        /\ DOMAIN trades' = 1..(Len(trades) + 1)
        /\ \A i \in 1..Len(trades) : trades'[i] = trades[i]
        /\ trades'[Len(trades) + 1] = Completed(s, epoch, pnl)
    BY FinalizeEffect, LenProperties DEF TypeOK
  <1>2. RiskInv'
    BY <1>1, RiskInvStep
  <1>3. PositionInv' /\ ~IsPending(s)'
    BY <1>1 DEF PositionInv, IsPending, AwaitsBroker
  <1>4. ContractInv'
    BY DEF ContractInv
  <1>5. /\ Completed(s, epoch, pnl).contract = pending[s].contract
        /\ Completed(s, epoch, pnl).symbol = s
        /\ Completed(s, epoch, pnl).pnl = pnl
    BY DEF Completed
  <1>6. pending[s].contract # NoContract => AwaitsBroker(s)
    BY DEF AwaitsBroker, IsPending, NoTrade
  <1>7. TradesInv'
    <2> SUFFICES ASSUME NEW i \in DOMAIN trades'
                 PROVE  trades'[i].contract \in DOMAIN contracts \cup {NoContract}
      BY DEF TradesInv
    <2>1. CASE i \in DOMAIN trades
      BY <2>1, <1>1 DEF TradesInv
    <2>2. CASE i = Len(trades) + 1
      BY <2>2, <1>1, <1>5, <1>6 DEF PositionInv, AwaitsBroker
    <2> QED
      BY <2>1, <2>2, <1>1
  <1>8. BooksAgreeWithBroker'
    <2>1. ASSUME NEW i \in DOMAIN trades', trades'[i].contract # NoContract
          PROVE  /\ contracts[trades'[i].contract].status = "sold"
                 /\ contracts[trades'[i].contract].profit = trades'[i].pnl
                 /\ contracts[trades'[i].contract].symbol = trades'[i].symbol
      <3>1. CASE i \in DOMAIN trades
        BY <2>1, <3>1, <1>1 DEF BooksAgreeWithBroker
      <3>2. CASE i = Len(trades) + 1
        BY <2>1, <3>2, <1>1, <1>5, <1>6 DEF BooksAgreeWithBroker
      <3> QED
        BY <3>1, <3>2, <1>1
    <2>2. \A i \in DOMAIN trades : pending[s].contract # NoContract =>
              trades[i].contract # pending[s].contract
      BY <1>6 DEF BooksAgreeWithBroker
    <2>3. ASSUME NEW i \in DOMAIN trades', NEW j \in DOMAIN trades',
                 trades'[i].contract # NoContract,
                 trades'[i].contract = trades'[j].contract
          PROVE  i = j
      <3>1. CASE i \in DOMAIN trades /\ j \in DOMAIN trades
        BY <2>3, <3>1, <1>1 DEF BooksAgreeWithBroker
      <3>2. CASE i \in DOMAIN trades /\ j = Len(trades) + 1
        BY <2>3, <3>2, <2>2, <1>1, <1>5
      <3>3. CASE i = Len(trades) + 1 /\ j \in DOMAIN trades
        BY <2>3, <3>3, <2>2, <1>1, <1>5
      <3> QED
        BY <3>1, <3>2, <3>3, <1>1
    <2>4. ASSUME NEW t \in Symbols, AwaitsBroker(t)'
          PROVE  /\ contracts[pending'[t].contract].symbol = t
                 /\ contracts[pending'[t].contract].status \in {"open", "sold"}
                 /\ \A i \in DOMAIN trades' :
                       trades'[i].contract # pending'[t].contract
      <3>1. t # s /\ pending'[t] = pending[t] /\ AwaitsBroker(t)
        BY <2>4, <1>1 DEF AwaitsBroker, IsPending
      <3>2. /\ contracts[pending[t].contract].symbol = t
            /\ contracts[pending[t].contract].status \in {"open", "sold"}
            /\ \A i \in DOMAIN trades :
                  trades[i].contract # pending[t].contract
        BY <3>1 DEF BooksAgreeWithBroker, AwaitsBroker
      <3>3. pending[s].contract # pending[t].contract
        BY <3>1, <3>2, <1>6 DEF BooksAgreeWithBroker, AwaitsBroker
      <3> QED
        BY <3>1, <3>2, <3>3, <1>1, <1>5
    <2> QED
      BY <2>1, <2>3, <2>4 DEF BooksAgreeWithBroker
  <1> QED
    BY <1>2, <1>3, <1>4, <1>7, <1>8

-----------------------------------------------------------------------------
(* Opening a position.                                                      *)

LEMMA OpenKeepsBooks ==
    ASSUME LoopInv, NEW s \in Symbols, ~IsPending(s),
           NEW candle \in Candle, NEW direction \in {-1, 1},
           NEW stake \in Nat, stake > 0, NEW payout \in Int, payout >= 0,
           NEW c \in Nat, OpenPosition(s, candle, direction, stake, payout, c),
           UNCHANGED <<trades, contracts>>,
           c # NoContract =>
              /\ c \in DOMAIN contracts /\ contracts[c].stake = stake
              /\ contracts[c].symbol = s
              /\ contracts[c].status \in {"open", "sold"}
              /\ \A i \in DOMAIN trades : trades[i].contract # c
    PROVE  /\ pending' \in [Symbols -> PendingTrade \cup {NoTrade}]
           /\ \A t \in Symbols \ {s} : pending'[t] = pending[t]
           /\ pending'[s].stake = stake /\ IsPending(s)'
           /\ PositionInv' /\ ContractInv' /\ TradesInv'
           /\ BooksAgreeWithBroker'
  <1> USE DEF LoopInv
  <1> DEFINE position ==
        [entryEpoch |-> candle.epoch, entryClose |-> candle.close,
         direction |-> direction, stake |-> stake, payout |-> payout,
         contract |-> c]
  <1>1. position \in PendingTrade
    BY DEF PendingTrade, Candle
  <1>2. /\ pending' \in [Symbols -> PendingTrade \cup {NoTrade}]
        /\ pending'[s] = position
        /\ \A t \in Symbols \ {s} : pending'[t] = pending[t]
    BY <1>1 DEF OpenPosition, TypeOK
  <1>3. IsPending(s)'
    BY <1>1, <1>2, NoTradeIsNone DEF IsPending
  <1>4. AwaitsBroker(s)' <=> c # NoContract
    BY <1>2, <1>3 DEF AwaitsBroker
  <1>5. \A t \in Symbols \ {s} :
            /\ IsPending(t)' <=> IsPending(t)
            /\ AwaitsBroker(t)' <=> AwaitsBroker(t)
    BY <1>2 DEF AwaitsBroker, IsPending
  <1>6. PositionInv'
    BY <1>2, <1>4, <1>5 DEF PositionInv
  <1>7. ContractInv' /\ TradesInv'
    BY DEF ContractInv, TradesInv
  <1>8. BooksAgreeWithBroker'
    <2>1. ASSUME NEW t \in Symbols, AwaitsBroker(t)'
          PROVE  /\ contracts[pending'[t].contract].symbol = t
                 /\ contracts[pending'[t].contract].status \in {"open", "sold"}
                 /\ \A i \in DOMAIN trades :
                       trades[i].contract # pending'[t].contract
      <3>1. CASE t = s
        BY <2>1, <3>1, <1>2, <1>4
      <3>2. CASE t # s
        BY <2>1, <3>2, <1>2, <1>5 DEF BooksAgreeWithBroker, AwaitsBroker
      <3> QED
        BY <3>1, <3>2
    <2> QED
      BY <2>1 DEF BooksAgreeWithBroker
  <1> QED
    BY <1>2, <1>3, <1>6, <1>7, <1>8

-----------------------------------------------------------------------------
(* Steps that leave the books alone.                                        *)

LEMMA BooksUnchanged ==
    ASSUME LoopInv, UNCHANGED <<bookVars, contracts>>
    PROVE  PositionInv' /\ ContractInv' /\ TradesInv' /\ BooksAgreeWithBroker'
  BY DEF LoopInv, bookVars, PositionInv, ContractInv, TradesInv,
         BooksAgreeWithBroker, IsPending, AwaitsBroker

LEMMA RiskUnchanged ==
    ASSUME LoopInv, UNCHANGED riskVars
    PROVE  RiskInv'
  BY RiskInvStep DEF LoopInv

LEMMA BootstrapKeeps ==
    ASSUME LoopInv, NEW s \in Symbols, NEW n \in Nat, Bootstrap(s, n)
    PROVE  LoopInv'
  <1>1. TypeOK'
    BY DEF LoopInv, Bootstrap, TypeOK, RiskTypeOK, riskVars, marketVars, bookVars
  <1>2. HandlerInv'
    BY DEF LoopInv, Bootstrap, HandlerInv, riskVars, bookVars, IsPending,
           AwaitsBroker, DrawdownTripped, DailyTripped
  <1> QED
    BY <1>1, <1>2, BooksUnchanged, RiskUnchanged DEF Bootstrap, LoopInv

(* A poll, a proposal or a purchase that fails ends the handler.            *)
LEMMA GivingUpKeeps ==
    ASSUME LoopInv, handling' = Idle,
           UNCHANGED <<riskVars, startVars, marketVars, bookVars, contracts>>
    PROVE  LoopInv'
  <1>1. TypeOK'
    BY IdleType
    DEF LoopInv, TypeOK, RiskTypeOK, riskVars, startVars, marketVars, bookVars
  <1>2. HandlerInv'
    BY IdleType DEF HandlerInv
  <1> QED
    BY <1>1, <1>2, BooksUnchanged, RiskUnchanged DEF LoopInv

-----------------------------------------------------------------------------
(* A candle and a poll.                                                     *)

(* The handler after a settlement, or after finding nothing to settle.      *)
LEMMA SettledHandler ==
    ASSUME NEW s \in Symbols, NEW candle \in Candle, NEW usable \in BOOLEAN,
           handling' = AfterSettlement(s, candle, usable), ~IsPending(s)'
    PROVE  handling' \in Handler /\ HandlerInv'
  BY AfterSettlementType DEF HandlerInv

LEMMA PaperPnlType ==
    ASSUME NEW trade \in PendingTrade, NEW close \in Nat
    PROVE  /\ PaperPnl(trade, close) \in Int
           /\ trade.payout >= 0 => PaperPnl(trade, close) >= -trade.stake
  BY DEF PaperPnl, PendingTrade

LEMMA OnCandleKeeps ==
    ASSUME LoopInv, NEW s \in Symbols, NEW candle \in Candle,
           NEW usable \in BOOLEAN, OnCandle(s, candle, usable)
    PROVE  LoopInv'
  <1> USE DEF LoopInv
  <1>1. /\ lastCandle' \in [Symbols -> Candle]
        /\ UNCHANGED <<startVars, contracts>>
        /\ handling = Idle
    BY DEF OnCandle, TypeOK
  <1>2. CASE /\ liveCandles' = [liveCandles EXCEPT
                                   ![s] = AtMost(@ + 1, MinBootstrap + 1)]
             /\ UNCHANGED <<riskVars, bookVars, handling>>
    <2>1. liveCandles' \in [Symbols -> 0..(MinBootstrap + 1)]
      BY <1>2, TradingAssumption DEF TypeOK, AtMost
    <2>2. TypeOK'
      BY <1>1, <1>2, <2>1
      DEF TypeOK, RiskTypeOK, riskVars, startVars, bookVars
    <2>3. HandlerInv'
      BY <1>1, <1>2, IdleType DEF HandlerInv
    <2> QED
      BY <1>1, <1>2, <2>2, <2>3, BooksUnchanged, RiskUnchanged
  <1>3. CASE /\ AwaitsBroker(s)
             /\ handling' = [stage |-> "poll", symbol |-> s,
                             candle |-> candle, usable |-> usable]
             /\ UNCHANGED <<riskVars, bookVars, liveCandles>>
    <2>1. TypeOK'
      BY <1>1, <1>3
      DEF TypeOK, RiskTypeOK, riskVars, startVars, bookVars, Handler
    <2>2. HandlerInv'
      BY <1>3 DEF HandlerInv, AwaitsBroker, IsPending, bookVars
    <2> QED
      BY <1>1, <1>3, <2>1, <2>2, BooksUnchanged, RiskUnchanged
  <1>4. CASE /\ IsPending(s) /\ ~AwaitsBroker(s)
             /\ FinalizeSettledTrade(s, candle.epoch,
                                     PaperPnl(pending[s], candle.close))
             /\ handling' = AfterSettlement(s, candle, usable)
             /\ UNCHANGED liveCandles
    <2>1. candle.epoch \in Nat /\ candle.close \in Nat
      BY DEF Candle
    <2>2. PaperPnl(pending[s], candle.close) \in Int
      BY <1>4, <2>1, PaperPnlType DEF TypeOK, IsPending
    <2>3. /\ RiskInv' /\ PositionInv' /\ ContractInv' /\ TradesInv'
          /\ BooksAgreeWithBroker' /\ ~IsPending(s)'
      BY <1>1, <1>4, <2>1, <2>2, FinalizeKeepsBooks
    <2>4. /\ pending' \in [Symbols -> PendingTrade \cup {NoTrade}]
          /\ trades' \in Seq(CompletedTrade)
      BY <1>4, <2>1, <2>2, FinalizeEffect
    <2>5. handling' \in Handler /\ HandlerInv'
      BY <1>4, <2>3, SettledHandler
    <2>6. TypeOK'
      BY <1>1, <1>4, <2>3, <2>4, <2>5 DEF TypeOK, RiskInv, startVars
    <2> QED
      BY <2>3, <2>5, <2>6
  <1>5. CASE /\ ~IsPending(s)
             /\ handling' = AfterSettlement(s, candle, usable)
             /\ UNCHANGED <<riskVars, bookVars, liveCandles>>
    <2>1. ~IsPending(s)'
      BY <1>5 DEF IsPending, bookVars
    <2>2. handling' \in Handler /\ HandlerInv'
      BY <1>5, <2>1, SettledHandler
    <2>3. TypeOK'
      BY <1>1, <1>5, <2>2
      DEF TypeOK, RiskTypeOK, riskVars, startVars, bookVars
    <2> QED
      BY <1>1, <1>5, <2>2, <2>3, BooksUnchanged, RiskUnchanged
  <1> QED
    BY <1>2, <1>3, <1>4, <1>5 DEF OnCandle

(* What the broker answered is remembered; nothing else changes.            *)
LEMMA PollAnsweredKeeps ==
    ASSUME LoopInv, PollAnswered PROVE LoopInv'
  <1> USE DEF LoopInv
  <1>1. PICK s \in Symbols, candle \in Candle, usable \in BOOLEAN :
            /\ s = handling.symbol /\ candle = handling.candle
            /\ usable = handling.usable
    BY HandlerStages DEF PollAnswered, TypeOK
  <1>2. AwaitsBroker(s) /\ pending[s].contract \in DOMAIN contracts
    BY <1>1 DEF PollAnswered, HandlerInv, PositionInv, AwaitsBroker
  <1> DEFINE contract == contracts[pending[s].contract]
             isSold == contract.status = "sold"
  <1>3. PICK pnl \in Int : pnl = IF isSold THEN contract.profit ELSE 0
    BY <1>2, ContractType
  <1>4. /\ handling' = [stage |-> "polled", symbol |-> s, candle |-> candle,
                        usable |-> usable, isSold |-> isSold, pnl |-> pnl]
        /\ UNCHANGED <<riskVars, startVars, marketVars, bookVars, contracts>>
    BY <1>1, <1>3 DEF PollAnswered, IsSold
  <1>5. handling' \in Handler
    BY <1>4 DEF Handler
  <1>6. HandlerInv'
    BY <1>2, <1>3, <1>4 DEF HandlerInv, AwaitsBroker, IsPending, bookVars
  <1>7. TypeOK'
    BY <1>4, <1>5
    DEF TypeOK, RiskTypeOK, riskVars, startVars, marketVars, bookVars
  <1> QED
    BY <1>4, <1>6, <1>7, BooksUnchanged, RiskUnchanged

LEMMA PollFindsSoldKeeps ==
    ASSUME LoopInv, PollFindsSold PROVE LoopInv'
  <1> USE DEF LoopInv
  <1>1. /\ handling.symbol \in Symbols /\ handling.candle \in Candle
        /\ handling.usable \in BOOLEAN
    BY HandlerStages DEF PollFindsSold, TypeOK
  <1>2. PICK s \in Symbols, candle \in Candle, usable \in BOOLEAN :
            /\ s = handling.symbol /\ candle = handling.candle
            /\ usable = handling.usable
    BY <1>1
  <1>3. AwaitsBroker(s) /\ pending[s].contract \in DOMAIN contracts
    BY <1>2 DEF PollFindsSold, HandlerInv, PositionInv, AwaitsBroker
  <1>4. PICK pnl \in Int : pnl = handling.pnl
    BY HandlerStages DEF PollFindsSold, TypeOK
  <1>5. /\ FinalizeSettledTrade(s, candle.epoch, pnl)
        /\ contracts[pending[s].contract].status = "sold"
        /\ contracts[pending[s].contract].profit = pnl
        /\ handling' = AfterSettlement(s, candle, usable)
        /\ UNCHANGED <<startVars, marketVars, contracts>>
    BY <1>2, <1>4 DEF PollFindsSold, HandlerInv
  <1>6. candle.epoch \in Nat
    BY DEF Candle
  <1>7. /\ RiskInv' /\ PositionInv' /\ ContractInv' /\ TradesInv'
        /\ BooksAgreeWithBroker' /\ ~IsPending(s)'
    BY <1>4, <1>5, <1>6, FinalizeKeepsBooks
  <1>8. /\ pending' \in [Symbols -> PendingTrade \cup {NoTrade}]
        /\ trades' \in Seq(CompletedTrade)
    BY <1>5, <1>6, FinalizeEffect
  <1>9. handling' \in Handler /\ HandlerInv'
    BY <1>5, <1>7, SettledHandler
  <1>10. TypeOK'
    BY <1>5, <1>7, <1>8, <1>9 DEF TypeOK, RiskInv, startVars, marketVars
  <1> QED
    BY <1>7, <1>9, <1>10

-----------------------------------------------------------------------------
(* A decision, a proposal and a purchase.                                   *)

(* assess() changes neither the equity nor what the breakers look at.       *)
LEMMA AssessEffect ==
    ASSUME NEW ev \in EVEstimate, NEW epoch \in Nat, Assess(ev, epoch)
    PROVE  /\ RiskCall
           /\ UNCHANGED <<equity, peakEquity, dayStartEquity, DrawdownTripped,
                          DailyTripped>>
  BY DEF Assess, RiskCall, DrawdownTripped, DailyTripped

(* A paper position pays at least its stake when it wins.                   *)
LEMMA PaperPayout ==
    ASSUME NEW stake \in Nat, NEW b \in Nat
    PROVE  stake + (stake * b) \div Scale \in Nat
  <1>1. stake * b \in Nat
    OBVIOUS
  <1>2. (stake * b) \div Scale \in Nat
    BY <1>1, ConfigAssumption, ScaleAssumption
  <1> QED
    BY <1>2

LEMMA DecideKeeps ==
    ASSUME LoopInv, NEW ev \in EVEstimate, NEW quality \in BOOLEAN,
           Decide(ev, quality)
    PROVE  LoopInv'
  <1> USE DEF LoopInv
  <1>1. PICK s \in Symbols, candle \in Candle :
            s = handling.symbol /\ candle = handling.candle
    BY HandlerStages DEF Decide, TypeOK
  <1>2. ~IsPending(s)
    BY <1>1 DEF Decide, HandlerInv
  <1>3. PICK stake \in Int : stake = RecommendedStake(ev)
    BY RecommendedStakeType DEF TypeOK, RiskTypeOK
  <1>4. candle.epoch \in Nat /\ Assess(ev, candle.epoch)
        /\ UNCHANGED <<startVars, marketVars, trades, contracts>>
    BY <1>1 DEF Decide, Candle
  <1>5. /\ RiskInv' /\ RiskTypeOK'
        /\ UNCHANGED <<equity, DrawdownTripped, DailyTripped>>
    BY <1>4, AssessEffect, RiskInvStep DEF RiskInv
  <1>6. Executes(ev, quality) =>
            /\ stake \in Nat /\ stake > 0 /\ stake * Scale <= MaxExposure * equity
            /\ ~DailyTripped /\ ~DrawdownTripped
            /\ ev.b \in Nat /\ ev.direction \in {-1, 1}
    BY <1>3, ApprovedStake DEF Executes, TypeOK, RiskTypeOK, EVEstimate
  <1>7. CASE handling' = Idle /\ UNCHANGED pending
    <2>1. HandlerInv' /\ handling' \in Handler
      BY <1>7, IdleType DEF HandlerInv
    <2>2. TypeOK'
      BY <1>4, <1>5, <1>7, <2>1 DEF TypeOK, startVars, marketVars
    <2> QED
      BY <1>4, <1>5, <1>7, <2>1, <2>2, BooksUnchanged DEF bookVars
  <1>8. CASE /\ Executes(ev, quality) /\ handling' = Idle
             /\ OpenPosition(s, candle, ev.direction, stake,
                             stake + (stake * ev.b) \div Scale, NoContract)
    <2>1. HandlerInv' /\ handling' \in Handler
      BY <1>8, IdleType DEF HandlerInv
    <2>2. PICK payout \in Nat : payout = stake + (stake * ev.b) \div Scale
      BY <1>6, <1>8, PaperPayout
    <2>3. OpenPosition(s, candle, ev.direction, stake, payout, NoContract)
      BY <1>8, <2>2
    <2>4. /\ PositionInv' /\ ContractInv' /\ TradesInv'
          /\ BooksAgreeWithBroker'
          /\ pending' \in [Symbols -> PendingTrade \cup {NoTrade}]
      BY <1>2, <1>4, <1>6, <1>8, <2>3, OpenKeepsBooks
    <2>5. TypeOK'
      BY <1>4, <1>5, <1>8, <2>1, <2>4 DEF TypeOK, startVars, marketVars
    <2> QED
      BY <1>5, <2>1, <2>4, <2>5
  <1>9. CASE /\ Executes(ev, quality) /\ UNCHANGED pending
             /\ handling' = [stage |-> "proposal", symbol |-> s,
                             candle |-> candle, stake |-> stake,
                             b |-> ev.b, direction |-> ev.direction]
    <2>1. handling' \in Handler
      BY <1>6, <1>9 DEF Handler
    <2>2. ~IsPending(s)'
      BY <1>2, <1>9 DEF IsPending
    <2>3. HandlerInv'
      BY <1>5, <1>6, <1>9, <2>2 DEF HandlerInv
    <2>4. TypeOK'
      BY <1>4, <1>5, <1>9, <2>1 DEF TypeOK, startVars, marketVars
    <2> QED
      BY <1>4, <1>5, <1>9, <2>3, <2>4, BooksUnchanged DEF bookVars
  <1> QED
    BY <1>1, <1>3, <1>7, <1>8, <1>9 DEF Decide

(* What the broker does to the contracts known so far: it keeps them, with  *)
(* their terms, and never takes back a purchase or a settlement.           *)
KnownContractsKept ==
    \A c \in DOMAIN contracts :
        /\ c \in DOMAIN contracts'
        /\ contracts'[c].symbol = contracts[c].symbol
        /\ contracts'[c].stake = contracts[c].stake
        /\ contracts[c].status = "sold" => contracts'[c] = contracts[c]
        /\ contracts[c].status = "open" =>
              contracts'[c].status \in {"open", "sold"}

LEMMA BrokerKeepsBooks ==
    ASSUME LoopInv, UNCHANGED bookVars, KnownContractsKept
    PROVE  PositionInv' /\ TradesInv' /\ BooksAgreeWithBroker'
  <1> USE DEF LoopInv
  <1>1. PositionInv'
    BY DEF PositionInv, KnownContractsKept, bookVars, IsPending, AwaitsBroker
  <1>2. TradesInv'
    BY DEF TradesInv, KnownContractsKept, bookVars
  <1>3. BooksAgreeWithBroker'
    <2>1. ASSUME NEW i \in DOMAIN trades, trades[i].contract # NoContract
          PROVE  contracts'[trades[i].contract] = contracts[trades[i].contract]
      <3>1. /\ trades[i].contract \in DOMAIN contracts
            /\ contracts[trades[i].contract].status = "sold"
        BY <2>1 DEF TradesInv, BooksAgreeWithBroker
      <3> QED
        BY <3>1 DEF KnownContractsKept
    <2>2. ASSUME NEW s \in Symbols, AwaitsBroker(s)
          PROVE  /\ contracts'[pending[s].contract].symbol = s
                 /\ contracts'[pending[s].contract].status \in {"open", "sold"}
      <3>1. /\ pending[s].contract \in DOMAIN contracts
            /\ contracts[pending[s].contract].symbol = s
            /\ contracts[pending[s].contract].status \in {"open", "sold"}
        BY <2>2 DEF PositionInv, AwaitsBroker, BooksAgreeWithBroker
      <3> QED
        BY <3>1 DEF KnownContractsKept
    <2>3. \A s \in Symbols : AwaitsBroker(s)' <=> AwaitsBroker(s)
      BY DEF AwaitsBroker, IsPending, bookVars
    <2>4. ASSUME NEW i \in DOMAIN trades', trades'[i].contract # NoContract
          PROVE  /\ contracts'[trades'[i].contract].status = "sold"
                 /\ contracts'[trades'[i].contract].profit = trades'[i].pnl
                 /\ contracts'[trades'[i].contract].symbol = trades'[i].symbol
      BY <2>1, <2>4 DEF BooksAgreeWithBroker, bookVars
    <2>5. ASSUME NEW i \in DOMAIN trades', NEW j \in DOMAIN trades',
                 trades'[i].contract # NoContract,
                 trades'[i].contract = trades'[j].contract
          PROVE  i = j
      BY <2>5 DEF BooksAgreeWithBroker, bookVars
    <2>6. ASSUME NEW s \in Symbols, AwaitsBroker(s)'
          PROVE  /\ contracts'[pending'[s].contract].symbol = s
                 /\ contracts'[pending'[s].contract].status \in {"open", "sold"}
                 /\ \A i \in DOMAIN trades' :
                       trades'[i].contract # pending'[s].contract
      BY <2>2, <2>3, <2>6 DEF BooksAgreeWithBroker, AwaitsBroker, bookVars
    <2> QED
      BY <2>4, <2>5, <2>6 DEF BooksAgreeWithBroker
  <1> QED
    BY <1>1, <1>2, <1>3

(* A request for a new contract.                                            *)
LEMMA RequestKeepsBooks ==
    ASSUME LoopInv, NEW contract \in Contract,
           contract.stake > 0, contract.payout >= 0, contract.profit = 0,
           contracts' = Append(contracts, contract), UNCHANGED bookVars
    PROVE  /\ contracts' \in Seq(Contract)
           /\ Len(contracts) + 1 \in DOMAIN contracts'
           /\ contracts'[Len(contracts) + 1] = contract
           /\ \A s \in Symbols : pending'[s].contract # Len(contracts) + 1
           /\ \A i \in DOMAIN trades' : trades'[i].contract # Len(contracts) + 1
           /\ PositionInv' /\ ContractInv' /\ TradesInv'
           /\ BooksAgreeWithBroker'
  <1> USE DEF LoopInv
  <1>1. /\ Len(contracts) \in Nat /\ DOMAIN contracts = 1..Len(contracts)
        /\ contracts' \in Seq(Contract)
        /\ DOMAIN contracts' = 1..(Len(contracts) + 1)
        /\ contracts'[Len(contracts) + 1] = contract
        /\ \A c \in DOMAIN contracts : contracts'[c] = contracts[c]
    <2>1. contracts \in Seq(Contract)
      BY DEF TypeOK
    <2> QED
      BY <2>1, LenProperties, AppendProperties
  <1>2. \A s \in Symbols :
            \/ pending[s].contract = NoContract
            \/ pending[s].contract \in DOMAIN contracts
    BY DEF PositionInv, IsPending, AwaitsBroker, NoTrade
  <1>3. ContractInv'
    <2>1. \A c \in DOMAIN contracts' :
              c \in DOMAIN contracts \/ c = Len(contracts) + 1
      BY <1>1
    <2>2. contract.stake \in Nat
      BY DEF Contract
    <2> QED
      BY <1>1, <2>1, <2>2 DEF ContractInv
  <1>4. KnownContractsKept
    BY <1>1 DEF KnownContractsKept
  <1>5. PositionInv' /\ TradesInv' /\ BooksAgreeWithBroker'
    BY <1>4, BrokerKeepsBooks
  <1> QED
    BY <1>1, <1>2, <1>3, <1>5 DEF TradesInv, bookVars

(* The price paid, slippage included, against the exposure cap.             *)
LEMMA SlippageWithinCap ==
    ASSUME NEW ask \in Int, NEW stake \in Int, NEW cap \in Int,
           stake * Scale <= cap, ask * Scale <= stake * (Scale + MaxSlippage)
    PROVE  ask * Scale * Scale <= cap * (Scale + MaxSlippage)
  <1>1. Scale \in Nat /\ Scale + MaxSlippage \in Nat
    BY ConfigAssumption, ScaleAssumption, TradingAssumption
  <1>2. PICK width \in Nat : width = Scale + MaxSlippage
    BY <1>1
  <1>3. (ask * Scale) * Scale <= (stake * width) * Scale
    BY <1>1, <1>2, ScaleMonotone
  <1>4. (stake * Scale) * width <= cap * width
    BY <1>1, <1>2, ScaleMonotone
  <1>5. (stake * width) * Scale = (stake * Scale) * width
    BY <1>1
  <1> QED
    BY <1>1, <1>2, <1>3, <1>4, <1>5

LEMMA ProposalAnsweredKeeps ==
    ASSUME LoopInv, NEW quote \in [slip: Int, ratio: Nat],
           ProposalAnswered(quote)
    PROVE  LoopInv'
  <1> USE DEF LoopInv
  <1>1. PICK s \in Symbols, candle \in Candle, stake \in Nat, b \in Int,
             direction \in {-1, 1} :
            /\ s = handling.symbol /\ candle = handling.candle
            /\ stake = handling.stake /\ b = handling.b
            /\ direction = handling.direction
    BY HandlerStages DEF ProposalAnswered, TypeOK
  <1>2. PICK ask \in Int : ask = stake + quote.slip
    OBVIOUS
  <1> DEFINE payout == ask + (ask * quote.ratio) \div Scale
  <1>3. CASE handling' = Idle /\ UNCHANGED contracts
    BY <1>3, GivingUpKeeps DEF ProposalAnswered
  <1> DEFINE contract == [symbol |-> s, stake |-> ask, payout |-> payout,
                          status |-> "sent", profit |-> 0]
  <1>4. CASE /\ Acceptable(ask, payout, stake, b)
             /\ contracts' = Append(contracts, contract)
             /\ handling' = [stage |-> "buy", symbol |-> s, candle |-> candle,
                             contract |-> Len(contracts) + 1,
                             direction |-> direction]
    <2>1. ask \in Nat /\ ask > 0 /\ ask * Scale <= stake * (Scale + MaxSlippage)
      BY <1>4 DEF Acceptable
    <2>2. payout \in Nat
      BY <2>1, PaperPayout
    <2>3. contract \in Contract
      BY <2>1, <2>2 DEF Contract
    <2>4. UNCHANGED <<riskVars, startVars, marketVars, bookVars>>
      BY DEF ProposalAnswered
    <2>5. /\ contracts' \in Seq(Contract)
          /\ Len(contracts) + 1 \in DOMAIN contracts'
          /\ contracts'[Len(contracts) + 1] = contract
          /\ \A t \in Symbols : pending'[t].contract # Len(contracts) + 1
          /\ \A i \in DOMAIN trades' : trades'[i].contract # Len(contracts) + 1
          /\ PositionInv' /\ ContractInv' /\ TradesInv'
          /\ BooksAgreeWithBroker'
      <3>1. contract.stake > 0 /\ contract.payout >= 0 /\ contract.profit = 0
        BY <2>1, <2>2
      <3> HIDE DEF contract
      <3> QED
        BY <1>4, <2>3, <2>4, <3>1, RequestKeepsBooks
    <2>6. ask * Scale * Scale <= MaxExposure * equity * (Scale + MaxSlippage)
      <3>1. stake * Scale <= MaxExposure * equity
        BY <1>1 DEF ProposalAnswered, HandlerInv
      <3>2. MaxExposure * equity \in Int
        BY ConfigAssumption, ScaleAssumption DEF TypeOK, RiskTypeOK
      <3> QED
        BY <2>1, <3>1, <3>2, SlippageWithinCap
    <2>7. ~IsPending(s)' /\ ~DrawdownTripped' /\ ~DailyTripped'
          /\ UNCHANGED equity
      BY <1>1, <2>4
      DEF ProposalAnswered, HandlerInv, IsPending, bookVars, riskVars,
          DrawdownTripped, DailyTripped
    <2>8. HandlerInv'
      BY <1>4, <2>5, <2>6, <2>7 DEF HandlerInv
    <2>9. handling' \in Handler
      <3>1. Len(contracts) + 1 \in Nat
        BY LenProperties DEF TypeOK
      <3> QED
        BY <1>4, <3>1 DEF Handler
    <2>10. TypeOK'
      BY <2>4, <2>5, <2>9
      DEF TypeOK, RiskTypeOK, riskVars, startVars, marketVars, bookVars
    <2> QED
      BY <2>4, <2>5, <2>8, <2>10, RiskUnchanged
  <1> QED
    BY <1>1, <1>2, <1>3, <1>4 DEF ProposalAnswered

LEMMA BuyAnsweredKeeps ==
    ASSUME LoopInv, BuyAnswered PROVE LoopInv'
  <1> USE DEF LoopInv
  <1>1. PICK s \in Symbols, candle \in Candle, c \in Nat, direction \in {-1, 1} :
            /\ s = handling.symbol /\ candle = handling.candle
            /\ c = handling.contract /\ direction = handling.direction
    BY HandlerStages DEF BuyAnswered, TypeOK
  <1>2. /\ c \in DOMAIN contracts /\ ~IsPending(s)
        /\ contracts[c].symbol = s
        /\ contracts[c].status \in {"open", "sold"}
        /\ \A i \in DOMAIN trades : trades[i].contract # c
    BY <1>1 DEF BuyAnswered, HandlerInv
  <1>3. PICK stake \in Nat, payout \in Int :
            stake = contracts[c].stake /\ payout = contracts[c].payout
    BY <1>2, ContractType
  <1>4. stake > 0 /\ payout >= 0
    BY <1>2, <1>3 DEF ContractInv
  <1>5. /\ OpenPosition(s, candle, direction, stake, payout, c)
        /\ handling' = Idle
        /\ UNCHANGED <<riskVars, startVars, marketVars, trades, contracts>>
    BY <1>1, <1>3 DEF BuyAnswered
  <1>6. /\ pending' \in [Symbols -> PendingTrade \cup {NoTrade}]
        /\ PositionInv' /\ ContractInv' /\ TradesInv'
        /\ BooksAgreeWithBroker'
    BY <1>2, <1>3, <1>4, <1>5, OpenKeepsBooks
  <1>7. HandlerInv' /\ handling' \in Handler
    BY <1>5, IdleType DEF HandlerInv
  <1>8. TypeOK'
    BY <1>5, <1>6, <1>7
    DEF TypeOK, RiskTypeOK, riskVars, startVars, marketVars
  <1> QED
    BY <1>5, <1>6, <1>7, <1>8, RiskUnchanged

-----------------------------------------------------------------------------
(* The broker's own steps.                                                  *)

LEMMA BrokerStepKeeps ==
    ASSUME LoopInv, NEW c \in DOMAIN contracts, NEW contract \in Contract,
           contracts' = [contracts EXCEPT ![c] = contract],
           UNCHANGED <<riskVars, startVars, marketVars, bookVars, handling>>,
           contract.symbol = contracts[c].symbol,
           contract.stake = contracts[c].stake,
           contract.payout = contracts[c].payout,
           contract.profit >= -contract.stake,
           contracts[c].status # "sold",
           contracts[c].status = "open" => contract.status = "sold"
    PROVE  LoopInv'
  <1> USE DEF LoopInv
  <1>1. /\ contracts' \in Seq(Contract)
        /\ DOMAIN contracts' = DOMAIN contracts
        /\ \A d \in DOMAIN contracts :
              contracts'[d] = IF d = c THEN contract ELSE contracts[d]
    <2>1. contracts \in Seq(Contract)
      BY DEF TypeOK
    <2> QED
      BY <2>1, LenProperties, ExceptSeq
  <1>2. KnownContractsKept
    BY <1>1 DEF KnownContractsKept
  <1>3. PositionInv' /\ TradesInv' /\ BooksAgreeWithBroker'
    BY <1>2, BrokerKeepsBooks
  <1>4. ContractInv'
    BY <1>1 DEF ContractInv
  <1>5. TypeOK'
    BY <1>1
    DEF TypeOK, RiskTypeOK, riskVars, startVars, marketVars, bookVars
  <1>6. HandlerInv'
    BY <1>1
    DEF HandlerInv, riskVars, bookVars, IsPending, AwaitsBroker,
        DrawdownTripped, DailyTripped
  <1> QED
    BY <1>3, <1>4, <1>5, <1>6, RiskUnchanged

LEMMA BrokerKeeps ==
    ASSUME LoopInv, NEW c \in DOMAIN contracts,
           \/ BrokerFills(c) \/ BrokerRefuses(c)
           \/ \E won \in BOOLEAN : BrokerSettles(c, won)
    PROVE  LoopInv'
  <1> DEFINE old == contracts[c]
             Terms(status, profit) ==
                [symbol |-> old.symbol, stake |-> old.stake,
                 payout |-> old.payout, status |-> status, profit |-> profit]
  <1>1. old \in Contract /\ old.stake > 0 /\ old.payout >= 0
        /\ old.profit >= -old.stake
    <2>1. contracts \in Seq(Contract)
      BY DEF LoopInv, TypeOK
    <2> QED
      BY <2>1, ElementOfSeq, LenProperties DEF LoopInv, ContractInv
  <1>2. PICK status \in {"open", "refused", "sold"}, profit \in Int :
            /\ profit >= -old.stake /\ old.status # "sold"
            /\ old.status = "open" => status = "sold"
            /\ contracts' = [contracts EXCEPT ![c] = Terms(status, profit)]
            /\ UNCHANGED <<riskVars, startVars, marketVars, bookVars, handling>>
    <2>1. CASE BrokerFills(c)
      <3>1. [old EXCEPT !.status = "open"] = Terms("open", old.profit)
        BY <1>1 DEF Contract
      <3> QED
        BY <1>1, <2>1, <3>1 DEF BrokerFills, Contract
    <2>2. CASE BrokerRefuses(c)
      <3>1. [old EXCEPT !.status = "refused"] = Terms("refused", old.profit)
        BY <1>1 DEF Contract
      <3> QED
        BY <1>1, <2>2, <3>1 DEF BrokerRefuses, Contract
    <2>3. ASSUME NEW won \in BOOLEAN, BrokerSettles(c, won)
          PROVE  \E profit \in Int :
                    /\ profit >= -old.stake /\ old.status = "open"
                    /\ contracts' = [contracts EXCEPT ![c] = Terms("sold", profit)]
                    /\ UNCHANGED <<riskVars, startVars, marketVars, bookVars,
                                   handling>>
      <3> DEFINE profit == IF won THEN old.payout - old.stake ELSE -old.stake
      <3>1. profit \in Int /\ profit >= -old.stake
        BY <1>1 DEF Contract
      <3>2. [old EXCEPT !.status = "sold"] = Terms("sold", old.profit)
        BY <1>1 DEF Contract
      <3>3. \A p : [Terms("sold", old.profit) EXCEPT !.profit = p]
                    = Terms("sold", p)
        OBVIOUS
      <3> QED
        BY <2>3, <3>1, <3>2, <3>3 DEF BrokerSettles
    <2> QED
      BY <2>1, <2>2, <2>3
  <1>3. Terms(status, profit) \in Contract
    BY <1>1 DEF Contract
  <1> QED
    BY <1>1, <1>2, <1>3, BrokerStepKeeps

-----------------------------------------------------------------------------
(* A failure.                                                               *)

LEMMA RestartKeeps ==
    ASSUME LoopInv, Restart PROVE LoopInv'
  <1> USE DEF LoopInv, Restart
  <1>1. RiskInv'
    BY RiskInvStep DEF RiskCall
  <1>2. /\ \A s \in Symbols : pending'[s] = NoTrade
        /\ DOMAIN trades' = {}
    OBVIOUS
  <1>3. \A s \in Symbols : ~IsPending(s)' /\ ~AwaitsBroker(s)'
    BY <1>2 DEF IsPending, AwaitsBroker
  <1>4. HandlerInv' /\ handling' \in Handler
    BY IdleType DEF HandlerInv
  <1>5. TypeOK'
    <2>1. restarts' \in 0..MaxRestarts
      BY TradingAssumption DEF TypeOK
    <2>2. trades' \in Seq(CompletedTrade)
      BY EmptySeq
    <2> QED
      BY <1>1, <1>4, <2>1, <2>2, TradingAssumption DEF TypeOK, RiskInv
  <1>6. PositionInv' /\ ContractInv' /\ TradesInv'
    BY <1>2, <1>3 DEF PositionInv, ContractInv, TradesInv
  <1>7. BooksAgreeWithBroker'
    BY <1>2, <1>3 DEF BooksAgreeWithBroker
  <1> QED
    BY <1>1, <1>4, <1>5, <1>6, <1>7

-----------------------------------------------------------------------------
(* The invariant of the loop.                                               *)

LEMMA LoopInvInit == Init => LoopInv
  <1> SUFFICES ASSUME Init PROVE LoopInv
    OBVIOUS
  <1> USE DEF Init
  <1>1. RiskInv
    BY RiskInvInit
  <1>2. /\ \A s \in Symbols : ~IsPending(s) /\ ~AwaitsBroker(s)
        /\ DOMAIN trades = {} /\ DOMAIN contracts = {}
    BY DEF IsPending, AwaitsBroker
  <1>3. TypeOK
    BY <1>1, IdleType, TradingAssumption DEF TypeOK, RiskInv, Candle
  <1>4. HandlerInv
    BY IdleType DEF HandlerInv
  <1>5. PositionInv /\ ContractInv /\ TradesInv
    BY <1>2 DEF PositionInv, ContractInv, TradesInv
  <1>6. BooksAgreeWithBroker
    BY <1>2 DEF BooksAgreeWithBroker
  <1> QED
    BY <1>1, <1>3, <1>4, <1>5, <1>6 DEF LoopInv

LEMMA LoopInvStep == LoopInv /\ [Next]_vars => LoopInv'
  <1> SUFFICES ASSUME LoopInv, [Next]_vars PROVE LoopInv'
    OBVIOUS
  <1>1. ASSUME BootstrapStep PROVE LoopInv'
    BY <1>1, BootstrapKeeps, TradingAssumption DEF BootstrapStep
  <1>2. ASSUME NEW s \in Symbols, NEW usable \in BOOLEAN, CandleStep(s, usable)
        PROVE  LoopInv'
    <2>1. Candles \subseteq Candle
      BY InputAssumption, TradingAssumption DEF Candles, Candle
    <2> QED
      BY <1>2, <2>1, OnCandleKeeps DEF CandleStep
  <1>3. ASSUME PollFails \/ PollFindsOpen PROVE LoopInv'
    BY <1>3, GivingUpKeeps DEF PollFails, PollFindsOpen
  <1>4. ASSUME PollAnswered \/ PollFindsSold PROVE LoopInv'
    BY <1>4, PollAnsweredKeeps, PollFindsSoldKeeps
  <1>5. ASSUME DecideStep PROVE LoopInv'
    BY <1>5, DecideKeeps, InputAssumption DEF DecideStep
  <1>6. ASSUME ProposalStep PROVE LoopInv'
    BY <1>6, GivingUpKeeps, ProposalAnsweredKeeps, TradingAssumption
    DEF ProposalStep, ProposalFails
  <1>7. ASSUME BuyAnswered PROVE LoopInv'
    BY <1>7, BuyAnsweredKeeps
  <1>8. ASSUME BuyFails PROVE LoopInv'
    BY <1>8, GivingUpKeeps DEF BuyFails
  <1>9. ASSUME NEW c \in DOMAIN contracts,
               \/ BrokerFills(c) \/ BrokerRefuses(c)
               \/ \E won \in BOOLEAN : BrokerSettles(c, won)
        PROVE  LoopInv'
    BY <1>9, BrokerKeeps
  <1>10. ASSUME Restart PROVE LoopInv'
    BY <1>10, RestartKeeps
  <1>11. ASSUME UNCHANGED vars PROVE LoopInv'
    <2>1. UNCHANGED <<riskVars, startVars, marketVars, bookVars, handling,
                      contracts>>
      BY <1>11 DEF vars
    <2>2. TypeOK'
      BY <2>1
      DEF LoopInv, TypeOK, RiskTypeOK, riskVars, startVars, marketVars, bookVars
    <2>3. HandlerInv'
      BY <2>1
      DEF LoopInv, HandlerInv, riskVars, bookVars, IsPending, AwaitsBroker,
          DrawdownTripped, DailyTripped
    <2> QED
      BY <2>1, <2>2, <2>3, BooksUnchanged, RiskUnchanged DEF LoopInv
  <1> QED
    BY <1>1, <1>2, <1>3, <1>4, <1>5, <1>6, <1>7, <1>8, <1>9, <1>10,
       <1>11 DEF Next, PollStep

LEMMA LoopInvariant == Spec => []LoopInv
  BY LoopInvInit, LoopInvStep, PTL DEF Spec

(* Every reachable state of the loop is well typed, in both modes.          *)
THEOREM TypeCorrect == Spec => []TypeOK
  <1>1. LoopInv => TypeOK
    BY DEF LoopInv
  <1> QED
    BY <1>1, LoopInvariant, PTL

(* What the platform books is what the broker settled: each live trade      *)
(* once, with the broker's profit, after the broker sold the contract.     *)
THEOREM BooksAlwaysAgree == Spec => []BooksAgreeWithBroker
  <1>1. LoopInv => BooksAgreeWithBroker
    BY DEF LoopInv
  <1> QED
    BY <1>1, LoopInvariant, PTL

(* Inside the loop too, the streak breaker blocks exactly while a pause is  *)
(* being counted down.                                                     *)
THEOREM LoopPauseAlwaysTimed == Spec => []StreakPauseTimed
  <1>1. LoopInv => StreakPauseTimed
    BY DEF LoopInv, RiskInv
  <1> QED
    BY <1>1, LoopInvariant, PTL

-----------------------------------------------------------------------------
(* A paper position is held for one candle.                                 *)

(* Only symbols with a model hold positions or are being handled, a handler *)
(* works on its symbol's last candle, and a paper position was entered on  *)
(* it.                                                                     *)
HeldInv ==
    /\ \A s \in Symbols : IsPending(s) => s \in bootstrapped
    /\ handling.stage # "idle" =>
          /\ handling.symbol \in bootstrapped
          /\ handling.candle = lastCandle[handling.symbol]
    /\ \A s \in Symbols : IsPending(s) /\ ~AwaitsBroker(s) =>
          /\ pending[s].entryEpoch = lastCandle[s].epoch
          /\ pending[s].entryClose = lastCandle[s].close

(* A step in which no symbol loses its model, no candle completes, no       *)
(* handler starts, and every new position is entered by the handler.       *)
LEMMA HeldBetweenCandles ==
    ASSUME TypeOK, HeldInv, bootstrapped \subseteq bootstrapped',
           UNCHANGED lastCandle,
           \/ handling'.stage = "idle"
           \/ /\ handling.stage # "idle"
              /\ handling'.symbol = handling.symbol
              /\ handling'.candle = handling.candle,
           \A s \in Symbols :
              \/ pending'[s] \in {pending[s], NoTrade}
              \/ /\ handling.stage # "idle" /\ s = handling.symbol
                 /\ pending'[s].entryEpoch = handling.candle.epoch
                 /\ pending'[s].entryClose = handling.candle.close
    PROVE  HeldInv'
  BY DEF HeldInv, IsPending, AwaitsBroker

(* What AfterSettlement hands on of a handler.                              *)
LEMMA SettledCandle ==
    ASSUME NEW s, NEW candle, NEW usable \in BOOLEAN
    PROVE  LET next == AfterSettlement(s, candle, usable)
           IN  \/ next.stage = "idle"
               \/ next.symbol = s /\ next.candle = candle
  BY DEF AfterSettlement, Idle

LEMMA CandleHolds ==
    ASSUME LoopInv, HeldInv, NEW s \in Symbols, NEW candle \in Candle,
           NEW usable \in BOOLEAN, OnCandle(s, candle, usable)
    PROVE  HeldInv'
  <1>1. /\ \A t \in Symbols :
              lastCandle'[t] = IF t = s THEN candle ELSE lastCandle[t]
        /\ UNCHANGED bootstrapped /\ handling.stage = "idle"
    BY IdleType DEF OnCandle, startVars, LoopInv, TypeOK
  <1>2. CASE s \notin bootstrapped /\ UNCHANGED <<bookVars, handling>>
    BY <1>1, <1>2 DEF HeldInv, bookVars, IsPending, AwaitsBroker
  <1>3. CASE /\ s \in bootstrapped /\ AwaitsBroker(s)
             /\ handling' = [stage |-> "poll", symbol |-> s,
                             candle |-> candle, usable |-> usable]
             /\ UNCHANGED bookVars
    BY <1>1, <1>3 DEF HeldInv, bookVars, IsPending, AwaitsBroker
  <1>4. CASE /\ s \in bootstrapped
             /\ handling' = AfterSettlement(s, candle, usable)
             /\ \A t \in Symbols :
                   pending'[t] = IF t = s THEN NoTrade ELSE pending[t]
    BY <1>1, <1>4, SettledCandle DEF HeldInv, IsPending, AwaitsBroker
  <1>5. CASE /\ s \in bootstrapped /\ IsPending(s)
             /\ FinalizeSettledTrade(s, candle.epoch,
                                     PaperPnl(pending[s], candle.close))
             /\ handling' = AfterSettlement(s, candle, usable)
    <2>1. \A t \in Symbols :
              pending'[t] = IF t = s THEN NoTrade ELSE pending[t]
      BY <1>5 DEF FinalizeSettledTrade, LoopInv, TypeOK
    <2> QED
      BY <1>4, <1>5, <2>1
  <1>6. CASE /\ s \in bootstrapped /\ ~IsPending(s)
             /\ handling' = AfterSettlement(s, candle, usable)
             /\ UNCHANGED bookVars
    <2>1. \A t \in Symbols :
              pending'[t] = IF t = s THEN NoTrade ELSE pending[t]
      BY <1>6 DEF bookVars, IsPending
    <2> QED
      BY <1>4, <1>6, <2>1
  <1> QED
    BY <1>2, <1>3, <1>5, <1>6 DEF OnCandle

LEMMA HandlerHolds ==
    ASSUME LoopInv, HeldInv,
           \/ PollStep \/ DecideStep
           \/ ProposalStep \/ BuyAnswered \/ BuyFails
    PROVE  HeldInv'
  <1> DEFINE s == handling.symbol
  <1>1. s \in Symbols /\ handling.stage # "idle"
    <2>1. handling.stage # "idle"
      BY DEF PollStep, PollFails, PollAnswered, PollFindsOpen, PollFindsSold,
             DecideStep, Decide, ProposalStep, ProposalFails,
             ProposalAnswered, BuyAnswered, BuyFails
    <2> QED
      BY <2>1, HandlerStages DEF LoopInv, TypeOK
  <1>2. TypeOK /\ pending \in [Symbols -> PendingTrade \cup {NoTrade}]
    BY DEF LoopInv, TypeOK
  <1>3. UNCHANGED <<bootstrapped, lastCandle>>
    BY DEF PollStep, PollFails, PollAnswered, PollFindsOpen, PollFindsSold,
           DecideStep, Decide, ProposalStep, ProposalFails,
           ProposalAnswered, BuyAnswered, BuyFails, startVars, marketVars
  <1>4. CASE PollFails \/ PollFindsOpen \/ BuyFails \/ ProposalFails
    BY <1>1, <1>2, <1>3, <1>4, IdleType, HeldBetweenCandles
    DEF PollFails, PollFindsOpen, BuyFails, ProposalFails, bookVars
  <1>5. CASE PollFindsSold
    <2>1. handling.usable \in BOOLEAN
      BY <1>2, <1>5, HandlerStages DEF PollFindsSold, TypeOK
    <2>2. \/ handling'.stage = "idle"
          \/ handling'.symbol = s /\ handling'.candle = handling.candle
      BY <1>5, <2>1, SettledCandle DEF PollFindsSold
    <2>3. \A t \in Symbols : pending'[t] \in {pending[t], NoTrade}
      BY <1>2, <1>5 DEF PollFindsSold, FinalizeSettledTrade
    <2> QED
      BY <1>1, <1>2, <1>3, <2>2, <2>3, HeldBetweenCandles
  <1>6. ASSUME NEW direction, NEW stake, NEW payout, NEW contract,
               OpenPosition(s, handling.candle, direction, stake, payout,
                            contract),
               handling' = Idle
        PROVE  HeldInv'
    <2>1. \A t \in Symbols :
            \/ pending'[t] = pending[t]
            \/ /\ t = s
               /\ pending'[t].entryEpoch = handling.candle.epoch
               /\ pending'[t].entryClose = handling.candle.close
      BY <1>2, <1>6 DEF OpenPosition
    <2> QED
      BY <1>1, <1>2, <1>3, <1>6, <2>1, IdleType, HeldBetweenCandles
  <1>7. CASE DecideStep
    <2>1. PICK ev, quality : Decide(ev, quality)
      BY <1>7 DEF DecideStep
    <2>2. CASE handling' = Idle /\ UNCHANGED pending
      BY <1>1, <1>2, <1>3, <2>2, IdleType, HeldBetweenCandles
    <2>3. CASE /\ handling'.symbol = s /\ handling'.candle = handling.candle
               /\ UNCHANGED pending
      BY <1>1, <1>2, <1>3, <2>3, HeldBetweenCandles
    <2> QED
      BY <1>6, <2>1, <2>2, <2>3 DEF Decide
  <1>8. CASE \E quote \in Quotes : ProposalAnswered(quote)
    <2>1. UNCHANGED pending
      BY <1>8 DEF ProposalAnswered, bookVars
    <2>2. \/ handling' = Idle
          \/ handling'.symbol = s /\ handling'.candle = handling.candle
      BY <1>8 DEF ProposalAnswered
    <2> QED
      BY <1>1, <1>2, <1>3, <2>1, <2>2, IdleType, HeldBetweenCandles
  <1>9. CASE BuyAnswered
    BY <1>6, <1>9 DEF BuyAnswered
  <1>10. CASE PollAnswered
    <2>1. /\ handling'.symbol = s /\ handling'.candle = handling.candle
          /\ \A t \in Symbols : pending'[t] = pending[t]
      BY <1>10 DEF PollAnswered, bookVars
    <2> QED
      BY <1>1, <1>2, <1>3, <2>1, HeldBetweenCandles
  <1> QED
    BY <1>4, <1>5, <1>7, <1>8, <1>9, <1>10 DEF ProposalStep, PollStep

LEMMA HeldInvStep == LoopInv /\ HeldInv /\ [Next]_vars => HeldInv'
  <1> SUFFICES ASSUME LoopInv, HeldInv, [Next]_vars PROVE HeldInv'
    OBVIOUS
  <1>1. TypeOK
    BY DEF LoopInv
  <1>2. ASSUME /\ bootstrapped \subseteq bootstrapped'
               /\ UNCHANGED <<lastCandle, pending, handling>>
        PROVE  HeldInv'
    BY <1>2 DEF HeldInv, IsPending, AwaitsBroker
  <1>3. CASE BootstrapStep
    BY <1>2, <1>3 DEF BootstrapStep, Bootstrap, marketVars, bookVars
  <1>4. ASSUME NEW s \in Symbols, NEW usable \in BOOLEAN, CandleStep(s, usable)
        PROVE  HeldInv'
    <2>1. Candles \subseteq Candle
      BY InputAssumption, TradingAssumption DEF Candles, Candle
    <2> QED
      BY <1>4, <2>1, CandleHolds DEF CandleStep
  <1>5. ASSUME NEW c \in DOMAIN contracts,
               \/ BrokerFills(c) \/ BrokerRefuses(c)
               \/ \E won \in BOOLEAN : BrokerSettles(c, won)
        PROVE  HeldInv'
    BY <1>2, <1>5
    DEF BrokerFills, BrokerRefuses, BrokerSettles, startVars, marketVars,
        bookVars
  <1>6. CASE Restart
    BY <1>6, IdleType DEF Restart, HeldInv, IsPending
  <1>7. CASE UNCHANGED vars
    BY <1>2, <1>7 DEF vars, startVars, marketVars, bookVars
  <1> QED
    BY <1>3, <1>4, <1>5, <1>6, <1>7, HandlerHolds DEF Next

(* In both modes and whatever else happens between, a paper position is     *)
(* settled by the very next candle of its symbol.                          *)
THEOREM PaperAlwaysHeldOneCandle == Spec => []PaperHeldOneCandle
  <1>1. Init => HeldInv
    BY IdleType DEF Init, HeldInv, IsPending
  <1>2. HeldInv => PaperHeldOneCandle
    BY DEF HeldInv, PaperHeldOneCandle
  <1> QED
    BY <1>1, <1>2, LoopInvariant, HeldInvStep, PTL DEF Spec

-----------------------------------------------------------------------------
(* The four kinds of step.                                                  *)

(* A step that opens and books nothing.                                     *)
Quiet ==
    UNCHANGED <<equity, peakEquity, dayStartEquity, pnlPcts, pending, trades,
                restarts>>

(* A step that opens a position on s, below the loss limits and within the  *)
(* exposure cap plus slippage.                                             *)
Enters(s) ==
    /\ ~IsPending(s) /\ ~DrawdownTripped /\ ~DailyTripped
    /\ UNCHANGED <<equity, peakEquity, dayStartEquity, pnlPcts, trades, restarts>>
    /\ \A t \in Symbols \ {s} : pending'[t] = pending[t]
    /\ pending'[s].stake \in Nat /\ pending'[s].stake > 0
    /\ pending'[s].stake * Scale * Scale
          <= MaxExposure * equity * (Scale + MaxSlippage)

(* A step that books the position of s, at no worse a loss than its stake.  *)
Leaves(s, epoch, pnl) ==
    /\ IsPending(s) /\ FinalizeSettledTrade(s, epoch, pnl)
    /\ pnl >= -pending[s].stake
    /\ UNCHANGED restarts

LEMMA PollLeaves ==
    ASSUME LoopInv, PollFindsSold
    PROVE  \E s \in Symbols, epoch \in Nat, pnl \in Int : Leaves(s, epoch, pnl)
  <1> USE DEF LoopInv
  <1>1. PICK s \in Symbols, candle \in Candle :
            s = handling.symbol /\ candle = handling.candle
    BY HandlerStages DEF PollFindsSold, TypeOK
  <1>2. IsPending(s) /\ pending[s].contract \in DOMAIN contracts
        /\ contracts[pending[s].contract].stake = pending[s].stake
    BY <1>1 DEF PollFindsSold, HandlerInv, PositionInv, AwaitsBroker
  <1>3. PICK pnl \in Int : pnl = handling.pnl
    BY HandlerStages DEF PollFindsSold, TypeOK
  <1>4. pnl = contracts[pending[s].contract].profit
    BY <1>1, <1>3 DEF PollFindsSold, HandlerInv
  <1>5. pnl >= -pending[s].stake
    BY <1>2, <1>4 DEF ContractInv
  <1>6. /\ candle.epoch \in Nat /\ FinalizeSettledTrade(s, candle.epoch, pnl)
        /\ UNCHANGED restarts
    BY <1>1, <1>3 DEF PollFindsSold, Candle, startVars
  <1> QED
    BY <1>2, <1>5, <1>6 DEF Leaves

LEMMA CandleLeaves ==
    ASSUME LoopInv, NEW s \in Symbols, NEW candle \in Candle,
           NEW usable \in BOOLEAN, OnCandle(s, candle, usable)
    PROVE  Quiet \/ \E epoch \in Nat, pnl \in Int : Leaves(s, epoch, pnl)
  <1> USE DEF LoopInv
  <1>0. UNCHANGED restarts
    BY DEF OnCandle, startVars
  <1>1. CASE UNCHANGED <<riskVars, bookVars>>
    BY <1>0, <1>1 DEF Quiet, riskVars, bookVars
  <1>2. CASE /\ IsPending(s)
             /\ FinalizeSettledTrade(s, candle.epoch,
                                     PaperPnl(pending[s], candle.close))
    <2>1. candle.epoch \in Nat /\ candle.close \in Nat
      BY DEF Candle
    <2>2. pending[s] \in PendingTrade /\ pending[s].payout >= 0
      BY <1>2 DEF TypeOK, IsPending, PositionInv
    <2> QED
      BY <1>0, <1>2, <2>1, <2>2, PaperPnlType DEF Leaves
  <1> QED
    BY <1>1, <1>2 DEF OnCandle

LEMMA DecideEnters ==
    ASSUME LoopInv, NEW ev \in EVEstimate, NEW quality \in BOOLEAN,
           Decide(ev, quality)
    PROVE  Quiet \/ \E s \in Symbols : Enters(s)
  <1> USE DEF LoopInv
  <1>1. PICK s \in Symbols, candle \in Candle :
            s = handling.symbol /\ candle = handling.candle
    BY HandlerStages DEF Decide, TypeOK
  <1>2. PICK stake \in Int : stake = RecommendedStake(ev)
    BY RecommendedStakeType DEF TypeOK, RiskTypeOK
  <1>3. /\ UNCHANGED <<equity, peakEquity, dayStartEquity, pnlPcts, trades,
                       restarts>>
        /\ ~IsPending(s)
    BY <1>1 DEF Decide, Assess, HandlerInv, startVars
  <1>4. CASE UNCHANGED pending
    BY <1>3, <1>4 DEF Quiet
  <1>5. CASE /\ Executes(ev, quality)
             /\ OpenPosition(s, candle, ev.direction, stake,
                             stake + (stake * ev.b) \div Scale, NoContract)
    <2>1. /\ stake \in Nat /\ stake > 0 /\ stake * Scale <= MaxExposure * equity
          /\ ~DailyTripped /\ ~DrawdownTripped
      BY <1>2, <1>5, ApprovedStake DEF Executes, TypeOK, RiskTypeOK
    <2>2. pending'[s].stake = stake
          /\ \A t \in Symbols \ {s} : pending'[t] = pending[t]
      BY <1>5 DEF OpenPosition, TypeOK
    <2>3. stake * Scale * Scale <= MaxExposure * equity * (Scale + MaxSlippage)
      <3>1. MaxExposure * equity \in Int
        BY ConfigAssumption, ScaleAssumption DEF TypeOK, RiskTypeOK
      <3>2. stake * Scale <= stake * (Scale + MaxSlippage)
        <4>1. Scale <= Scale + MaxSlippage /\ Scale \in Int
              /\ Scale + MaxSlippage \in Int
          BY ConfigAssumption, ScaleAssumption, TradingAssumption
        <4> QED
          BY <2>1, <4>1, ScaleMonotone
      <3> QED
        BY <2>1, <3>1, <3>2, SlippageWithinCap
    <2> QED
      BY <1>3, <2>1, <2>2, <2>3 DEF Enters
  <1> QED
    BY <1>1, <1>2, <1>4, <1>5 DEF Decide

LEMMA BuyEnters ==
    ASSUME LoopInv, BuyAnswered
    PROVE  \E s \in Symbols : Enters(s)
  <1> USE DEF LoopInv
  <1>1. PICK s \in Symbols, c \in DOMAIN contracts :
            s = handling.symbol /\ c = handling.contract
    BY HandlerStages DEF BuyAnswered, TypeOK, HandlerInv
  <1>2. /\ ~IsPending(s) /\ ~DrawdownTripped /\ ~DailyTripped
        /\ contracts[c].stake * Scale * Scale
              <= MaxExposure * equity * (Scale + MaxSlippage)
        /\ contracts[c].stake \in Nat /\ contracts[c].stake > 0
    BY <1>1, ContractType DEF BuyAnswered, HandlerInv, ContractInv
  <1>3. /\ UNCHANGED <<equity, peakEquity, dayStartEquity, pnlPcts, trades,
                       restarts>>
        /\ pending'[s].stake = contracts[c].stake
        /\ \A t \in Symbols \ {s} : pending'[t] = pending[t]
    BY <1>1 DEF BuyAnswered, OpenPosition, TypeOK, riskVars, startVars
  <1> QED
    BY <1>2, <1>3 DEF Enters

LEMMA StepKinds ==
    ASSUME LoopInv, [Next]_vars
    PROVE  \/ Quiet \/ Restart
           \/ \E s \in Symbols : Enters(s)
           \/ \E s \in Symbols, epoch \in Nat, pnl \in Int : Leaves(s, epoch, pnl)
  <1>1. CASE \E s \in Symbols, usable \in BOOLEAN : CandleStep(s, usable)
    <2>1. Candles \subseteq Candle
      BY InputAssumption, TradingAssumption DEF Candles, Candle
    <2> QED
      BY <1>1, <2>1, CandleLeaves DEF CandleStep
  <1>2. CASE PollFindsSold
    BY <1>2, PollLeaves
  <1>3. CASE DecideStep
    BY <1>3, DecideEnters, InputAssumption DEF DecideStep
  <1>4. CASE BuyAnswered
    BY <1>4, BuyEnters
  <1>5. CASE \/ BootstrapStep \/ PollFails \/ PollAnswered \/ PollFindsOpen
             \/ ProposalStep \/ BuyFails
             \/ \E c \in DOMAIN contracts :
                   \/ BrokerFills(c) \/ BrokerRefuses(c)
                   \/ \E won \in BOOLEAN : BrokerSettles(c, won)
             \/ UNCHANGED vars
    BY <1>5
    DEF BootstrapStep, Bootstrap, PollFails, PollAnswered, PollFindsOpen,
        ProposalStep, ProposalFails, ProposalAnswered, BuyFails, BrokerFills,
        BrokerRefuses, BrokerSettles, vars, riskVars, startVars, bookVars, Quiet
  <1> QED
    BY <1>1, <1>2, <1>3, <1>4, <1>5 DEF Next, PollStep

(* A booked symbol's slot is emptied, its record appended, the rest kept.   *)
LEMMA LeavesEffect ==
    ASSUME LoopInv, NEW s \in Symbols, NEW epoch \in Nat, NEW pnl \in Int,
           Leaves(s, epoch, pnl)
    PROVE  /\ pending'[s] = NoTrade
           /\ \A t \in Symbols \ {s} : pending'[t] = pending[t]
           /\ Len(trades') = Len(trades) + 1
           /\ trades'[Len(trades')].symbol = s
           /\ trades'[Len(trades')].stake = pending[s].stake
           /\ equity' = equity + pnl /\ pnl >= -pending[s].stake
           /\ peakEquity' = AtLeast(peakEquity, equity + pnl)
           /\ dayStartEquity' \in {dayStartEquity, equity}
  <1>1. FinalizeSettledTrade(s, epoch, pnl) /\ pnl >= -pending[s].stake
    BY DEF Leaves
  <1>2. /\ \A t \in Symbols :
              pending'[t] = IF t = s THEN NoTrade ELSE pending[t]
        /\ Len(trades') = Len(trades) + 1
        /\ trades'[Len(trades) + 1] = Completed(s, epoch, pnl)
    BY <1>1, FinalizeEffect DEF LoopInv
  <1>3. /\ Completed(s, epoch, pnl).symbol = s
        /\ Completed(s, epoch, pnl).stake = pending[s].stake
    BY DEF Completed
  <1>4. /\ equity' = equity + pnl
        /\ peakEquity' = AtLeast(peakEquity, equity + pnl)
        /\ dayStartEquity' \in {dayStartEquity, equity}
    BY <1>1 DEF FinalizeSettledTrade, RecordTradeResult, PeakAfter
  <1> QED
    BY <1>1, <1>2, <1>3, <1>4

(* No position is opened while a loss limit is reached, however long the    *)
(* proposal and the purchase took since the decision.                      *)
THEOREM NeverEntersWhileHalted == Spec => NoEntryWhileHalted
  <1> DEFINE Entry ==
        \A s \in Symbols :
            ~IsPending(s) /\ IsPending(s)' => ~DrawdownTripped /\ ~DailyTripped
  <1>1. LoopInv /\ [Next]_vars => Entry
    <2> SUFFICES ASSUME LoopInv, [Next]_vars, NEW s \in Symbols,
                        ~IsPending(s), IsPending(s)'
                 PROVE  ~DrawdownTripped /\ ~DailyTripped
      OBVIOUS
    <2>1. CASE Quiet
      BY <2>1 DEF Quiet, IsPending
    <2>2. ASSUME NEW t \in Symbols, Enters(t)
          PROVE  ~DrawdownTripped /\ ~DailyTripped
      BY <2>2 DEF Enters
    <2>3. CASE Restart
      BY <2>3 DEF Restart, IsPending
    <2>4. ASSUME NEW t \in Symbols, NEW epoch \in Nat, NEW pnl \in Int,
                 Leaves(t, epoch, pnl)
          PROVE  FALSE
      <3>1. IsPending(t) /\ pending'[s] = pending[s]
        BY <2>4, LeavesEffect DEF Leaves, IsPending
      <3> QED
        BY <3>1 DEF IsPending
    <2> QED
      BY <2>1, <2>2, <2>3, <2>4, StepKinds
  <1> QED
    BY <1>1, LoopInvariant, PTL DEF Spec, NoEntryWhileHalted

(* Short of a restart, an open position is never replaced, altered or       *)
(* forgotten: it leaves its slot only as a booked trade of the same stake. *)
THEOREM PositionsLeaveByBooking == Spec => PositionLeavesByBooking
  <1> DEFINE ByBooking ==
        \A s \in Symbols :
          IsPending(s) /\ pending'[s] # pending[s] /\ restarts' = restarts =>
              /\ ~IsPending(s)'
              /\ Len(trades') = Len(trades) + 1
              /\ trades'[Len(trades')].symbol = s
              /\ trades'[Len(trades')].stake = pending[s].stake
  <1>1. LoopInv /\ [Next]_vars => ByBooking
    <2> SUFFICES ASSUME LoopInv, [Next]_vars, NEW s \in Symbols,
                        IsPending(s), pending'[s] # pending[s],
                        restarts' = restarts
                 PROVE  /\ ~IsPending(s)'
                        /\ Len(trades') = Len(trades) + 1
                        /\ trades'[Len(trades')].symbol = s
                        /\ trades'[Len(trades')].stake = pending[s].stake
      OBVIOUS
    <2>1. ~Quiet /\ ~Restart /\ \A t \in Symbols : ~Enters(t)
      BY DEF Quiet, Restart, Enters, LoopInv, TypeOK
    <2>2. PICK t \in Symbols, epoch \in Nat, pnl \in Int :
              Leaves(t, epoch, pnl)
      BY <2>1, StepKinds
    <2>3. t = s
      BY <2>2, LeavesEffect
    <2> QED
      BY <2>2, <2>3, LeavesEffect DEF IsPending
  <1> QED
    BY <1>1, LoopInvariant, PTL DEF Spec, PositionLeavesByBooking

-----------------------------------------------------------------------------
(* The loop implements the account.                                         *)

StakesOpen == [s \in Symbols |-> pending[s].stake]

(* The engine's breakers are the account's limits.                          *)
LEMMA BreakersAreLimits ==
    ASSUME LoopInv, ~DrawdownTripped, ~DailyTripped
    PROVE  Account!BelowLimits
  <1>1. /\ equity \in Int /\ peakEquity \in Nat \ {0} /\ dayStartEquity \in Int
        /\ Scale \in Nat /\ MaxDrawdown \in Nat /\ MaxDailyLoss \in Nat
    BY ConfigAssumption, ScaleAssumption DEF LoopInv, TypeOK, RiskTypeOK
  <1>2. (peakEquity - equity) * Scale < MaxDrawdown * peakEquity
    <2>1. ~((peakEquity - equity) * Scale >= MaxDrawdown * peakEquity)
      BY <1>1 DEF DrawdownTripped
    <2> QED
      BY <1>1, <2>1
  <1>3. dayStartEquity > 0 =>
            (dayStartEquity - equity) * Scale < MaxDailyLoss * dayStartEquity
    <2>1. dayStartEquity > 0 =>
            ~((dayStartEquity - equity) * Scale >= MaxDailyLoss * dayStartEquity)
      BY DEF DailyTripped
    <2> QED
      BY <1>1, <2>1
  <1> QED
    BY <1>2, <1>3 DEF Account!BelowLimits

LEMMA AccountSimulation ==
    LoopInv /\ [Next]_vars => [Account!AccountNext]_(Account!accountVars)
  <1> SUFFICES ASSUME LoopInv, [Next]_vars
               PROVE  Account!AccountNext \/ UNCHANGED Account!accountVars
    OBVIOUS
  <1>1. CASE Quiet
    BY <1>1 DEF Quiet, Account!accountVars
  <1>2. ASSUME NEW s \in Symbols, Enters(s) PROVE Account!Open(s)
    <2>1. Account!BelowLimits
      BY <1>2, BreakersAreLimits DEF Enters
    <2>2. pending[s] = NoTrade
      BY <1>2 DEF Enters, IsPending
    <2>3. StakesOpen[s] = 0 /\ StakesOpen'[s] = pending'[s].stake
      BY <2>2 DEF StakesOpen, NoTrade
    <2>4. StakesOpen' = [StakesOpen EXCEPT ![s] = pending'[s].stake]
      BY <1>2 DEF Enters, StakesOpen
    <2> QED
      BY <1>2, <2>1, <2>3, <2>4 DEF Enters, Account!Open, StakesOpen
  <1>3. ASSUME NEW s \in Symbols, NEW epoch \in Nat, NEW pnl \in Int,
               Leaves(s, epoch, pnl)
        PROVE  Account!Close(s)
    <2>1. /\ pending'[s] = NoTrade
          /\ \A t \in Symbols \ {s} : pending'[t] = pending[t]
          /\ equity' = equity + pnl /\ pnl >= -pending[s].stake
          /\ peakEquity' = AtLeast(peakEquity, equity + pnl)
          /\ dayStartEquity' \in {dayStartEquity, equity}
      BY <1>3, LeavesEffect
    <2>2. pending[s].stake > 0 /\ pending[s].stake \in Nat
      BY <1>3 DEF Leaves, LoopInv, PositionInv, TypeOK, IsPending, PendingTrade
    <2>3. StakesOpen' = [StakesOpen EXCEPT ![s] = 0]
      <3>1. pending'[s].stake = 0
        BY <2>1 DEF NoTrade
      <3> QED
        BY <2>1, <3>1 DEF StakesOpen
    <2>4. equity \in Int /\ peakEquity \in Int
      BY DEF LoopInv, TypeOK, RiskTypeOK
    <2>5. /\ equity' \in Int /\ equity' >= equity - pending[s].stake
          /\ peakEquity' = IF equity' > peakEquity THEN equity' ELSE peakEquity
          /\ UNCHANGED restarts
      BY <1>3, <2>1, <2>2, <2>4 DEF AtLeast, Leaves
    <2> QED
      BY <2>1, <2>2, <2>3, <2>5 DEF Account!Close, StakesOpen
  <1>4. CASE Restart
    <2>1. StakesOpen' = [s \in Symbols |-> 0]
      BY <1>4 DEF Restart, StakesOpen, NoTrade
    <2>2. Account!StartOver
      BY <1>4, <2>1 DEF Restart, ResetEngine, Account!StartOver, StakesOpen
    <2> QED
      BY <2>2 DEF Account!AccountNext
  <1> QED
    BY <1>1, <1>2, <1>3, <1>4, StepKinds DEF Account!AccountNext

(* The whole loop, in both modes and against every market and broker, keeps *)
(* the account's promises.                                                 *)
THEOREM LoopImplementsAccount == Spec => ImplementsAccount
  <1>1. Init => Account!AccountInit
    BY DEF Init, RiskInit, Account!AccountInit, NoTrade
  <1> QED
    BY <1>1, AccountSimulation, LoopInvariant, PTL
    DEF Spec, ImplementsAccount, Account!AccountSpec

=============================================================================
