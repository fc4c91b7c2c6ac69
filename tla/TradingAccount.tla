--------------------------- MODULE TradingAccount ---------------------------
(***************************************************************************)
(* What the trading loop promises of the account, with candles, models,    *)
(* quotes, polls and the broker left out: at most one position per symbol, *)
(* opened only below the loss limits and within the exposure cap of the    *)
(* balance, and closed once, for no worse a result than its stake.  A      *)
(* failure of the process starts the account over.                         *)
(***************************************************************************)
EXTENDS Integers

CONSTANTS
    Symbols, Scale, StartingEquity, MaxDailyLoss, MaxDrawdown, MaxExposure,
    MaxSlippage, MaxRestarts

VARIABLES
    balance,    \* the realized equity
    peak,       \* the highest balance so far
    opening,    \* the balance the current trading day opened with
    atRisk,     \* the stake open on each symbol, 0 for none
    restarts    \* times the account was started over

accountVars == <<balance, peak, opening, atRisk, restarts>>

AccountInit ==
    /\ balance = StartingEquity
    /\ peak = StartingEquity
    /\ opening = StartingEquity
    /\ atRisk = [s \in Symbols |-> 0]
    /\ restarts = 0

BelowLimits ==
    /\ (peak - balance) * Scale < MaxDrawdown * peak
    /\ opening > 0 => (opening - balance) * Scale < MaxDailyLoss * opening

Open(s) ==
    /\ atRisk[s] = 0 /\ BelowLimits
    /\ LET stake == atRisk'[s]
       IN  /\ stake > 0
           /\ stake * Scale * Scale
                <= MaxExposure * balance * (Scale + MaxSlippage)
           /\ atRisk' = [atRisk EXCEPT ![s] = stake]
    /\ UNCHANGED <<balance, peak, opening, restarts>>

Close(s) ==
    /\ atRisk[s] > 0
    /\ atRisk' = [atRisk EXCEPT ![s] = 0]
    /\ balance' \in Int /\ balance' >= balance - atRisk[s]
    /\ peak' = IF balance' > peak THEN balance' ELSE peak
    /\ opening' \in {opening, balance}
    /\ UNCHANGED restarts

(* Nothing but a failure of the process starts the account over.            *)
StartOver ==
    /\ restarts < MaxRestarts
    /\ restarts' = restarts + 1
    /\ balance' = StartingEquity
    /\ peak' = StartingEquity
    /\ opening' = StartingEquity
    /\ atRisk' = [s \in Symbols |-> 0]

AccountNext == StartOver \/ \E s \in Symbols : Open(s) \/ Close(s)

AccountSpec == AccountInit /\ [][AccountNext]_accountVars
=============================================================================
