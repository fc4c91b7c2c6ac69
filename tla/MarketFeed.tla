----------------------------- MODULE MarketFeed -----------------------------
(***************************************************************************)
(* What happens to a tick: the client's reader hands it to                 *)
(* IntegrityValidator, main's on_tick writes it to the store and feeds the *)
(* CandleAggregator, and a completed candle goes to the feature buffer and *)
(* the state encoder.  The reader's task, the store's periodic task, the   *)
(* store's server and the shutdown in main interleave at the awaits.       *)
(*                                                                         *)
(* A price jump is a z-score over reals: once enough returns are known any *)
(* return may be one.  Feature vectors are taken to be complete.           *)
(***************************************************************************)
EXTENDS TickStore, FiniteSetsExt

CONSTANTS
  Granularity,      \* historical.candle_granularity_seconds
  MaxGap,           \* integrity.max_allowed_gap_seconds
  MinReturns,       \* integrity.min_ticks_for_sigma_estimate
  MinHistory,       \* feature_engineering.min_history_required
  MaxTicks          \* bound: ticks read

ASSUME FeedAssumption ==
  /\ {Granularity, MinReturns, MinHistory} \subseteq Nat \ {0}
  /\ {MaxGap, MaxTicks} \subseteq Nat

VARIABLES
  task,          \* main's task: where on_tick or the shutdown stands
  tick,          \* the tick that on_tick was called with
  validator,     \* per symbol, last_epoch and the length of log_returns
  candle,        \* _open_candles
  features,      \* candles in the feature buffer, counted up to MinHistory
  bootstrapped,  \* symbols with a probability model
  read,          \* ticks read (history)
  accepted,      \* per symbol, well-ordered ticks written (history)
  parts,         \* per symbol, the ticks of the open candle (history)
  emitted,       \* per symbol, the ticks of the candles emitted (history)
  observed,      \* feature vectors computed since the stream began (history)
  folds          \* vectors folded into the normaliser since then

candleVars == <<candle, features, parts, emitted, observed, folds>>
feedVars == <<tick, validator, bootstrapped, read, accepted>>
vars == <<storeVars, task, feedVars, candleVars>>

NoEpoch == -1
NoCandle == [count |-> 0]
NoTick == [quality |-> "no tick"]

Ended == {"closed", "failed"}

-----------------------------------------------------------------------------
(* IntegrityValidator.validate *)

\* The quality a tick at e may be given: order first, then gap, then jump.
QualitiesAt(s, e) ==
  LET last == validator[s].epoch IN
    CASE last = NoEpoch    -> {"ok"}
      [] e = last          -> {"duplicate"}
      [] e < last          -> {"out_of_order"}
      [] e > last + MaxGap -> {"gap_detected"}
      [] OTHER -> IF validator[s].returns < MinReturns THEN {"ok"}
                  ELSE {"ok", "price_jump_suspect"}

WellOrdered(t) == t.quality \notin {"duplicate", "out_of_order"}

\* A return is recorded unless the tick is the first or follows a gap.
Validated(s, t) ==
  [epoch   |-> IF WellOrdered(t) THEN t.epoch ELSE validator[s].epoch,
   returns |-> IF /\ t.quality \in {"ok", "price_jump_suspect"}
                  /\ validator[s].epoch # NoEpoch
                  /\ validator[s].returns < MinReturns
               THEN validator[s].returns + 1 ELSE validator[s].returns]

\* _listen reads a tick and has it validated; on_tick then asks for the lock.
\* A free lock is taken at once; the step in between changes nothing else.
ReadTick ==
  /\ task = "reading"
  /\ read < MaxTicks
  /\ \E s \in Symbols, e \in Epochs, p \in Prices : \E q \in QualitiesAt(s, e) :
       LET t == [symbol |-> s, epoch |-> e, quote |-> p, quality |-> q] IN
         /\ tick' = t
         /\ validator' = [validator EXCEPT ![s] = Validated(s, t)]
  /\ task' = "writing"
  /\ read' = read + 1
  /\ UNCHANGED <<storeVars, bootstrapped, accepted, candleVars>>

-----------------------------------------------------------------------------
(* CandleAggregator.on_tick, and on_candle of main *)

\* Slip: the place in the window instead of its start.
BucketOffset(e) == e % Granularity

Bucket(e) == (e \div Granularity) * Granularity

\* Slip: only ticks beyond doubt are aggregated.
IgnoredUnlessOk(t) == t.quality # "ok"

Ignored(t) == t.quality \in {"duplicate", "out_of_order"}

\* A suspect tick that opens a window does not mark the candle.
Opened(t) ==
  [epoch |-> Bucket(t.epoch), open |-> t.quote, high |-> t.quote, low |-> t.quote,
   close |-> t.quote, suspect |-> FALSE, count |-> 1]

\* Slip: the low follows the last price.
UpdatedLow(c, t) ==
  [c EXCEPT !.high = Max({@, t.quote}), !.low = t.quote, !.close = t.quote,
            !.suspect = @ \/ t.quality = "price_jump_suspect", !.count = @ + 1]

Updated(c, t) ==
  [c EXCEPT !.high = Max({@, t.quote}), !.low = Min({@, t.quote}), !.close = t.quote,
            !.suspect = @ \/ t.quality = "price_jump_suspect", !.count = @ + 1]

FeaturesReady(s) == features[s] + 1 >= MinHistory

\* encode() folds every feature of the vector into the running statistics,
\* which all symbols share.
Fold(times) == /\ observed' = observed + 1
               /\ folds' = folds + times

\* Once by main; and again, by the same encoder, in the orchestrator, for a
\* symbol that has a model and no live trade still unsettled.
Encodings(s) == IF s \in bootstrapped THEN {1, 2} ELSE {1}

\* main's on_candle, for a completed candle of s
OnCandle(s) ==
  \/ /\ ~FeaturesReady(s)
     /\ features' = [features EXCEPT ![s] = @ + 1]
     /\ UNCHANGED <<observed, folds>>
  \/ /\ FeaturesReady(s)
     /\ features' = [features EXCEPT ![s] = MinHistory]
     /\ \E times \in Encodings(s) : Fold(times)

\* The aggregator's on_tick returns the candle its tick has closed, if any.
Aggregate(t) ==
  LET s == t.symbol IN
    \/ /\ Ignored(t)
       /\ UNCHANGED candleVars
    \/ /\ ~Ignored(t)
       /\ candle[s] = NoCandle
       /\ candle' = [candle EXCEPT ![s] = Opened(t)]
       /\ parts' = [parts EXCEPT ![s] = <<t>>]
       /\ UNCHANGED <<features, emitted, observed, folds>>
    \/ /\ ~Ignored(t)
       /\ candle[s] # NoCandle /\ Bucket(t.epoch) = candle[s].epoch
       /\ candle' = [candle EXCEPT ![s] = Updated(@, t)]
       /\ parts' = [parts EXCEPT ![s] = Append(@, t)]
       /\ UNCHANGED <<features, emitted, observed, folds>>
    \/ /\ ~Ignored(t)
       /\ candle[s] # NoCandle /\ Bucket(t.epoch) # candle[s].epoch
       /\ candle' = [candle EXCEPT ![s] = Opened(t)]
       /\ parts' = [parts EXCEPT ![s] = <<t>>]
       /\ emitted' = [emitted EXCEPT ![s] = @ + candle[s].count]
       /\ OnCandle(s)

-----------------------------------------------------------------------------
(* on_tick of main *)

\* write_ticks returns and the tick is aggregated, with no await in between.
TickWritten == /\ Aggregate(tick)
               /\ task' = "reading"
               /\ tick' = NoTick

\* write_ticks raises.  run_forever takes an OSError or a timeout, which only
\* a request can end in, for a lost connection and goes on reading.
WriteRaises == /\ \/ backend = "supabase" /\ task' = "reading"
                  \/ task' = "closing"
               /\ tick' = NoTick
               /\ UNCHANGED candleVars

WriteTick ==
  /\ task = "writing"
  /\ lock = "free"
  /\ written' = [written EXCEPT ![KeyOf(tick)] = tick]
  /\ accepted' = [accepted EXCEPT ![tick.symbol] = @ + IF WellOrdered(tick) THEN 1 ELSE 0]
  /\ LET b == Append(buffer, tick) IN
       \/ /\ ~BatchFull(b)
          /\ buffer' = b
          /\ UNCHANGED <<backend, lock, requestVars, rows, failures>>
          /\ TickWritten
       \/ BatchFull(b) /\ FlushesAtOnce(b) /\ TickWritten
       \/ BatchFull(b) /\ FailsAtOnce("handler", b) /\ WriteRaises
       \/ BatchFull(b) /\ StartPost("handler", b) /\ task' = "posting"
          /\ UNCHANGED <<tick, candleVars>>
  /\ UNCHANGED <<flusher, validator, bootstrapped, read>>

HandlerPostEnds ==
  /\ task = "posting"
  /\ \/ PostSucceeds("handler") /\ TickWritten
     \/ PostFails("handler") /\ WriteRaises
  /\ UNCHANGED <<flusher, written, validator, bootstrapped, read, accepted>>

-----------------------------------------------------------------------------
(* The end *)

\* run_forever returns or raises, or an interrupt cancels the task at an await.
StopFeed ==
  /\ task \in {"reading", "writing", "posting"}
  /\ task' = "closing"
  /\ tick' = NoTick
  /\ \/ task = "posting" /\ CancelPost
     \/ task # "posting" /\ UNCHANGED <<requestVars, lock>>
  /\ UNCHANGED <<backend, buffer, flusher, rows, failures, written,
                 validator, bootstrapped, read, accepted, candleVars>>

\* close() cancels the periodic task, at its sleep or in its request.
CancelFlusher ==
  /\ task = "closing"
  /\ task' = "flushing"
  /\ flusher' = "dead"
  /\ \/ lock = "flusher" /\ CancelPost
     \/ lock # "flusher" /\ UNCHANGED <<requestVars, lock>>
  /\ UNCHANGED <<backend, buffer, rows, failures, written, feedVars, candleVars>>

\* close() flushes what is left; if that fails, it ends with the process.
CloseFlushes ==
  /\ task = "flushing"
  /\ lock = "free"
  /\ \/ /\ buffer = <<>>
        /\ task' = "closed"
        /\ UNCHANGED <<backend, buffer, lock, requestVars, rows, failures>>
     \/ buffer # <<>> /\ FlushesAtOnce(buffer) /\ task' = "closed"
     \/ buffer # <<>> /\ FailsAtOnce("closer", buffer) /\ task' = "failed"
     \/ buffer # <<>> /\ StartPost("closer", buffer) /\ UNCHANGED task
  /\ UNCHANGED <<flusher, written, feedVars, candleVars>>

\* Slip: close() tries again until it succeeds.
ClosePostEndsRetrying ==
  /\ task = "flushing"
  /\ \/ PostSucceeds("closer") /\ task' = "closed"
     \/ PostFails("closer") /\ UNCHANGED task
  /\ UNCHANGED <<flusher, written, feedVars, candleVars>>

ClosePostEnds ==
  /\ task = "flushing"
  /\ \/ PostSucceeds("closer") /\ task' = "closed"
     \/ PostFails("closer") /\ task' = "failed"
  /\ UNCHANGED <<flusher, written, feedVars, candleVars>>

-----------------------------------------------------------------------------
\* The bootstrap has replayed each symbol's history, if any: the buffer is
\* full for a symbol with a model, and as full as it got for another.
Init ==
  /\ StoreInit
  /\ task = "reading"
  /\ tick = NoTick
  /\ validator = [s \in Symbols |-> [epoch |-> NoEpoch, returns |-> 0]]
  /\ candle = [s \in Symbols |-> NoCandle]
  /\ bootstrapped \in SUBSET Symbols
  /\ features \in [Symbols -> 0..MinHistory]
  /\ \A s \in bootstrapped : features[s] = MinHistory
  /\ read = 0
  /\ accepted = [s \in Symbols |-> 0]
  /\ parts = [s \in Symbols |-> <<>>]
  /\ emitted = [s \in Symbols |-> 0]
  /\ observed = 0
  /\ folds = 0

FlusherRuns == FlusherWakes /\ task \notin Ended /\ UNCHANGED <<task, feedVars, candleVars>>

PostEnds == \/ FlusherPostEnds /\ UNCHANGED <<task, feedVars, candleVars>>
            \/ HandlerPostEnds
            \/ ClosePostEnds

Server == (ServerApplies \/ ServerAppliesLate) /\ UNCHANGED <<task, feedVars, candleVars>>

Terminated == task \in Ended /\ UNCHANGED vars

Next == \/ ReadTick \/ WriteTick \/ StopFeed \/ CancelFlusher \/ CloseFlushes
        \/ FlusherRuns \/ PostEnds \/ Server \/ Terminated

\* Every request ends, at the latest in its timeout; the event loop runs what
\* can run; and asyncio's lock is first come, first served.
Fairness == /\ WF_vars(PostEnds)
            /\ WF_vars(WriteTick) /\ WF_vars(CancelFlusher) /\ WF_vars(CloseFlushes)
            /\ SF_vars(FlusherRuns)

Spec == Init /\ [][Next]_vars /\ Fairness

-----------------------------------------------------------------------------
(* Properties *)

\* Store, tick, validator and open candles hold values of their kinds, and a
\* handler's request is under way exactly while on_tick awaits it.
TypeOK ==
  /\ StoreTypeOK
  /\ task \in {"reading", "writing", "posting", "closing", "flushing"} \cup Ended
  /\ task = "posting" <=> lock = "handler"
  /\ lock = "closer" => task = "flushing"
  /\ tick \in Ticks \cup {NoTick}
  /\ task \in {"writing", "posting"} <=> tick # NoTick
  /\ validator \in [Symbols -> [epoch : Epochs \cup {NoEpoch}, returns : 0..MinReturns]]
  /\ features \in [Symbols -> 0..MinHistory]
  /\ bootstrapped \subseteq Symbols

\* As long as no flush has failed, less than one batch is in memory between
\* two writes: this is all that a crash can cost.
LossBounded ==
  task \in {"reading", "writing"} /\ lock = "free" /\ failures = {}
    => Len(buffer) < WriteBatchSize

\* A tick handed to the store is in the table or still in memory, whatever
\* flushes fail, are cancelled or go unanswered, until close()'s own fails.
NothingLost ==
  task # "failed" =>
    \A k \in Keys : written[k] # NoRow => Overlaid[k] # NoRow

\* The table with the buffer on top holds the last tick written per key,
\* unless a request that the client gave up on may overtake a later one.
LastWriteWins ==
  task # "failed" /\ ~abandoned => Overlaid = written

\* The open candle is what its ticks make it: they are of its window and
\* strictly later one than another, whatever the broker repeats or reorders.
\* Only the mark of a suspect tick that opens the window is missing.
CandleMatchesTicks ==
  \A s \in Symbols :
    LET ticks == parts[s]
        quotes == {ticks[i].quote : i \in DOMAIN ticks} IN
      \/ candle[s] = NoCandle /\ ticks = <<>>
      \/ /\ ticks # <<>>
         /\ \A i \in DOMAIN ticks : Bucket(ticks[i].epoch) = candle[s].epoch
         /\ \A i, j \in DOMAIN ticks : i < j => ticks[i].epoch < ticks[j].epoch
         /\ candle[s].open = ticks[1].quote
         /\ candle[s].close = ticks[Len(ticks)].quote
         /\ candle[s].high \in quotes /\ \A p \in quotes : p <= candle[s].high
         /\ candle[s].low \in quotes /\ \A p \in quotes : p >= candle[s].low
         /\ candle[s].suspect
              <=> \E i \in 2..Len(ticks) : ticks[i].quality = "price_jump_suspect"
         /\ candle[s].count = Len(ticks)

\* Store and candles agree: while no write of the handler has failed, each
\* well-ordered tick written is counted in exactly one candle.
EveryTickInOneCandle ==
  task = "reading" /\ "handler" \notin failures =>
    \A s \in Symbols : accepted[s] = emitted[s] + candle[s].count

\* The candles of a symbol are of later and later windows.
WindowsAdvance ==
  [][\A s \in Symbols :
       candle[s] # NoCandle /\ candle'[s] # candle[s]
         => \/ candle'[s].epoch > candle[s].epoch /\ emitted'[s] > emitted[s]
            \/ candle'[s].epoch = candle[s].epoch /\ emitted'[s] = emitted[s]]_vars

\* A shutdown ends: nobody leaves the lock held for close() to wait on.
ShutdownEnds == task = "closing" ~> task \in Ended

\* "Live and backtest runs produce identical z-score sequences given the same
\* chronological data": the normaliser has folded each vector in once.
FoldedOnce == folds = observed
=============================================================================
