-------------------------- MODULE MarketFeedProofs --------------------------
(* Theorems about MarketFeed and its store, for every set of symbols,      *)
(* epochs and prices, every batch size and every bound.                    *)
EXTENDS MarketFeed, SequenceTheorems, SumLemmas

-----------------------------------------------------------------------------
(* The table of TickStore *)

Rows == [Keys -> Ticks \cup {NoRow}]

LEMMA NoRowIsNoTick == NoRow \notin Ticks
  BY DEF NoRow, Ticks, Qualities

LEMMA KeyIsAKey == \A t \in Ticks : KeyOf(t) \in Keys
  BY DEF KeyOf, Keys, Ticks

LEMMA UpsertIsTable ==
  ASSUME NEW table, NEW batch
  PROVE  Upsert(table, batch) = [k \in Keys |-> Upsert(table, batch)[k]]
  BY DEF Upsert

\* Where a batch has no row for a key, the table keeps its own.
LEMMA UpsertAbsent ==
  ASSUME NEW table, NEW batch, NEW k \in Keys, Positions(batch, k) = {}
  PROVE  Upsert(table, batch)[k] = table[k]
  BY DEF Upsert

\* Where it has some, the last one counts.
LEMMA UpsertPresent ==
  ASSUME NEW table, NEW batch \in Seq(Ticks), NEW k \in Keys, Positions(batch, k) # {}
  PROVE  \E i \in Positions(batch, k) :
            /\ \A j \in Positions(batch, k) : j <= i
            /\ Upsert(table, batch)[k] = batch[i]
<1> DEFINE last == CHOOSE i \in Positions(batch, k) : \A j \in Positions(batch, k) : j <= i
<1>1. Len(batch) \in Nat /\ DOMAIN batch = 1..Len(batch)
  BY LenProperties
<1>2. Positions(batch, k) \subseteq 1..Len(batch)
  BY <1>1 DEF Positions
<1>3. \E i \in Positions(batch, k) : \A j \in Positions(batch, k) : j <= i
  BY <1>1, <1>2, LastPosition
<1>4. last \in Positions(batch, k) /\ \A j \in Positions(batch, k) : j <= last
  BY <1>3
<1>5. Upsert(table, batch)[k] = batch[last]
  BY DEF Upsert
<1> QED BY <1>4, <1>5

LEMMA UpsertIsTick ==
  ASSUME NEW table, NEW batch \in Seq(Ticks), NEW k \in Keys, Positions(batch, k) # {}
  PROVE  Upsert(table, batch)[k] \in Ticks
<1>1. PICK i \in Positions(batch, k) : Upsert(table, batch)[k] = batch[i]
  BY UpsertPresent
<1>2. i \in 1..Len(batch)
  BY LenProperties DEF Positions
<1> QED BY <1>1, <1>2, ElementOfSeq

LEMMA UpsertType ==
  ASSUME NEW table \in Rows, NEW batch \in Seq(Ticks)
  PROVE  Upsert(table, batch) \in Rows
<1>1. ASSUME NEW k \in Keys
      PROVE  Upsert(table, batch)[k] \in Ticks \cup {NoRow}
  BY UpsertAbsent, UpsertIsTick DEF Rows
<1>2. Upsert(table, batch) = [k \in Keys |-> Upsert(table, batch)[k]]
  BY DEF Upsert
<1> QED BY <1>1, <1>2 DEF Rows

LEMMA UpsertEmpty ==
  ASSUME NEW table \in Rows
  PROVE  Upsert(table, <<>>) = table
<1>1. ASSUME NEW k \in Keys
      PROVE  Positions(<<>>, k) = {}
  BY DEF Positions
<1>2. Upsert(table, <<>>) = [k \in Keys |-> table[k]]
  BY <1>1 DEF Upsert
<1> QED BY <1>2 DEF Rows

\* A request that was applied can be applied again: same rows.
LEMMA UpsertTwice ==
  ASSUME NEW table, NEW batch
  PROVE  Upsert(Upsert(table, batch), batch) = Upsert(table, batch)
  BY DEF Upsert

\* No upsert takes a row away, whatever the order.
LEMMA UpsertKeepsRow ==
  ASSUME NEW table, NEW batch \in Seq(Ticks), NEW k \in Keys, table[k] # NoRow
  PROVE  Upsert(table, batch)[k] # NoRow
  BY UpsertAbsent, UpsertIsTick, NoRowIsNoTick

\* What is a row after an upsert was one before or is in the batch.
LEMMA UpsertOver ==
  ASSUME NEW table, NEW other, NEW batch \in Seq(Ticks), NEW k \in Keys,
         table[k] # NoRow => other[k] # NoRow,
         Upsert(table, batch)[k] # NoRow
  PROVE  Upsert(other, batch)[k] # NoRow
<1>1. CASE Positions(batch, k) = {}
  BY <1>1, UpsertAbsent
<1>2. CASE Positions(batch, k) # {}
  BY <1>2, UpsertIsTick, NoRowIsNoTick
<1> QED BY <1>1, <1>2

LEMMA PositionsAppend ==
  ASSUME NEW batch \in Seq(Ticks), NEW t \in Ticks, NEW k \in Keys
  PROVE  Positions(Append(batch, t), k)
           = IF KeyOf(t) = k THEN Positions(batch, k) \cup {Len(batch) + 1}
             ELSE Positions(batch, k)
<1>1. /\ Append(batch, t) \in Seq(Ticks)
      /\ Len(Append(batch, t)) = Len(batch) + 1
      /\ \A i \in 1..Len(batch) : Append(batch, t)[i] = batch[i]
      /\ Append(batch, t)[Len(batch) + 1] = t
  BY AppendProperties
<1>2. /\ Len(batch) \in Nat
      /\ DOMAIN batch = 1..Len(batch)
      /\ DOMAIN Append(batch, t) = 1..(Len(batch) + 1)
  BY <1>1, LenProperties
<1> QED BY <1>1, <1>2 DEF Positions

\* A tick appended to the buffer is the last of its key and of no other.
LEMMA UpsertAppend ==
  ASSUME NEW table, NEW batch \in Seq(Ticks), NEW t \in Ticks
  PROVE  Upsert(table, Append(batch, t)) = [Upsert(table, batch) EXCEPT ![KeyOf(t)] = t]
<1> DEFINE longer == Append(batch, t)
<1>1. /\ longer \in Seq(Ticks)
      /\ \A i \in 1..Len(batch) : longer[i] = batch[i]
      /\ longer[Len(batch) + 1] = t
  BY AppendProperties
<1>2. Len(batch) \in Nat /\ DOMAIN batch = 1..Len(batch)
  BY LenProperties
<1>9. \A k \in Keys : Positions(batch, k) \subseteq 1..Len(batch)
  BY <1>2 DEF Positions
<1>8. ASSUME NEW k \in Keys
      PROVE  Positions(longer, k) = IF KeyOf(t) = k THEN Positions(batch, k) \cup {Len(batch) + 1}
                                    ELSE Positions(batch, k)
  BY PositionsAppend
<1> HIDE DEF longer
<1>3. ASSUME NEW k \in Keys
      PROVE  Upsert(table, longer)[k] = IF k = KeyOf(t) THEN t ELSE Upsert(table, batch)[k]
  <2>1. CASE k = KeyOf(t)
    <3>1. Positions(longer, k) = Positions(batch, k) \cup {Len(batch) + 1}
      BY <1>8, <2>1
    <3>2. PICK i \in Positions(longer, k) : /\ \A j \in Positions(longer, k) : j <= i
                                            /\ Upsert(table, longer)[k] = longer[i]
      <4>1. longer \in Seq(Ticks) /\ Positions(longer, k) # {}
        BY <1>1, <3>1
      <4> QED BY <4>1, UpsertPresent
    <3>3. i = Len(batch) + 1
      <4>1. i \in 1..Len(batch) \/ i = Len(batch) + 1
        BY <1>9, <3>1
      <4>2. Len(batch) + 1 <= i
        BY <3>1, <3>2
      <4> QED BY <1>2, <4>1, <4>2
    <3> QED BY <1>1, <2>1, <3>2, <3>3
  <2>2. CASE k # KeyOf(t)
    <3>1. Positions(longer, k) = Positions(batch, k)
      BY <1>8, <2>2
    <3>2. CASE Positions(batch, k) = {}
      BY <2>2, <3>1, <3>2, UpsertAbsent
    <3>3. CASE Positions(batch, k) # {}
      <4>1. PICK i \in Positions(batch, k) : /\ \A j \in Positions(batch, k) : j <= i
                                             /\ Upsert(table, batch)[k] = batch[i]
        BY <3>3, UpsertPresent
      <4>2. PICK m \in Positions(longer, k) : /\ \A j \in Positions(longer, k) : j <= m
                                              /\ Upsert(table, longer)[k] = longer[m]
        <5>1. longer \in Seq(Ticks) /\ Positions(longer, k) # {}
          BY <1>1, <3>1, <3>3
        <5> QED BY <5>1, UpsertPresent
      <4>3. i = m /\ i \in 1..Len(batch)
        BY <1>2, <1>9, <3>1, <4>1, <4>2
      <4> QED BY <1>1, <2>2, <4>1, <4>2, <4>3
    <3> QED BY <3>2, <3>3
  <2> QED BY <2>1, <2>2
<1>4. Upsert(table, longer) = [k \in Keys |-> Upsert(table, longer)[k]]
  BY UpsertIsTable
<1>5. Upsert(table, batch) = [k \in Keys |-> Upsert(table, batch)[k]]
  BY UpsertIsTable
<1>6. [Upsert(table, batch) EXCEPT ![KeyOf(t)] = t]
        = [k \in Keys |-> IF k = KeyOf(t) THEN t ELSE Upsert(table, batch)[k]]
  BY <1>5
<1>7. Upsert(table, longer)
        = [k \in Keys |-> IF k = KeyOf(t) THEN t ELSE Upsert(table, batch)[k]]
  BY <1>3, <1>4
<1> QED BY <1>6, <1>7 DEF longer

-----------------------------------------------------------------------------
(* The inductive invariant *)

Candles == [epoch : Int, open : Prices, high : Prices, low : Prices, close : Prices,
            suspect : BOOLEAN, count : Nat \ {0}]

\* The history variables and the open candles have values of their kinds.
HistoryTypeOK ==
  /\ candle \in [Symbols -> Candles \cup {NoCandle}]
  /\ parts \in [Symbols -> Seq(Ticks)]
  /\ accepted \in [Symbols -> Nat]
  /\ emitted \in [Symbols -> Nat]

\* A request is Supabase's alone, and one that has been applied has left a
\* row for each of its keys, with its own values unless an abandoned one has
\* overtaken it.  No request is late that was not abandoned.
RequestInv ==
  /\ lock # "free" => backend = "supabase"
  /\ ~abandoned => late = {}
  /\ reply = "applied" => /\ \A k \in Keys : Overlaid[k] # NoRow => rows[k] # NoRow
                          /\ ~abandoned => Overlaid = rows

\* A key that was written has a row, in the table or on top of it.
WrittenInv ==
  /\ \A k \in Keys : written[k] # NoRow => Overlaid[k] # NoRow
  /\ ~abandoned => Overlaid = written

\* Between two writes the buffer is short, whoever holds the lock.
BufferInv ==
  failures = {} /\ task \in {"reading", "writing"} => Len(buffer) < WriteBatchSize

\* Nothing in the open candle is later than the validator's last epoch, and
\* a well-ordered tick under way is at that epoch and later than all of it.
OrderInv ==
  /\ \A s \in Symbols : \A i \in DOMAIN parts[s] : parts[s][i].epoch <= validator[s].epoch
  /\ tick # NoTick /\ WellOrdered(tick) =>
       /\ tick.epoch = validator[tick.symbol].epoch
       /\ \A i \in DOMAIN parts[tick.symbol] : parts[tick.symbol][i].epoch < tick.epoch

\* The tick whose write waits for an answer is accepted and not aggregated.
Awaited(s) == IF task = "posting" /\ tick.symbol = s /\ WellOrdered(tick) THEN 1 ELSE 0

CountInv ==
  task \in {"reading", "writing", "posting"} /\ "handler" \notin failures =>
    \A s \in Symbols : accepted[s] = emitted[s] + candle[s].count + Awaited(s)

FeedInv == /\ TypeOK /\ HistoryTypeOK /\ RequestInv /\ WrittenInv /\ BufferInv
           /\ OrderInv /\ CountInv /\ CandleMatchesTicks

-----------------------------------------------------------------------------
(* The store *)

StoreInv == StoreTypeOK /\ RequestInv /\ WrittenInv

\* A buffer that is flushed, sent or kept: what matters is the table with it.
LEMMA BatchTaken ==
  ASSUME StoreInv, lock = "free", NEW b \in Seq(Ticks), NEW who \in Actors,
         \/ FlushesAtOnce(b)
         \/ FailsAtOnce(who, b)
         \/ StartPost(who, b)
         \/ buffer' = b /\ UNCHANGED <<backend, lock, requestVars, rows, failures>>,
         flusher' \in {"alive", "dead"},
         written' \in Rows,
         \A k \in Keys : written'[k] # NoRow => Upsert(rows, b)[k] # NoRow,
         ~abandoned => Upsert(rows, b) = written'
  PROVE  StoreInv'
<1> DEFINE table == Upsert(rows, b)
<1>1. rows \in Rows /\ table \in Rows
  BY UpsertType DEF StoreInv, StoreTypeOK, Rows
<1>2. Upsert(table, <<>>) = table
  BY <1>1, UpsertEmpty
<1>3. reply = "none" /\ late \subseteq Seq(Ticks) /\ (~abandoned => late = {})
  BY DEF StoreInv, StoreTypeOK, RequestInv
<1>4. Upsert(rows', buffer') = table
  BY <1>2 DEF FlushesAtOnce, FailsAtOnce, StartPost
<1> HIDE DEF table
<1>5. Overlaid' = table
  BY <1>4 DEF Overlaid
<1>6. UNCHANGED <<late, abandoned>> /\ reply' \in {"none", "sent"}
  BY <1>3 DEF FlushesAtOnce, FailsAtOnce, StartPost, requestVars
<1>7. StoreTypeOK'
  <2>1. rows' \in Rows /\ buffer' \in Seq(Ticks)
    BY <1>1, EmptySeq DEF FlushesAtOnce, FailsAtOnce, StartPost, table
  <2>2. /\ backend' = backend
        /\ lock' \in Actors \cup {"free"}
        /\ reply' = "none" <=> lock' = "free"
        /\ failures' \subseteq Actors
    BY <1>3 DEF FlushesAtOnce, FailsAtOnce, StartPost, requestVars, StoreInv, StoreTypeOK, Actors
  <2> QED BY <1>6, <2>1, <2>2 DEF StoreInv, StoreTypeOK, Rows
<1>8. RequestInv'
  <2>1. lock' # "free" => backend' = "supabase"
    BY DEF FlushesAtOnce, FailsAtOnce, StartPost
  <2> QED BY <1>3, <1>6, <2>1 DEF RequestInv
<1>9. WrittenInv'
  BY <1>5, <1>6 DEF WrittenInv, table
<1> QED BY <1>7, <1>8, <1>9 DEF StoreInv

\* The request has been applied, so the buffer can go.
LEMMA PostSucceedsKeeps ==
  ASSUME StoreInv, NEW who \in Actors, PostSucceeds(who),
         flusher' \in {"alive", "dead"}, UNCHANGED written
  PROVE  StoreInv'
<1>1. rows \in Rows
  BY DEF StoreInv, StoreTypeOK, Rows
<1>2. Overlaid' = rows
  BY <1>1, UpsertEmpty DEF Overlaid, PostSucceeds
<1>3. /\ \A k \in Keys : Overlaid[k] # NoRow => rows[k] # NoRow
      /\ ~abandoned => Overlaid = rows
  BY DEF StoreInv, RequestInv, PostSucceeds
<1>4. StoreTypeOK'
  BY EmptySeq DEF StoreInv, StoreTypeOK, PostSucceeds
<1>5. RequestInv'
  BY DEF StoreInv, RequestInv, PostSucceeds
<1>6. WrittenInv'
  BY <1>2, <1>3 DEF StoreInv, WrittenInv, PostSucceeds
<1> QED BY <1>4, <1>5, <1>6 DEF StoreInv

\* A request that is given up on leaves the buffer in memory.
LEMMA RequestLeft ==
  ASSUME StoreInv, AbandonRequest, lock' = "free",
         failures' \subseteq Actors, flusher' \in {"alive", "dead"},
         UNCHANGED <<backend, buffer, rows, written>>
  PROVE  StoreInv'
<1>1. /\ reply' = "none"
      /\ abandoned' \in BOOLEAN /\ (abandoned => abandoned')
      /\ late' \subseteq Seq(Ticks)
      /\ ~abandoned' => late' = {}
  BY DEF AbandonRequest, StoreInv, StoreTypeOK, RequestInv
<1>2. Overlaid' = Overlaid
  BY DEF Overlaid
<1>3. StoreTypeOK'
  BY <1>1 DEF StoreInv, StoreTypeOK
<1>4. RequestInv'
  BY <1>1 DEF RequestInv
<1>5. WrittenInv'
  BY <1>1, <1>2 DEF StoreInv, WrittenInv
<1> QED BY <1>3, <1>4, <1>5 DEF StoreInv

LEMMA ServerKeeps ==
  ASSUME StoreInv, ServerApplies \/ ServerAppliesLate
  PROVE  StoreInv'
<1> USE DEF StoreInv
<1>1. rows \in Rows /\ buffer \in Seq(Ticks)
  BY DEF StoreTypeOK, Rows
<1>2. CASE ServerApplies
  <2>1. rows' = Overlaid /\ rows' \in Rows
    BY <1>1, <1>2, UpsertType DEF ServerApplies, Overlaid
  <2>2. Overlaid' = Overlaid
    BY <1>2, UpsertTwice DEF ServerApplies, Overlaid
  <2>3. StoreTypeOK'
    BY <1>2, <2>1 DEF ServerApplies, StoreTypeOK, Rows
  <2>4. RequestInv'
    BY <1>2, <2>1, <2>2 DEF ServerApplies, RequestInv
  <2>5. WrittenInv'
    BY <1>2, <2>2 DEF ServerApplies, WrittenInv
  <2> QED BY <2>3, <2>4, <2>5
<1>3. CASE ServerAppliesLate
  <2>1. PICK batch \in late : rows' = Upsert(rows, batch) /\ late' = late \ {batch}
    BY <1>3 DEF ServerAppliesLate
  <2>2. batch \in Seq(Ticks) /\ abandoned
    BY DEF StoreTypeOK, RequestInv
  <2>3. rows' \in Rows
    BY <1>1, <2>1, <2>2, UpsertType
  <2>4. ASSUME NEW k \in Keys
        PROVE  rows[k] # NoRow => rows'[k] # NoRow
    BY <2>1, <2>2, UpsertKeepsRow
  <2>5. ASSUME NEW k \in Keys
        PROVE  Overlaid[k] # NoRow => Overlaid'[k] # NoRow
    <3>1. buffer' = buffer
      BY <1>3 DEF ServerAppliesLate
    <3> QED BY <1>1, <2>4, <3>1, UpsertOver DEF Overlaid
  <2>6. StoreTypeOK'
    BY <1>3, <2>1, <2>3 DEF ServerAppliesLate, StoreTypeOK, Rows
  <2>7. RequestInv'
    <3>1. ASSUME reply = "applied", NEW k \in Keys, Overlaid'[k] # NoRow
          PROVE  rows'[k] # NoRow
      <4>2. CASE Positions(buffer, k) # {}
        <5>1. Overlaid[k] # NoRow
          BY <1>1, <4>2, UpsertIsTick, NoRowIsNoTick DEF Overlaid
        <5>2. rows[k] # NoRow
          BY <3>1, <5>1 DEF RequestInv
        <5> QED BY <2>4, <5>2
      <4>3. CASE Positions(buffer, k) = {}
        <5>1. buffer' = buffer
          BY <1>3 DEF ServerAppliesLate
        <5>2. Upsert(rows', buffer)[k] = rows'[k]
          BY <4>3, UpsertAbsent
        <5> QED BY <3>1, <5>1, <5>2 DEF Overlaid
      <4> QED BY <4>2, <4>3
    <3>2. UNCHANGED <<lock, backend, reply, abandoned>>
      BY <1>3 DEF ServerAppliesLate
    <3> QED BY <2>2, <3>1, <3>2 DEF RequestInv
  <2>8. WrittenInv'
    BY <1>3, <2>2, <2>5 DEF ServerAppliesLate, WrittenInv
  <2> QED BY <2>6, <2>7, <2>8
<1> QED BY <1>2, <1>3

-----------------------------------------------------------------------------
(* The aggregator *)

LEMMA EpochsAndPrices ==
  /\ \A t \in Ticks : t.epoch \in Nat /\ t.quote \in Nat \ {0} /\ t.quote \in Prices
  /\ \A t \in Ticks : t.symbol \in Symbols /\ t.quality \in Qualities
  BY KeysAssumption DEF Ticks

LEMMA NoCandleIsNoCandle == \A c \in Candles : c # NoCandle
  BY DEF Candles, NoCandle

LEMMA NoTickIsNoTick == NoTick \notin Ticks
  BY DEF NoTick, Ticks, Qualities

LEMMA BucketIsInt == \A e \in Nat : Bucket(e) \in Int
  <1> SUFFICES ASSUME NEW e \in Nat PROVE Bucket(e) \in Int
    OBVIOUS
  <1>1. Granularity \in Nat \ {0}
    BY FeedAssumption
  <1>2. PICK q \in Int : q = e \div Granularity
    BY <1>1
  <1>3. q * Granularity \in Int
    BY <1>1
  <1> QED BY <1>2, <1>3 DEF Bucket

\* Windows are in the order of their ticks.
LEMMA BucketMonotone ==
  ASSUME NEW e \in Nat, NEW f \in Nat, e < f, Bucket(e) # Bucket(f)
  PROVE  Bucket(e) < Bucket(f)
<1>1. Granularity \in Nat \ {0}
  BY FeedAssumption
<1>2. PICK q \in Int : /\ q = e \div Granularity
                        /\ q * Granularity <= e /\ e < q * Granularity + Granularity
  BY <1>1
<1>3. PICK r \in Int : /\ r = f \div Granularity
                        /\ r * Granularity <= f /\ f < r * Granularity + Granularity
  BY <1>1
<1>4. Bucket(e) = q * Granularity /\ Bucket(f) = r * Granularity
  BY <1>2, <1>3 DEF Bucket
<1>5. CASE r < q
  <2>1. (r + 1) * Granularity <= q * Granularity
    BY <1>1, <1>5
  <2>2. (r + 1) * Granularity = r * Granularity + Granularity
    BY <1>1
  <2>3. q * Granularity \in Int /\ r * Granularity \in Int
    BY <1>1
  <2> QED BY <1>1, <1>2, <1>3, <2>1, <2>2, <2>3
<1>6. CASE q < r
  <2>1. (q + 1) * Granularity <= r * Granularity
    BY <1>1, <1>6
  <2>2. (q + 1) * Granularity = q * Granularity + Granularity
    BY <1>1
  <2>3. q * Granularity \in Int /\ r * Granularity \in Int
    BY <1>1
  <2> QED BY <1>1, <1>4, <2>1, <2>2, <2>3
<1>7. q # r
  BY <1>4
<1> QED BY <1>5, <1>6, <1>7

LEMMA MaxOfTwo ==
  ASSUME NEW a \in Int, NEW b \in Int
  PROVE  Max({a, b}) \in {a, b} /\ Max({a, b}) >= a /\ Max({a, b}) >= b
<1>1. \E x \in {a, b} : \A y \in {a, b} : x >= y
  BY SMT
<1>2. Max({a, b}) \in {a, b} /\ \A y \in {a, b} : Max({a, b}) >= y
  BY <1>1 DEF Max
<1> QED BY <1>2

LEMMA MinOfTwo ==
  ASSUME NEW a \in Int, NEW b \in Int
  PROVE  Min({a, b}) \in {a, b} /\ Min({a, b}) <= a /\ Min({a, b}) <= b
<1>1. \E x \in {a, b} : \A y \in {a, b} : x <= y
  BY SMT
<1>2. Min({a, b}) \in {a, b} /\ \A y \in {a, b} : Min({a, b}) <= y
  BY <1>1 DEF Min
<1> QED BY <1>2

\* What CandleMatchesTicks says of one symbol.
CandleOf(c, ticks) ==
  LET quotes == {ticks[i].quote : i \in DOMAIN ticks} IN
    /\ ticks # <<>>
    /\ \A i \in DOMAIN ticks : Bucket(ticks[i].epoch) = c.epoch
    /\ \A i, j \in DOMAIN ticks : i < j => ticks[i].epoch < ticks[j].epoch
    /\ c.open = ticks[1].quote
    /\ c.close = ticks[Len(ticks)].quote
    /\ c.high \in quotes /\ \A p \in quotes : p <= c.high
    /\ c.low \in quotes /\ \A p \in quotes : p >= c.low
    /\ c.suspect <=> \E i \in 2..Len(ticks) : ticks[i].quality = "price_jump_suspect"
    /\ c.count = Len(ticks)

Matches(c, ticks) == \/ c = NoCandle /\ ticks = <<>>
                     \/ CandleOf(c, ticks)

LEMMA CandlesMatch ==
  /\ CandleMatchesTicks <=> \A s \in Symbols : Matches(candle[s], parts[s])
  /\ CandleMatchesTicks' <=> \A s \in Symbols : Matches(candle'[s], parts'[s])
  BY DEF CandleMatchesTicks, CandleOf, Matches

LEMMA OpenedMatches ==
  ASSUME NEW t \in Ticks
  PROVE  Opened(t) \in Candles /\ CandleOf(Opened(t), <<t>>)
<1>1. t.epoch \in Nat /\ t.quote \in Prices /\ t.quote \in Nat
  BY EpochsAndPrices
<1>2. Opened(t) \in Candles
  BY <1>1, BucketIsInt DEF Opened, Candles
<1>3. DOMAIN <<t>> = {1} /\ Len(<<t>>) = 1 /\ <<t>>[1] = t
  OBVIOUS
<1>4. {<<t>>[i].quote : i \in {1}} = {t.quote}
  BY <1>3
<1>5. 2..1 = {}
  OBVIOUS
<1>6. CandleOf(Opened(t), <<t>>)
  BY <1>1, <1>3, <1>4, <1>5 DEF CandleOf, Opened
<1> QED BY <1>2, <1>6

LEMMA CandleFields ==
  ASSUME NEW c \in Candles
  PROVE  /\ c.high \in Prices /\ c.low \in Prices /\ c.high \in Int /\ c.low \in Int
         /\ c.open \in Prices /\ c.epoch \in Int /\ c.suspect \in BOOLEAN
         /\ c.count \in Nat \ {0}
<1>1. /\ c.high \in Prices /\ c.low \in Prices /\ c.open \in Prices /\ c.epoch \in Int
      /\ c.suspect \in BOOLEAN /\ c.count \in Nat \ {0}
  BY DEF Candles
<1>2. \A p \in Prices : p \in Int
  BY KeysAssumption
<1> QED BY <1>1, <1>2

LEMMA UpdatedFields ==
  ASSUME NEW c \in Candles, NEW t \in Ticks
  PROVE  /\ Updated(c, t) \in Candles
         /\ Updated(c, t).epoch = c.epoch /\ Updated(c, t).open = c.open
         /\ Updated(c, t).close = t.quote /\ Updated(c, t).count = c.count + 1
         /\ Updated(c, t).suspect = (c.suspect \/ t.quality = "price_jump_suspect")
         /\ LET high == Updated(c, t).high
                low == Updated(c, t).low
            IN  /\ high \in {c.high, t.quote} /\ high >= c.high /\ high >= t.quote
                /\ low \in {c.low, t.quote} /\ low <= c.low /\ low <= t.quote
<1>1. PICK high : high = Max({c.high, t.quote})
  OBVIOUS
<1>2. PICK low : low = Min({c.low, t.quote})
  OBVIOUS
<1>3. t.quote \in Prices /\ t.quote \in Int
  BY EpochsAndPrices
<1>4. /\ high \in {c.high, t.quote} /\ high >= c.high /\ high >= t.quote
      /\ low \in {c.low, t.quote} /\ low <= c.low /\ low <= t.quote
  BY <1>1, <1>2, <1>3, CandleFields, MaxOfTwo, MinOfTwo
<1>5. Updated(c, t) = [c EXCEPT !.high = high, !.low = low, !.close = t.quote,
                        !.suspect = @ \/ t.quality = "price_jump_suspect", !.count = @ + 1]
  BY <1>1, <1>2 DEF Updated
<1>6. high \in Prices /\ low \in Prices /\ c.count + 1 \in Nat \ {0}
  BY <1>3, <1>4, CandleFields
<1>7. Updated(c, t) \in Candles
  BY <1>3, <1>5, <1>6 DEF Candles
<1> QED BY <1>4, <1>5, <1>7 DEF Candles

LEMMA UpdatedMatches ==
  ASSUME NEW c \in Candles, NEW ticks \in Seq(Ticks), NEW t \in Ticks, CandleOf(c, ticks),
         Bucket(t.epoch) = c.epoch, \A i \in DOMAIN ticks : ticks[i].epoch < t.epoch
  PROVE  /\ Updated(c, t) \in Candles
         /\ Updated(c, t).epoch = c.epoch
         /\ Updated(c, t).count = c.count + 1
         /\ CandleOf(Updated(c, t), Append(ticks, t))
<1> DEFINE longer == Append(ticks, t)
           n == Len(ticks)
           d == Updated(c, t)
           quotes == {ticks[i].quote : i \in DOMAIN ticks}
           quotes2 == {longer[i].quote : i \in DOMAIN longer}
<1>1. t.epoch \in Nat /\ t.quote \in Prices /\ t.quote \in Nat \ {0}
  BY EpochsAndPrices
<1>2. /\ n \in Nat \ {0} /\ DOMAIN ticks = 1..n
      /\ longer \in Seq(Ticks) /\ Len(longer) = n + 1
      /\ \A i \in 1..n : longer[i] = ticks[i]
      /\ longer[n + 1] = t
  BY AppendProperties, LenProperties, EmptySeq DEF CandleOf
<1>3. DOMAIN longer = 1..(n + 1)
  BY <1>2, LenProperties
<1>4. quotes2 = quotes \cup {t.quote}
  BY <1>2, <1>3
<1> HIDE DEF longer, n, d, quotes, quotes2
<1>5. c.suspect \in BOOLEAN /\ c.count \in Nat \ {0} /\ c.high \in Int /\ c.low \in Int
  BY CandleFields
<1>6. /\ d \in Candles /\ d.epoch = c.epoch /\ d.open = c.open /\ d.close = t.quote
      /\ d.suspect = (c.suspect \/ t.quality = "price_jump_suspect")
      /\ d.count = c.count + 1
      /\ d.high \in {c.high, t.quote} /\ d.high >= c.high /\ d.high >= t.quote
      /\ d.low \in {c.low, t.quote} /\ d.low <= c.low /\ d.low <= t.quote
  BY UpdatedFields DEF d
<1>7. CandleOf(d, longer)
  <2>1. longer # <<>>
    BY <1>2, EmptySeq
  <2>2. ASSUME NEW i \in DOMAIN longer
        PROVE  Bucket(longer[i].epoch) = d.epoch
    BY <1>2, <1>3, <1>6 DEF CandleOf
  <2>3. ASSUME NEW i \in DOMAIN longer, NEW j \in DOMAIN longer, i < j
        PROVE  longer[i].epoch < longer[j].epoch
    BY <1>2, <1>3, <2>3 DEF CandleOf
  <2>4. d.open = longer[1].quote /\ d.close = longer[Len(longer)].quote
    BY <1>2, <1>6 DEF CandleOf
  <2>5. c.high \in quotes /\ c.low \in quotes /\ \A p \in quotes : p <= c.high /\ p >= c.low
    BY DEF CandleOf, quotes
  <2>6. \A p \in quotes : p \in Int
    BY <1>2, EpochsAndPrices, ElementOfSeq DEF quotes, n
  <2>7. /\ d.high \in quotes2 /\ \A p \in quotes2 : p <= d.high
        /\ d.low \in quotes2 /\ \A p \in quotes2 : p >= d.low
    BY <1>1, <1>4, <1>5, <1>6, <2>5, <2>6
  <2>8. d.suspect <=> \E i \in 2..Len(longer) : longer[i].quality = "price_jump_suspect"
    <3>1. c.suspect <=> \E i \in 2..n : ticks[i].quality = "price_jump_suspect"
      BY DEF CandleOf, n
    <3>2. 2..(n + 1) = (2..n) \cup {n + 1}
      BY <1>2
    <3>3. \A i \in 2..n : longer[i] = ticks[i]
      BY <1>2
    <3> QED BY <1>2, <1>5, <1>6, <3>1, <3>2, <3>3
  <2>9. d.count = Len(longer)
    BY <1>2, <1>6 DEF CandleOf, n
  <2> QED BY <2>1, <2>2, <2>3, <2>4, <2>7, <2>8, <2>9 DEF CandleOf, quotes2
<1> QED BY <1>6, <1>7 DEF longer, d

\* A tick that the aggregator takes is counted in one candle; its window is
\* the open one or a later one, because its epoch is later than all in it.
LEMMA AggregateKeeps ==
  ASSUME HistoryTypeOK, CandleMatchesTicks, NEW t \in Ticks, Aggregate(t),
         WellOrdered(t) => \A i \in DOMAIN parts[t.symbol] : parts[t.symbol][i].epoch < t.epoch
  PROVE  /\ candle' \in [Symbols -> Candles \cup {NoCandle}]
         /\ parts' \in [Symbols -> Seq(Ticks)]
         /\ emitted' \in [Symbols -> Nat]
         /\ CandleMatchesTicks'
         /\ \A s \in Symbols : \A i \in DOMAIN parts'[s] :
              parts'[s][i] \in {parts[s][j] : j \in DOMAIN parts[s]} \cup {t}
         /\ \A s \in Symbols : s # t.symbol \/ ~WellOrdered(t) => parts'[s] = parts[s]
         /\ \A s \in Symbols : emitted'[s] + candle'[s].count = emitted[s] + candle[s].count
                + IF t.symbol = s /\ WellOrdered(t) THEN 1 ELSE 0
         /\ \A s \in Symbols : candle[s] # NoCandle /\ candle'[s] # candle[s]
              => \/ candle'[s].epoch > candle[s].epoch /\ emitted'[s] > emitted[s]
                 \/ candle'[s].epoch = candle[s].epoch /\ emitted'[s] = emitted[s]
<1> DEFINE u == t.symbol
           New(c, ticks, n) ==
             /\ candle' = [candle EXCEPT ![u] = c]
             /\ parts' = [parts EXCEPT ![u] = ticks]
             /\ emitted' = [emitted EXCEPT ![u] = n]
<1>1. u \in Symbols /\ t.epoch \in Nat
  BY EpochsAndPrices
<1>2. \A s \in Symbols : Matches(candle[s], parts[s])
  BY CandlesMatch
<1>3. CandleMatchesTicks' <=> \A s \in Symbols : Matches(candle'[s], parts'[s])
  BY CandlesMatch
<1>4. /\ candle \in [Symbols -> Candles \cup {NoCandle}]
      /\ parts \in [Symbols -> Seq(Ticks)]
      /\ emitted \in [Symbols -> Nat]
  BY DEF HistoryTypeOK
<1>5. Ignored(t) <=> ~WellOrdered(t)
  BY DEF Ignored, WellOrdered
<1>6. \A c \in Candles \cup {NoCandle} : c.count \in Nat
  BY DEF Candles, NoCandle
<1>7. NoCandle.count = 0 /\ Opened(t).count = 1 /\ Opened(t).epoch = Bucket(t.epoch)
  BY DEF NoCandle, Opened
<1>8. /\ <<t>> \in Seq(Ticks) /\ DOMAIN <<t>> = {1} /\ <<t>>[1] = t
  OBVIOUS
<1> HIDE DEF u
\* What one symbol's step must satisfy for the lemma to hold.
<1>9. ASSUME NEW c \in Candles, NEW ticks \in Seq(Ticks), NEW n \in Nat, New(c, ticks, n),
             ~Ignored(t), CandleOf(c, ticks),
             \A i \in DOMAIN ticks : ticks[i] \in {parts[u][j] : j \in DOMAIN parts[u]} \cup {t},
             n + c.count = emitted[u] + candle[u].count + 1,
             candle[u] # NoCandle => \/ c.epoch > candle[u].epoch /\ n > emitted[u]
                                     \/ c.epoch = candle[u].epoch /\ n = emitted[u]
      PROVE  /\ candle' \in [Symbols -> Candles \cup {NoCandle}]
             /\ parts' \in [Symbols -> Seq(Ticks)]
             /\ emitted' \in [Symbols -> Nat]
             /\ \A s \in Symbols : Matches(candle'[s], parts'[s])
             /\ \A s \in Symbols : \A i \in DOMAIN parts'[s] :
                  parts'[s][i] \in {parts[s][j] : j \in DOMAIN parts[s]} \cup {t}
             /\ \A s \in Symbols : s # u => parts'[s] = parts[s]
             /\ \A s \in Symbols : emitted'[s] + candle'[s].count = emitted[s] + candle[s].count
                    + IF u = s THEN 1 ELSE 0
             /\ \A s \in Symbols : candle[s] # NoCandle /\ candle'[s] # candle[s]
                  => \/ candle'[s].epoch > candle[s].epoch /\ emitted'[s] > emitted[s]
                     \/ candle'[s].epoch = candle[s].epoch /\ emitted'[s] = emitted[s]
  <2>1. /\ candle' \in [Symbols -> Candles \cup {NoCandle}]
        /\ parts' \in [Symbols -> Seq(Ticks)]
        /\ emitted' \in [Symbols -> Nat]
    BY <1>1, <1>4, <1>9
  <2>2. candle'[u] = c /\ parts'[u] = ticks /\ emitted'[u] = n
    BY <1>1, <1>4, <1>9
  <2>3. \A s \in Symbols : s # u => /\ candle'[s] = candle[s] /\ parts'[s] = parts[s]
                                    /\ emitted'[s] = emitted[s]
    BY <1>4, <1>9
  <2>4. \A s \in Symbols : Matches(candle'[s], parts'[s])
    BY <1>2, <1>9, <2>2, <2>3 DEF Matches
  <2>5. \A s \in Symbols : \A i \in DOMAIN parts'[s] :
          parts'[s][i] \in {parts[s][j] : j \in DOMAIN parts[s]} \cup {t}
    BY <1>9, <2>2, <2>3
  <2>6. \A s \in Symbols : emitted'[s] + candle'[s].count = emitted[s] + candle[s].count
          + IF u = s THEN 1 ELSE 0
    BY <1>4, <1>6, <1>9, <2>2, <2>3
  <2>7. \A s \in Symbols : candle[s] # NoCandle /\ candle'[s] # candle[s]
          => \/ candle'[s].epoch > candle[s].epoch /\ emitted'[s] > emitted[s]
             \/ candle'[s].epoch = candle[s].epoch /\ emitted'[s] = emitted[s]
    BY <1>9, <2>2, <2>3
  <2> QED BY <2>1, <2>3, <2>4, <2>5, <2>6, <2>7
<1>10. CASE Ignored(t) /\ UNCHANGED candleVars
  <2>1. candle' = candle /\ parts' = parts /\ emitted' = emitted
    BY <1>10 DEF candleVars
  <2>2. \A s \in Symbols : emitted[s] \in Nat /\ candle[s].count \in Nat
    BY <1>4, <1>6
  <2>3. CandleMatchesTicks'
    BY <1>2, <1>3, <2>1
  <2> QED BY <1>4, <1>5, <1>10, <2>1, <2>2, <2>3
<1>11. CASE /\ ~Ignored(t)
            /\ candle[u] = NoCandle
            /\ New(Opened(t), <<t>>, emitted[u])
  <2> HIDE DEF New
  <2>1. Opened(t) \in Candles /\ CandleOf(Opened(t), <<t>>)
    BY OpenedMatches
  <2>2. emitted[u] \in Nat /\ emitted[u] + 1 = emitted[u] + 0 + 1
    BY <1>1, <1>4
  <2> QED BY <1>3, <1>5, <1>7, <1>8, <1>9, <1>11, <2>1, <2>2 DEF u
<1>12. CASE /\ ~Ignored(t)
            /\ candle[u] # NoCandle /\ Bucket(t.epoch) = candle[u].epoch
            /\ New(Updated(candle[u], t), Append(parts[u], t), emitted[u])
  <2> DEFINE c == Updated(candle[u], t)
             ticks == Append(parts[u], t)
  <2>1. /\ candle[u] \in Candles /\ parts[u] \in Seq(Ticks) /\ CandleOf(candle[u], parts[u])
        /\ emitted[u] \in Nat /\ candle[u].count \in Nat
    BY <1>1, <1>2, <1>4, <1>6, <1>12 DEF Matches
  <2>2. /\ c \in Candles /\ c.epoch = candle[u].epoch /\ c.count = candle[u].count + 1
        /\ CandleOf(c, ticks)
    BY <1>5, <1>12, <2>1, UpdatedMatches DEF u
  <2>3. /\ ticks \in Seq(Ticks) /\ Len(parts[u]) \in Nat
        /\ DOMAIN parts[u] = 1..Len(parts[u]) /\ Len(ticks) = Len(parts[u]) + 1
        /\ \A i \in 1..Len(parts[u]) : ticks[i] = parts[u][i]
        /\ ticks[Len(parts[u]) + 1] = t
    BY <2>1, AppendProperties, LenProperties
  <2>4. DOMAIN ticks = 1..(Len(parts[u]) + 1)
    BY <2>3, LenProperties
  <2>5. New(c, ticks, emitted[u])
    BY <1>12
  <2> HIDE DEF New, c, ticks
  <2>6. \A i \in DOMAIN ticks : ticks[i] \in {parts[u][j] : j \in DOMAIN parts[u]} \cup {t}
    BY <2>3, <2>4
  <2>7. emitted[u] + c.count = emitted[u] + candle[u].count + 1
    BY <2>1, <2>2
  <2> QED BY <1>3, <1>5, <1>9, <1>12, <2>1, <2>2, <2>3, <2>5, <2>6, <2>7 DEF u
<1>13. CASE /\ ~Ignored(t)
            /\ candle[u] # NoCandle /\ Bucket(t.epoch) # candle[u].epoch
            /\ New(Opened(t), <<t>>, emitted[u] + candle[u].count)
  <2>1. /\ candle[u] \in Candles /\ parts[u] \in Seq(Ticks) /\ CandleOf(candle[u], parts[u])
        /\ emitted[u] \in Nat /\ candle[u].count \in Nat \ {0}
    BY <1>1, <1>2, <1>4, <1>13, CandleFields DEF Matches
  <2>2. Opened(t) \in Candles /\ CandleOf(Opened(t), <<t>>)
    BY OpenedMatches
  <2>3. Len(parts[u]) \in Nat \ {0} /\ DOMAIN parts[u] = 1..Len(parts[u])
    BY <2>1, LenProperties, EmptySeq DEF CandleOf
  <2>4. PICK e \in Nat : e < t.epoch /\ Bucket(e) = candle[u].epoch
    <3>1. 1 \in DOMAIN parts[u] /\ parts[u][1] \in Ticks
      BY <2>1, <2>3, ElementOfSeq
    <3>2. parts[u][1].epoch < t.epoch
      BY <1>5, <1>13, <3>1 DEF u
    <3> QED BY <2>1, <3>1, <3>2, EpochsAndPrices DEF CandleOf
  <2>5. Bucket(t.epoch) > candle[u].epoch
    BY <1>1, <1>13, <2>4, BucketMonotone, BucketIsInt
  <2>6. /\ emitted[u] + candle[u].count \in Nat
        /\ emitted[u] + candle[u].count > emitted[u]
        /\ emitted[u] + candle[u].count + 1 = emitted[u] + candle[u].count + 1
    BY <2>1
  <2> HIDE DEF New
  <2> QED BY <1>3, <1>5, <1>7, <1>8, <1>9, <1>13, <2>2, <2>5, <2>6 DEF u
<1>14. emitted = [emitted EXCEPT ![u] = emitted[u]]
  BY <1>1, <1>4
<1> QED BY <1>10, <1>11, <1>12, <1>13, <1>14 DEF Aggregate, u

-----------------------------------------------------------------------------
(* The actions *)

\* What TypeOK adds to the store's types.
ControlTypeOK ==
  /\ task \in {"reading", "writing", "posting", "closing", "flushing"} \cup Ended
  /\ task = "posting" <=> lock = "handler"
  /\ lock = "closer" => task = "flushing"
  /\ tick \in Ticks \cup {NoTick}
  /\ task \in {"writing", "posting"} <=> tick # NoTick
  /\ validator \in [Symbols -> [epoch : Epochs \cup {NoEpoch}, returns : 0..MinReturns]]
  /\ features \in [Symbols -> 0..MinHistory]
  /\ bootstrapped \subseteq Symbols

FeedParts == /\ StoreInv /\ ControlTypeOK /\ HistoryTypeOK /\ BufferInv
             /\ OrderInv /\ CountInv /\ CandleMatchesTicks

LEMMA FeedInvParts == (FeedInv <=> FeedParts) /\ (FeedInv' <=> FeedParts')
  BY DEF FeedInv, FeedParts, StoreInv, TypeOK, ControlTypeOK

\* What WindowsAdvance says of a step.
WindowsStep ==
  \A s \in Symbols :
    candle[s] # NoCandle /\ candle'[s] # candle[s]
      => \/ candle'[s].epoch > candle[s].epoch /\ emitted'[s] > emitted[s]
         \/ candle'[s].epoch = candle[s].epoch /\ emitted'[s] = emitted[s]

LEMMA NumbersOfEpochs ==
  /\ \A e \in Epochs \cup {NoEpoch} : e \in Int /\ e >= -1
  /\ \A e \in Epochs : e \in Nat
  /\ MinReturns \in Nat /\ MaxGap \in Nat /\ MinHistory \in Nat \ {0}
<1>1. \A e \in Epochs : e \in Nat
  BY KeysAssumption
<1>2. NoEpoch \in Int /\ NoEpoch >= -1
  BY DEF NoEpoch
<1>3. MinReturns \in Nat /\ MaxGap \in Nat /\ MinHistory \in Nat \ {0}
  BY FeedAssumption
<1> QED BY <1>1, <1>2, <1>3

\* A step that leaves the candles alone.
LEMMA CandlesUnchanged ==
  ASSUME HistoryTypeOK, CandleMatchesTicks, UNCHANGED <<candle, parts, emitted>>,
         accepted' \in [Symbols -> Nat]
  PROVE  HistoryTypeOK' /\ CandleMatchesTicks' /\ WindowsStep
<1>1. HistoryTypeOK'
  BY DEF HistoryTypeOK
<1>2. candle' = candle /\ parts' = parts
  OBVIOUS
<1>3. CandleMatchesTicks'
  BY <1>2, CandlesMatch
<1>4. WindowsStep
  BY <1>2 DEF WindowsStep
<1> QED BY <1>1, <1>3, <1>4

LEMMA ReadTickKeeps ==
  ASSUME FeedInv, ReadTick
  PROVE  FeedInv' /\ WindowsStep
<1>0. PICK s \in Symbols, e \in Epochs, p \in Prices : \E q \in QualitiesAt(s, e) :
        LET t == [symbol |-> s, epoch |-> e, quote |-> p, quality |-> q] IN
          /\ tick' = t
          /\ validator' = [validator EXCEPT ![s] = Validated(s, t)]
  BY DEF ReadTick
<1>1. PICK q \in QualitiesAt(s, e) :
        LET t == [symbol |-> s, epoch |-> e, quote |-> p, quality |-> q] IN
          /\ tick' = t
          /\ validator' = [validator EXCEPT ![s] = Validated(s, t)]
  BY <1>0
<1> DEFINE t == [symbol |-> s, epoch |-> e, quote |-> p, quality |-> q]
           last == validator[s].epoch
<1>2. /\ StoreInv /\ ControlTypeOK /\ HistoryTypeOK /\ BufferInv
      /\ OrderInv /\ CountInv /\ CandleMatchesTicks
  BY FeedInvParts DEF FeedParts
<1>3. /\ task = "reading" /\ task' = "writing"
      /\ UNCHANGED <<storeVars, bootstrapped, accepted, candleVars>>
  BY DEF ReadTick
<1>4. /\ last \in Epochs \cup {NoEpoch} /\ last \in Int /\ last >= -1
      /\ validator[s].returns \in 0..MinReturns
      /\ e \in Nat /\ MinReturns \in Nat /\ MaxGap \in Nat
  <2>1. validator[s] \in [epoch : Epochs \cup {NoEpoch}, returns : 0..MinReturns]
    BY <1>2 DEF ControlTypeOK
  <2>2. last \in Epochs \cup {NoEpoch} /\ validator[s].returns \in 0..MinReturns
    BY <2>1
  <2> QED BY <2>2, NumbersOfEpochs
<1>5. q \in Qualities /\ (q \notin {"duplicate", "out_of_order"} => e > last)
  BY <1>4 DEF QualitiesAt, Qualities, NoEpoch
<1>6. tick' = t /\ t \in Ticks /\ t.symbol = s /\ t.epoch = e
      /\ (WellOrdered(t) <=> q \notin {"duplicate", "out_of_order"})
  BY <1>1, <1>5 DEF Ticks, WellOrdered
<1>7. Validated(s, t) \in [epoch : Epochs \cup {NoEpoch}, returns : 0..MinReturns]
  BY <1>4, <1>6 DEF Validated
<1>8. Validated(s, t).epoch = IF WellOrdered(t) THEN e ELSE last
  BY <1>6 DEF Validated
<1>9. /\ validator' \in [Symbols -> [epoch : Epochs \cup {NoEpoch}, returns : 0..MinReturns]]
      /\ \A r \in Symbols : validator'[r].epoch
           = IF r = s THEN (IF WellOrdered(t) THEN e ELSE last) ELSE validator[r].epoch
  BY <1>1, <1>2, <1>7, <1>8 DEF ControlTypeOK
<1> HIDE DEF t, last
<1>10. StoreInv'
  BY <1>2, <1>3 DEF StoreInv, StoreTypeOK, RequestInv, WrittenInv, Overlaid, storeVars, requestVars
<1>11. ControlTypeOK'
  BY <1>2, <1>3, <1>6, <1>9, NoTickIsNoTick DEF ControlTypeOK, storeVars, candleVars
<1>12. HistoryTypeOK' /\ CandleMatchesTicks' /\ WindowsStep
  <2>1. UNCHANGED <<candle, parts, emitted>> /\ accepted' \in [Symbols -> Nat]
    BY <1>2, <1>3 DEF HistoryTypeOK, candleVars
  <2> QED BY <1>2, <2>1, CandlesUnchanged
<1>13. BufferInv'
  BY <1>2, <1>3 DEF BufferInv, storeVars
<1>14. ASSUME NEW r \in Symbols, NEW i \in DOMAIN parts[r]
       PROVE  /\ parts[r][i].epoch <= validator'[r].epoch
              /\ r = s /\ WellOrdered(t) => parts[r][i].epoch < e
  <2>1. parts[r] \in Seq(Ticks) /\ i \in 1..Len(parts[r])
    BY <1>2, LenProperties DEF HistoryTypeOK
  <2>2. parts[r][i].epoch \in Nat
    BY <2>1, ElementOfSeq, EpochsAndPrices
  <2>3. parts[r][i].epoch <= validator[r].epoch
    BY <1>2 DEF OrderInv
  <2> QED BY <1>4, <1>5, <1>6, <1>9, <2>2, <2>3 DEF last
<1>15. OrderInv'
  BY <1>3, <1>6, <1>9, <1>14 DEF OrderInv, candleVars
<1>16. CountInv'
  BY <1>2, <1>3 DEF CountInv, Awaited, storeVars, candleVars
<1> QED BY <1>10, <1>11, <1>12, <1>13, <1>15, <1>16, FeedInvParts DEF FeedParts

\* The tick has been written: it is aggregated and no longer under way.
LEMMA TickWrittenKeeps ==
  ASSUME FeedParts, tick # NoTick, TickWritten, UNCHANGED <<validator, bootstrapped>>,
         accepted' \in [Symbols -> Nat],
         "handler" \notin failures /\ "handler" \notin failures' =>
           \A s \in Symbols : accepted'[s] = emitted[s] + candle[s].count
             + IF tick.symbol = s /\ WellOrdered(tick) THEN 1 ELSE 0,
         failures \subseteq failures', lock' = "free"
  PROVE  /\ ControlTypeOK' /\ HistoryTypeOK' /\ OrderInv' /\ CountInv' /\ CandleMatchesTicks'
         /\ WindowsStep
<1>1. tick \in Ticks /\ Aggregate(tick) /\ task' = "reading" /\ tick' = NoTick
  BY DEF FeedParts, ControlTypeOK, TickWritten
<1>2. /\ WellOrdered(tick) => /\ tick.epoch = validator[tick.symbol].epoch
                             /\ \A i \in DOMAIN parts[tick.symbol] :
                                  parts[tick.symbol][i].epoch < tick.epoch
      /\ \A s \in Symbols : \A i \in DOMAIN parts[s] : parts[s][i].epoch <= validator[s].epoch
  BY DEF FeedParts, OrderInv
<1>3. /\ candle' \in [Symbols -> Candles \cup {NoCandle}]
      /\ parts' \in [Symbols -> Seq(Ticks)]
      /\ emitted' \in [Symbols -> Nat]
      /\ CandleMatchesTicks'
      /\ \A s \in Symbols : \A i \in DOMAIN parts'[s] :
           parts'[s][i] \in {parts[s][j] : j \in DOMAIN parts[s]} \cup {tick}
      /\ \A s \in Symbols : s # tick.symbol \/ ~WellOrdered(tick) => parts'[s] = parts[s]
      /\ \A s \in Symbols : emitted'[s] + candle'[s].count = emitted[s] + candle[s].count
             + IF tick.symbol = s /\ WellOrdered(tick) THEN 1 ELSE 0
      /\ WindowsStep
  BY <1>1, <1>2, AggregateKeeps DEF FeedParts, WindowsStep
<1>4. features' \in [Symbols -> 0..MinHistory]
  <2>1. features \in [Symbols -> 0..MinHistory] /\ MinHistory \in Nat \ {0}
        /\ tick.symbol \in Symbols
    BY <1>1, NumbersOfEpochs, EpochsAndPrices DEF FeedParts, ControlTypeOK
  <2>2. CASE UNCHANGED features
    BY <2>1, <2>2
  <2>3. CASE OnCandle(tick.symbol)
    BY <2>1, <2>3 DEF OnCandle, FeaturesReady
  <2>4. UNCHANGED features \/ OnCandle(tick.symbol)
    BY <1>1 DEF Aggregate, candleVars
  <2> QED BY <2>2, <2>3, <2>4
<1>5. ControlTypeOK'
  BY <1>1, <1>4 DEF FeedParts, ControlTypeOK
<1>6. HistoryTypeOK'
  BY <1>3 DEF HistoryTypeOK
<1>7. OrderInv'
  <2>1. ASSUME NEW s \in Symbols, NEW i \in DOMAIN parts'[s]
        PROVE  parts'[s][i].epoch <= validator'[s].epoch
    <3>1. CASE s # tick.symbol \/ ~WellOrdered(tick)
      BY <1>2, <1>3, <2>1, <3>1
    <3>2. CASE s = tick.symbol /\ WellOrdered(tick)
      <4>1. tick.epoch = validator[s].epoch /\ tick.epoch \in Nat
        BY <1>1, <1>2, <3>2, EpochsAndPrices
      <4>2. validator' = validator
        OBVIOUS
      <4>3. parts'[s][i] = tick \/ \E j \in DOMAIN parts[s] : parts'[s][i] = parts[s][j]
        BY <1>3
      <4>4. CASE parts'[s][i] = tick
        BY <4>1, <4>2, <4>4
      <4>5. CASE \E j \in DOMAIN parts[s] : parts'[s][i] = parts[s][j]
        BY <1>2, <4>2, <4>5
      <4> QED BY <4>3, <4>4, <4>5
    <3> QED BY <3>1, <3>2
  <2> QED BY <1>1, <2>1 DEF OrderInv
<1>8. CountInv'
  <2> SUFFICES ASSUME "handler" \notin failures', NEW s \in Symbols
               PROVE  accepted'[s] = emitted'[s] + candle'[s].count + Awaited(s)'
    BY DEF CountInv
  <2>1. accepted'[s] = emitted'[s] + candle'[s].count
    BY <1>3
  <2>2. Awaited(s)' = 0
    BY <1>1 DEF Awaited
  <2>3. accepted'[s] \in Nat
    OBVIOUS
  <2> QED BY <2>1, <2>2, <2>3
<1> QED BY <1>3, <1>5, <1>6, <1>7, <1>8

\* The tick is dropped: on_tick raises, or its task is cancelled.
LEMMA TickDropped ==
  ASSUME FeedParts, tick' = NoTick, UNCHANGED <<validator, bootstrapped, candleVars>>,
         \/ task' = "closing"
         \/ task' = "reading" /\ "handler" \in failures',
         accepted' \in [Symbols -> Nat], lock' # "handler", lock' # "closer"
  PROVE  /\ ControlTypeOK' /\ HistoryTypeOK' /\ OrderInv' /\ CountInv' /\ CandleMatchesTicks'
         /\ WindowsStep
<1>1. HistoryTypeOK' /\ CandleMatchesTicks' /\ WindowsStep
  BY CandlesUnchanged DEF FeedParts, candleVars
<1>2. ControlTypeOK'
  BY DEF FeedParts, ControlTypeOK, candleVars
<1>3. OrderInv'
  BY DEF FeedParts, OrderInv, candleVars
<1>4. CountInv'
  BY DEF CountInv
<1> QED BY <1>1, <1>2, <1>3, <1>4

LEMMA WriteTickKeeps ==
  ASSUME FeedInv, WriteTick
  PROVE  FeedInv' /\ WindowsStep
<1> DEFINE b == Append(buffer, tick)
<1>1. FeedParts
  BY FeedInvParts
<1>2. /\ task = "writing" /\ lock = "free" /\ tick \in Ticks /\ tick # NoTick
      /\ tick.symbol \in Symbols /\ KeyOf(tick) \in Keys
      /\ UNCHANGED <<flusher, validator, bootstrapped>>
  BY <1>1, EpochsAndPrices, KeyIsAKey DEF WriteTick, FeedParts, ControlTypeOK
<1>3. /\ buffer \in Seq(Ticks) /\ b \in Seq(Ticks) /\ Len(b) \in Nat
      /\ failures \subseteq Actors /\ flusher \in {"alive", "dead"} /\ written \in Rows
  <2>1. buffer \in Seq(Ticks)
    BY <1>1 DEF FeedParts, StoreInv, StoreTypeOK
  <2>2. b \in Seq(Ticks) /\ Len(b) \in Nat
    BY <1>2, <2>1, AppendProperties, LenProperties
  <2> QED BY <1>1, <2>1, <2>2 DEF FeedParts, StoreInv, StoreTypeOK, Rows
<1>4. /\ written' = [written EXCEPT ![KeyOf(tick)] = tick]
      /\ accepted' = [accepted EXCEPT ![tick.symbol] = @ + IF WellOrdered(tick) THEN 1 ELSE 0]
      /\ \/ /\ ~BatchFull(b)
            /\ buffer' = b
            /\ UNCHANGED <<backend, lock, requestVars, rows, failures>>
            /\ TickWritten
         \/ BatchFull(b) /\ FlushesAtOnce(b) /\ TickWritten
         \/ BatchFull(b) /\ FailsAtOnce("handler", b) /\ WriteRaises
         \/ BatchFull(b) /\ StartPost("handler", b) /\ task' = "posting"
            /\ UNCHANGED <<tick, candleVars>>
  BY DEF WriteTick
<1>5. Upsert(rows, b) = [Overlaid EXCEPT ![KeyOf(tick)] = tick]
  BY <1>2, <1>3, UpsertAppend DEF Overlaid
<1> HIDE DEF b
<1>6. StoreInv'
  <2>1. written' \in Rows
    BY <1>2, <1>3, <1>4 DEF Rows
  <2>2. Overlaid = [k \in Keys |-> Overlaid[k]]
    BY UpsertIsTable DEF Overlaid
  <2>3. \A k \in Keys : written'[k] # NoRow => Upsert(rows, b)[k] # NoRow
    <3>1. \A k \in Keys : written[k] # NoRow => Overlaid[k] # NoRow
      BY <1>1 DEF FeedParts, StoreInv, WrittenInv
    <3> QED BY <1>2, <1>3, <1>4, <1>5, <2>2, <3>1, NoRowIsNoTick DEF Rows
  <2>4. ~abandoned => Upsert(rows, b) = written'
    BY <1>1, <1>4, <1>5 DEF FeedParts, StoreInv, WrittenInv
  <2>5. "handler" \in Actors
    BY DEF Actors
  <2>6. StoreInv
    BY <1>1 DEF FeedParts
  <2>7. \/ FlushesAtOnce(b)
        \/ FailsAtOnce("handler", b)
        \/ StartPost("handler", b)
        \/ buffer' = b /\ UNCHANGED <<backend, lock, requestVars, rows, failures>>
    BY <1>4
  <2>8. flusher' \in {"alive", "dead"}
    BY <1>2, <1>3
  <2> QED BY <1>2, <1>3, <2>1, <2>3, <2>4, <2>5, <2>6, <2>7, <2>8, BatchTaken
<1>7. /\ accepted' \in [Symbols -> Nat]
      /\ \A s \in Symbols : accepted'[s] = accepted[s]
            + IF tick.symbol = s /\ WellOrdered(tick) THEN 1 ELSE 0
  BY <1>1, <1>2, <1>4 DEF FeedParts, HistoryTypeOK
<1>8. "handler" \notin failures =>
        \A s \in Symbols : accepted'[s] = emitted[s] + candle[s].count
          + IF tick.symbol = s /\ WellOrdered(tick) THEN 1 ELSE 0
  <2> SUFFICES ASSUME "handler" \notin failures, NEW s \in Symbols
               PROVE  accepted'[s] = emitted[s] + candle[s].count
                        + IF tick.symbol = s /\ WellOrdered(tick) THEN 1 ELSE 0
    OBVIOUS
  <2>1. accepted[s] = emitted[s] + candle[s].count + 0
    BY <1>1, <1>2 DEF FeedParts, CountInv, Awaited
  <2>2. emitted[s] \in Nat /\ candle[s].count \in Nat
    BY <1>1 DEF FeedParts, HistoryTypeOK, Candles, NoCandle
  <2> QED BY <1>7, <2>1, <2>2
<1>9. CASE TickWritten /\ (\/ ~BatchFull(b) /\ buffer' = b /\ UNCHANGED <<lock, failures>>
                           \/ FlushesAtOnce(b))
  <2>1. lock' = "free" /\ failures \subseteq failures'
    BY <1>2, <1>9 DEF FlushesAtOnce
  <2>2. /\ ControlTypeOK' /\ HistoryTypeOK' /\ OrderInv' /\ CountInv' /\ CandleMatchesTicks'
        /\ WindowsStep
    BY <1>1, <1>2, <1>7, <1>8, <1>9, <2>1, TickWrittenKeeps
  <2>3. BufferInv'
    <3>1. WriteBatchSize \in Nat \ {0}
      BY StoreAssumption
    <3> QED BY <1>3, <1>9, <3>1, EmptySeq DEF BufferInv, BatchFull, FlushesAtOnce
  <2> QED BY <1>6, <2>2, <2>3, FeedInvParts DEF FeedParts
<1>10. CASE FailsAtOnce("handler", b) /\ WriteRaises
  <2>1. /\ lock' = "free" /\ "handler" \in failures' /\ tick' = NoTick
        /\ task' = "closing" \/ task' = "reading"
        /\ UNCHANGED candleVars
    BY <1>2, <1>10 DEF FailsAtOnce, WriteRaises
  <2>2. /\ ControlTypeOK' /\ HistoryTypeOK' /\ OrderInv' /\ CountInv' /\ CandleMatchesTicks'
        /\ WindowsStep
    BY <1>1, <1>2, <1>7, <2>1, TickDropped
  <2>3. BufferInv'
    BY <2>1 DEF BufferInv
  <2> QED BY <1>6, <2>2, <2>3, FeedInvParts DEF FeedParts
<1>11. CASE StartPost("handler", b) /\ task' = "posting" /\ UNCHANGED <<tick, candleVars>>
  <2>1. lock' = "handler" /\ failures' = failures
    BY <1>11 DEF StartPost
  <2>2. HistoryTypeOK' /\ CandleMatchesTicks' /\ WindowsStep
    BY <1>1, <1>7, <1>11, CandlesUnchanged DEF FeedParts, candleVars
  <2>3. ControlTypeOK'
    BY <1>1, <1>2, <1>11, <2>1 DEF FeedParts, ControlTypeOK, candleVars
  <2>4. BufferInv'
    BY <1>11 DEF BufferInv
  <2>5. OrderInv'
    BY <1>1, <1>2, <1>11 DEF FeedParts, OrderInv, candleVars
  <2>6. CountInv'
    BY <1>8, <1>11, <2>1 DEF CountInv, Awaited, candleVars
  <2> QED BY <1>6, <2>2, <2>3, <2>4, <2>5, <2>6, FeedInvParts DEF FeedParts
<1> QED BY <1>4, <1>9, <1>10, <1>11

LEMMA HandlerPostEndsKeeps ==
  ASSUME FeedInv, HandlerPostEnds
  PROVE  FeedInv' /\ WindowsStep
<1>1. FeedParts
  BY FeedInvParts
<1>2. /\ task = "posting" /\ tick # NoTick
      /\ UNCHANGED <<flusher, written, validator, bootstrapped, accepted>>
  BY <1>1 DEF HandlerPostEnds, FeedParts, ControlTypeOK
<1>3. /\ StoreInv /\ accepted' \in [Symbols -> Nat] /\ flusher' \in {"alive", "dead"}
      /\ failures \subseteq Actors /\ "handler" \in Actors
  BY <1>1, <1>2 DEF FeedParts, StoreInv, StoreTypeOK, HistoryTypeOK, Actors
<1>4. CASE PostSucceeds("handler") /\ TickWritten
  <2>1. lock' = "free" /\ failures' = failures /\ buffer' = <<>>
    BY <1>4 DEF PostSucceeds
  <2>2. "handler" \notin failures =>
          \A s \in Symbols : accepted'[s] = emitted[s] + candle[s].count
            + IF tick.symbol = s /\ WellOrdered(tick) THEN 1 ELSE 0
    BY <1>1, <1>2 DEF FeedParts, CountInv, Awaited
  <2>3. /\ ControlTypeOK' /\ HistoryTypeOK' /\ OrderInv' /\ CountInv' /\ CandleMatchesTicks'
        /\ WindowsStep
    BY <1>1, <1>2, <1>3, <1>4, <2>1, <2>2, TickWrittenKeeps
  <2>4. StoreInv'
    BY <1>2, <1>3, <1>4, PostSucceedsKeeps
  <2>5. BufferInv'
    BY <2>1, StoreAssumption, EmptySeq DEF BufferInv
  <2> QED BY <2>3, <2>4, <2>5, FeedInvParts DEF FeedParts
<1>5. CASE PostFails("handler") /\ WriteRaises
  <2>1. /\ lock' = "free" /\ failures' = failures \cup {"handler"} /\ tick' = NoTick
        /\ task' = "closing" \/ task' = "reading"
        /\ UNCHANGED <<backend, buffer, rows, candleVars>> /\ AbandonRequest
    BY <1>5 DEF PostFails, WriteRaises
  <2>2. /\ ControlTypeOK' /\ HistoryTypeOK' /\ OrderInv' /\ CountInv' /\ CandleMatchesTicks'
        /\ WindowsStep
    BY <1>1, <1>2, <1>3, <2>1, TickDropped
  <2>3. StoreInv'
    BY <1>2, <1>3, <2>1, RequestLeft
  <2>4. BufferInv'
    BY <2>1 DEF BufferInv
  <2> QED BY <2>2, <2>3, <2>4, FeedInvParts DEF FeedParts
<1> QED BY <1>4, <1>5 DEF HandlerPostEnds

LEMMA StoreUnchanged ==
  ASSUME StoreInv, UNCHANGED storeVars
  PROVE  StoreInv'
  BY DEF StoreInv, StoreTypeOK, RequestInv, WrittenInv, Overlaid, storeVars, requestVars

LEMMA StopFeedKeeps ==
  ASSUME FeedInv, StopFeed
  PROVE  FeedInv' /\ WindowsStep
<1>1. FeedParts
  BY FeedInvParts
<1>2. /\ task' = "closing" /\ tick' = NoTick
      /\ UNCHANGED <<backend, buffer, flusher, rows, failures, written,
                     validator, bootstrapped, accepted, candleVars>>
      /\ \/ task = "posting" /\ CancelPost
         \/ task # "posting" /\ UNCHANGED <<requestVars, lock>>
      /\ task \in {"reading", "writing", "posting"}
  BY DEF StopFeed
<1>3. /\ StoreInv /\ accepted' \in [Symbols -> Nat] /\ flusher' \in {"alive", "dead"}
      /\ failures' \subseteq Actors
  BY <1>1, <1>2 DEF FeedParts, StoreInv, StoreTypeOK, HistoryTypeOK
<1>4. lock' # "handler" /\ lock' # "closer"
  BY <1>1, <1>2 DEF FeedParts, ControlTypeOK, CancelPost
<1>5. StoreInv'
  <2>1. CASE CancelPost
    BY <1>2, <1>3, <2>1, RequestLeft DEF CancelPost
  <2>2. CASE UNCHANGED <<requestVars, lock>>
    BY <1>2, <1>3, <2>2, StoreUnchanged DEF storeVars
  <2> QED BY <1>2, <2>1, <2>2
<1>6. /\ ControlTypeOK' /\ HistoryTypeOK' /\ OrderInv' /\ CountInv' /\ CandleMatchesTicks'
      /\ WindowsStep
  BY <1>1, <1>2, <1>3, <1>4, TickDropped
<1>7. BufferInv'
  BY <1>2 DEF BufferInv
<1> QED BY <1>5, <1>6, <1>7, FeedInvParts DEF FeedParts

\* A step of the store alone, or of close(), when no tick is under way.
LEMMA StoreStepKeeps ==
  ASSUME FeedInv, StoreInv', UNCHANGED <<feedVars, candleVars>>, failures \subseteq failures',
         \/ /\ task' = task
            /\ lock' = "handler" <=> lock = "handler"
            /\ lock' = "closer" => lock = "closer"
            /\ buffer' \in {buffer, <<>>}
         \/ /\ task \in {"closing", "flushing"}
            /\ task' \in {"flushing", "closed", "failed"}
            /\ lock' # "handler"
            /\ lock' = "closer" => task' = "flushing"
  PROVE  FeedInv' /\ WindowsStep
<1>1. FeedParts
  BY FeedInvParts
<1>2. /\ tick' = tick /\ validator' = validator /\ bootstrapped' = bootstrapped
      /\ accepted' = accepted /\ candle' = candle /\ features' = features
      /\ parts' = parts /\ emitted' = emitted
  BY DEF feedVars, candleVars
<1>3. HistoryTypeOK' /\ CandleMatchesTicks' /\ WindowsStep
  BY <1>1, <1>2, CandlesUnchanged DEF FeedParts, HistoryTypeOK
<1>4. ControlTypeOK'
  BY <1>1, <1>2 DEF FeedParts, ControlTypeOK, Ended
<1>5. OrderInv'
  BY <1>1, <1>2 DEF FeedParts, OrderInv
<1>6. CountInv'
  <2>1. CASE task' = task
    <3>1. \A s \in Symbols : Awaited(s)' = Awaited(s)
      BY <1>2, <2>1 DEF Awaited
    <3> QED BY <1>1, <1>2, <2>1, <3>1 DEF FeedParts, CountInv
  <2>2. CASE task' \in {"flushing", "closed", "failed"}
    BY <2>2 DEF CountInv
  <2> QED BY <2>1, <2>2
<1>7. BufferInv'
  <2>1. WriteBatchSize \in Nat \ {0} /\ Len(<<>>) = 0
    BY StoreAssumption
  <2> QED BY <1>1, <2>1 DEF FeedParts, BufferInv
<1> QED BY <1>1, <1>3, <1>4, <1>5, <1>6, <1>7, FeedInvParts DEF FeedParts

LEMMA StoreFacts ==
  ASSUME FeedInv
  PROVE  /\ StoreInv /\ buffer \in Seq(Ticks) /\ failures \subseteq Actors
         /\ flusher \in {"alive", "dead"} /\ written \in Rows
         /\ \A k \in Keys : written[k] # NoRow => Upsert(rows, buffer)[k] # NoRow
         /\ ~abandoned => Upsert(rows, buffer) = written
         /\ (task = "posting" <=> lock = "handler") /\ (lock = "closer" => task = "flushing")
  BY FeedInvParts
     DEF FeedParts, StoreInv, StoreTypeOK, WrittenInv, Overlaid, ControlTypeOK, Rows

LEMMA CancelFlusherKeeps ==
  ASSUME FeedInv, CancelFlusher
  PROVE  FeedInv' /\ WindowsStep
<1>1. /\ task = "closing" /\ task' = "flushing" /\ flusher' = "dead"
      /\ UNCHANGED <<backend, buffer, rows, failures, written, feedVars, candleVars>>
      /\ \/ lock = "flusher" /\ CancelPost
         \/ lock # "flusher" /\ UNCHANGED <<requestVars, lock>>
  BY DEF CancelFlusher
<1>2. StoreInv'
  <2>1. CASE CancelPost
    BY <1>1, <2>1, StoreFacts, RequestLeft DEF CancelPost
  <2>2. CASE UNCHANGED <<requestVars, lock>>
    BY <1>1, <2>2, StoreFacts
       DEF StoreInv, StoreTypeOK, RequestInv, WrittenInv, Overlaid, requestVars
  <2> QED BY <1>1, <2>1, <2>2
<1>3. lock' # "handler" /\ lock' # "closer"
  BY <1>1, StoreFacts DEF CancelPost
<1> QED BY <1>1, <1>2, <1>3, StoreStepKeeps

LEMMA CloseFlushesKeeps ==
  ASSUME FeedInv, CloseFlushes
  PROVE  FeedInv' /\ WindowsStep
<1>1. /\ task = "flushing" /\ lock = "free" /\ UNCHANGED <<flusher, written, feedVars, candleVars>>
      /\ \/ FlushesAtOnce(buffer) /\ task' = "closed"
         \/ FailsAtOnce("closer", buffer) /\ task' = "failed"
         \/ StartPost("closer", buffer) /\ task' = task
         \/ task' = "closed" /\ UNCHANGED <<backend, buffer, lock, requestVars, rows, failures>>
  BY DEF CloseFlushes
<1>2. "closer" \in Actors
  BY DEF Actors
<1>3. StoreInv'
  BY <1>1, <1>2, StoreFacts, BatchTaken
<1>4. /\ lock' # "handler" /\ (lock' = "closer" => task' = "flushing")
      /\ failures \subseteq failures' /\ task' \in {"flushing", "closed", "failed"}
  BY <1>1 DEF FlushesAtOnce, FailsAtOnce, StartPost
<1> QED BY <1>1, <1>3, <1>4, StoreStepKeeps

LEMMA ClosePostEndsKeeps ==
  ASSUME FeedInv, ClosePostEnds
  PROVE  FeedInv' /\ WindowsStep
<1>1. /\ task = "flushing" /\ UNCHANGED <<flusher, written, feedVars, candleVars>>
      /\ \/ PostSucceeds("closer") /\ task' = "closed"
         \/ PostFails("closer") /\ task' = "failed"
  BY DEF ClosePostEnds
<1>2. "closer" \in Actors
  BY DEF Actors
<1>3. StoreInv'
  <2>1. CASE PostSucceeds("closer")
    BY <1>1, <1>2, <2>1, StoreFacts, PostSucceedsKeeps
  <2>2. CASE PostFails("closer")
    <3>1. failures' \subseteq Actors
      BY <1>2, <2>2, StoreFacts DEF PostFails
    <3> QED BY <1>1, <2>2, <3>1, StoreFacts, RequestLeft DEF PostFails
  <2> QED BY <1>1, <2>1, <2>2
<1>4. lock' = "free" /\ failures \subseteq failures'
  BY <1>1 DEF PostSucceeds, PostFails
<1> QED BY <1>1, <1>3, <1>4, StoreStepKeeps

LEMMA FlusherRunsKeeps ==
  ASSUME FeedInv, FlusherRuns
  PROVE  FeedInv' /\ WindowsStep
<1>1. /\ lock = "free" /\ UNCHANGED <<task, written, feedVars, candleVars>>
      /\ \/ FlushesAtOnce(buffer) /\ UNCHANGED flusher
         \/ FailsAtOnce("flusher", buffer) /\ flusher' = "dead"
         \/ StartPost("flusher", buffer) /\ UNCHANGED flusher
  BY DEF FlusherRuns, FlusherWakes
<1>2. "flusher" \in Actors
  BY DEF Actors
<1>3. StoreInv'
  BY <1>1, <1>2, StoreFacts, BatchTaken
<1>4. /\ lock' # "handler" /\ lock' # "closer" /\ buffer' \in {buffer, <<>>}
      /\ failures \subseteq failures'
  BY <1>1 DEF FlushesAtOnce, FailsAtOnce, StartPost
<1> QED BY <1>1, <1>3, <1>4, StoreStepKeeps

LEMMA FlusherPostEndsKeeps ==
  ASSUME FeedInv, FlusherPostEnds, UNCHANGED <<task, feedVars, candleVars>>
  PROVE  FeedInv' /\ WindowsStep
<1>1. /\ UNCHANGED written
      /\ \/ PostSucceeds("flusher") /\ UNCHANGED flusher
         \/ PostFails("flusher") /\ flusher' = "dead"
  BY DEF FlusherPostEnds
<1>2. "flusher" \in Actors
  BY DEF Actors
<1>3. StoreInv'
  <2>1. CASE PostSucceeds("flusher") /\ UNCHANGED flusher
    BY <1>1, <1>2, <2>1, StoreFacts, PostSucceedsKeeps
  <2>2. CASE PostFails("flusher") /\ flusher' = "dead"
    <3>1. failures' \subseteq Actors
      BY <1>2, <2>2, StoreFacts DEF PostFails
    <3> QED BY <1>1, <2>2, <3>1, StoreFacts, RequestLeft DEF PostFails
  <2> QED BY <1>1, <2>1, <2>2
<1>4. /\ lock = "flusher" /\ lock' = "free" /\ failures \subseteq failures'
      /\ buffer' \in {buffer, <<>>}
  BY <1>1 DEF PostSucceeds, PostFails
<1> QED BY <1>3, <1>4, StoreStepKeeps

LEMMA ServerStepKeeps ==
  ASSUME FeedInv, Server
  PROVE  FeedInv' /\ WindowsStep
<1>1. StoreInv'
  BY StoreFacts, ServerKeeps DEF Server
<1>2. UNCHANGED <<task, feedVars, candleVars>> /\ UNCHANGED <<lock, buffer, failures>>
  BY DEF Server, ServerApplies, ServerAppliesLate
<1> QED BY <1>1, <1>2, StoreStepKeeps

-----------------------------------------------------------------------------
(* The theorems *)

LEMMA FeedInvInit == Init => FeedInv
<1> SUFFICES ASSUME Init PROVE FeedInv
  OBVIOUS
<1>1. \A s \in Symbols : candle[s] = NoCandle /\ parts[s] = <<>>
  BY DEF Init
<1>2. rows \in Rows /\ written \in Rows /\ rows = written /\ buffer = <<>>
  BY DEF Init, StoreInit, Rows
<1>3. Overlaid = written
  BY <1>2, UpsertEmpty DEF Overlaid
<1>4. StoreInv
  <2>1. <<>> \in Seq(Ticks)
    BY EmptySeq
  <2> QED BY <1>2, <1>3, <2>1
      DEF Init, StoreInit, StoreInv, StoreTypeOK, RequestInv, WrittenInv, Rows, Actors
<1>5. ControlTypeOK
  <2>1. validator \in [Symbols -> [epoch : Epochs \cup {NoEpoch}, returns : 0..MinReturns]]
    BY NumbersOfEpochs DEF Init
  <2>2. features \in [Symbols -> 0..MinHistory] /\ bootstrapped \subseteq Symbols
    BY NumbersOfEpochs DEF Init
  <2> QED BY <2>1, <2>2 DEF Init, StoreInit, ControlTypeOK
<1>6. HistoryTypeOK
  BY EmptySeq DEF Init, HistoryTypeOK
<1>7. BufferInv
  <2>1. Len(<<>>) = 0 /\ WriteBatchSize \in Nat \ {0}
    BY StoreAssumption
  <2> QED BY <1>2, <2>1 DEF BufferInv
<1>8. OrderInv
  <2>1. \A s \in Symbols : DOMAIN parts[s] = {}
    BY <1>1
  <2> QED BY <2>1 DEF OrderInv, Init
<1>9. CountInv
  BY DEF Init, CountInv, Awaited, NoCandle
<1>10. CandleMatchesTicks
  BY <1>1, CandlesMatch DEF Matches
<1> QED BY <1>4, <1>5, <1>6, <1>7, <1>8, <1>9, <1>10, FeedInvParts DEF FeedParts

LEMMA FeedStep == FeedInv /\ [Next]_vars => FeedInv' /\ WindowsStep
<1> SUFFICES ASSUME FeedInv, [Next]_vars
             PROVE  FeedInv' /\ WindowsStep
  OBVIOUS
<1>1. CASE ReadTick
  BY <1>1, ReadTickKeeps
<1>2. CASE WriteTick
  BY <1>2, WriteTickKeeps
<1>3. CASE StopFeed
  BY <1>3, StopFeedKeeps
<1>4. CASE CancelFlusher
  BY <1>4, CancelFlusherKeeps
<1>5. CASE CloseFlushes
  BY <1>5, CloseFlushesKeeps
<1>6. CASE FlusherRuns
  BY <1>6, FlusherRunsKeeps
<1>7. CASE PostEnds
  BY <1>7, FlusherPostEndsKeeps, HandlerPostEndsKeeps, ClosePostEndsKeeps DEF PostEnds
<1>8. CASE Server
  BY <1>8, ServerStepKeeps
<1>9. CASE UNCHANGED vars
  <2>1. /\ UNCHANGED storeVars /\ UNCHANGED <<task, feedVars, candleVars>>
        /\ UNCHANGED <<lock, buffer, failures>>
    BY <1>9 DEF vars, storeVars
  <2>2. StoreInv'
    BY <2>1, StoreFacts, StoreUnchanged
  <2> QED BY <2>1, <2>2, StoreStepKeeps
<1> QED BY <1>1, <1>2, <1>3, <1>4, <1>5, <1>6, <1>7, <1>8, <1>9 DEF Next, Terminated

LEMMA FeedInvariant == Spec => []FeedInv
<1>1. FeedInv /\ [Next]_vars => FeedInv'
  BY FeedStep
<1> QED BY FeedInvInit, <1>1, PTL DEF Spec

\* Store, tick, validator and open candles hold values of their kinds, and a
\* handler's request is under way exactly while on_tick awaits it.
THEOREM FeedTypeCorrect == Spec => []TypeOK
<1>1. FeedInv => TypeOK
  BY DEF FeedInv
<1> QED BY <1>1, FeedInvariant, PTL

\* A crash between two writes costs less than one batch, whatever the batch
\* size, as long as no flush has failed.
THEOREM LossIsBounded == Spec => []LossBounded
<1>1. FeedInv => LossBounded
  BY DEF FeedInv, BufferInv, LossBounded
<1> QED BY <1>1, FeedInvariant, PTL

\* No tick handed to the store is lost, whatever flushes fail, are cancelled
\* or go unanswered, and whatever cut requests the server applies late.
THEOREM NoTickLost == Spec => []NothingLost
<1>1. FeedInv => NothingLost
  BY DEF FeedInv, WrittenInv, NothingLost
<1> QED BY <1>1, FeedInvariant, PTL

\* As long as no request was abandoned, the table with the buffer on top is
\* what the ticks written make it.
THEOREM LastTickWins == Spec => []LastWriteWins
<1>1. FeedInv => LastWriteWins
  BY DEF FeedInv, WrittenInv, LastWriteWins
<1> QED BY <1>1, FeedInvariant, PTL

\* The open candle of each symbol is the open, high, low, close and number of
\* its ticks, which are of one window and strictly later one than another.
THEOREM CandleIsItsTicks == Spec => []CandleMatchesTicks
<1>1. FeedInv => CandleMatchesTicks
  BY DEF FeedInv
<1> QED BY <1>1, FeedInvariant, PTL

\* Each well-ordered tick written is counted in exactly one candle, while no
\* write of the handler has failed.
THEOREM OneCandlePerTick == Spec => []EveryTickInOneCandle
<1>1. FeedInv => EveryTickInOneCandle
  <2> SUFFICES ASSUME FeedInv, task = "reading", "handler" \notin failures, NEW s \in Symbols
               PROVE  accepted[s] = emitted[s] + candle[s].count
    BY DEF EveryTickInOneCandle
  <2>1. accepted[s] = emitted[s] + candle[s].count + 0
    BY FeedInvParts DEF FeedParts, CountInv, Awaited
  <2>2. emitted[s] \in Nat /\ candle[s].count \in Nat
    BY FeedInvParts DEF FeedParts, HistoryTypeOK, Candles, NoCandle
  <2> QED BY <2>1, <2>2
<1> QED BY <1>1, FeedInvariant, PTL

\* A candle is replaced only by one of a later window, and is then emitted.
THEOREM CandlesAdvance == Spec => WindowsAdvance
<1>1. FeedInv /\ [Next]_vars => [WindowsStep]_vars
  BY FeedStep
<1>2. Spec => [][WindowsStep]_vars
  BY <1>1, FeedInvariant, PTL DEF Spec
<1> QED BY <1>2 DEF WindowsAdvance, WindowsStep
=============================================================================
