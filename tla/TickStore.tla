----------------------------- MODULE TickStore ------------------------------
(***************************************************************************)
(* The tick stores of data/storage.py: a buffer and a lock in memory, a    *)
(* flush when the buffer reaches the batch size, a task that flushes       *)
(* periodically, close().  Both stores have the same buffering.  SQLite's  *)
(* flush never leaves the event loop; Supabase's holds the lock across a   *)
(* request to a server, which may answer, refuse, or stay silent and apply *)
(* the rows later.  The actions are conjuncts of MarketFeed's.             *)
(*                                                                         *)
(* A definition marked "Slip" is a mistake an editor of the code could     *)
(* make; no specification uses it.                                         *)
(***************************************************************************)
EXTENDS Integers, Sequences, FiniteSets

CONSTANTS
  Symbols,          \* connection.symbols
  Epochs,           \* epochs of the ticks
  Prices,           \* their quotes
  Backends,         \* values of storage.backend to choose from
  WriteBatchSize,   \* storage.write_batch_size
  MaxLate           \* bound: cut requests the server still holds

ASSUME KeysAssumption == Symbols # {} /\ Epochs \subseteq Nat /\ Prices \subseteq Nat \ {0}
ASSUME StoreAssumption ==
  /\ Backends \subseteq {"sqlite", "supabase"} /\ Backends # {}
  /\ WriteBatchSize \in Nat \ {0} /\ MaxLate \in Nat

VARIABLES
  backend,     \* the store that was built
  buffer,      \* _buffer
  lock,        \* who holds _lock across an await, or "free"
  flusher,     \* the periodic task: "alive" or "dead"
  reply,       \* the holder's request: "none", "sent" or "applied"
  rows,        \* the table
  late,        \* batches of cut requests that the server may still apply
  failures,    \* who has had a flush fail (history)
  abandoned,   \* some cut request was left to the server (history)
  written      \* the last tick handed to write_ticks per key (history)

requestVars == <<reply, late, abandoned>>
storeVars == <<backend, buffer, lock, flusher, requestVars, rows, failures, written>>

Qualities == {"ok", "gap_detected", "price_jump_suspect", "duplicate", "out_of_order"}
Ticks == [symbol : Symbols, epoch : Epochs, quote : Prices, quality : Qualities]

Actors == {"handler", "flusher", "closer"}
Keys == Symbols \X Epochs
KeyOf(t) == <<t.symbol, t.epoch>>
NoRow == [quality |-> "no row"]

-----------------------------------------------------------------------------
(* The table *)

Positions(batch, k) == {i \in DOMAIN batch : KeyOf(batch[i]) = k}

\* Slip: INSERT OR IGNORE.
UpsertKeepingFirst(table, batch) ==
  [k \in Keys |-> IF table[k] # NoRow \/ Positions(batch, k) = {} THEN table[k]
                  ELSE batch[CHOOSE i \in Positions(batch, k) :
                               \A j \in Positions(batch, k) : i <= j]]

\* INSERT OR REPLACE, and the upsert with merge-duplicates.
Upsert(table, batch) ==
  [k \in Keys |-> IF Positions(batch, k) = {} THEN table[k]
                  ELSE batch[CHOOSE i \in Positions(batch, k) :
                               \A j \in Positions(batch, k) : j <= i]]

\* Postgres refuses an upsert that names a key twice; SQLite does not.
Upsertable(batch) == \A k \in Keys : Cardinality(Positions(batch, k)) <= 1

-----------------------------------------------------------------------------
(* Flushing.  The buffer does not change while the lock is held, so it is  *)
(* also the batch of the request under way.                                *)

\* Slip: a batch is sent only when the buffer has outgrown the limit.
BatchFullLate(b) == Len(b) > WriteBatchSize

BatchFull(b) == Len(b) >= WriteBatchSize

\* SQLite commits b, or raises and keeps it in the buffer.
FlushesAtOnce(b) == /\ backend = "sqlite"
                    /\ rows' = Upsert(rows, b)
                    /\ buffer' = <<>>
                    /\ UNCHANGED <<backend, lock, requestVars, failures>>

FailsAtOnce(who, b) == /\ backend = "sqlite"
                       /\ buffer' = b
                       /\ failures' = failures \cup {who}
                       /\ UNCHANGED <<backend, lock, requestVars, rows>>

\* Slip: the buffer is cleared before the answer has come.
StartPostCleared(who, b) ==
  /\ backend = "supabase"
  /\ lock' = who
  /\ reply' = "sent"
  /\ buffer' = <<>>
  /\ UNCHANGED <<backend, late, abandoned, rows, failures>>

\* Supabase posts b, holding the lock.
StartPost(who, b) ==
  /\ backend = "supabase"
  /\ lock' = who
  /\ reply' = "sent"
  /\ buffer' = b
  /\ UNCHANGED <<backend, late, abandoned, rows, failures>>

\* The answer is in and below 400.
PostSucceeds(who) ==
  /\ lock = who
  /\ reply = "applied"
  /\ lock' = "free"
  /\ reply' = "none"
  /\ buffer' = <<>>
  /\ UNCHANGED <<backend, late, abandoned, rows, failures>>

\* The client stops waiting: the server has applied the rows, has refused
\* them, or may yet apply them.
AbandonRequest ==
  /\ reply' = "none"
  /\ \/ UNCHANGED <<late, abandoned>>
     \/ /\ reply = "sent" /\ Upsertable(buffer) /\ Cardinality(late) < MaxLate
        /\ late' = late \cup {buffer}
        /\ abandoned' = TRUE

\* A refusal, a lost answer, a timeout, a broken connection.
PostFails(who) ==
  /\ lock = who
  /\ lock' = "free"
  /\ failures' = failures \cup {who}
  /\ AbandonRequest
  /\ UNCHANGED <<backend, buffer, rows>>

\* Slip: the lock is not released by a cancelled flush.
CancelPostLocked == AbandonRequest /\ UNCHANGED lock

\* The task that holds the lock is cancelled: `async with` releases it.
CancelPost == AbandonRequest /\ lock' = "free"

-----------------------------------------------------------------------------
(* The periodic task *)

\* Slip: the task leaves it to write_ticks unless the batch is full.
WorthFlushingFull == BatchFull(buffer)

WorthFlushing == buffer # <<>>

\* The interval is over and the lock free.  A failed flush ends the task.
FlusherWakes ==
  /\ flusher = "alive"
  /\ lock = "free"
  /\ WorthFlushing
  /\ \/ FlushesAtOnce(buffer) /\ UNCHANGED flusher
     \/ FailsAtOnce("flusher", buffer) /\ flusher' = "dead"
     \/ StartPost("flusher", buffer) /\ UNCHANGED flusher
  /\ UNCHANGED written

FlusherPostEnds ==
  /\ \/ PostSucceeds("flusher") /\ UNCHANGED flusher
     \/ PostFails("flusher") /\ flusher' = "dead"
  /\ UNCHANGED written

-----------------------------------------------------------------------------
(* The server *)

ServerApplies ==
  /\ reply = "sent"
  /\ Upsertable(buffer)
  /\ rows' = Upsert(rows, buffer)
  /\ reply' = "applied"
  /\ UNCHANGED <<backend, buffer, lock, flusher, late, abandoned, failures, written>>

ServerAppliesLate ==
  /\ \E batch \in late : /\ rows' = Upsert(rows, batch)
                         /\ late' = late \ {batch}
  /\ UNCHANGED <<backend, buffer, lock, flusher, reply, abandoned, failures, written>>

StoreInit ==
  /\ backend \in Backends
  /\ buffer = <<>>
  /\ lock = "free"
  /\ flusher = "alive"
  /\ reply = "none"
  /\ rows = [k \in Keys |-> NoRow]
  /\ late = {}
  /\ failures = {}
  /\ abandoned = FALSE
  /\ written = [k \in Keys |-> NoRow]

-----------------------------------------------------------------------------
(* Properties *)

\* Each variable of a store holds a value of its kind; a request is under
\* way exactly while somebody holds the lock across an await.
StoreTypeOK ==
  /\ backend \in Backends
  /\ buffer \in Seq(Ticks)
  /\ lock \in Actors \cup {"free"}
  /\ flusher \in {"alive", "dead"}
  /\ reply \in {"none", "sent", "applied"}
  /\ reply = "none" <=> lock = "free"
  /\ rows \in [Keys -> Ticks \cup {NoRow}]
  /\ late \subseteq Seq(Ticks)
  /\ failures \subseteq Actors
  /\ abandoned \in BOOLEAN
  /\ written \in [Keys -> Ticks \cup {NoRow}]

\* The table, overlaid with what is still in memory: what a flush makes of it.
Overlaid == Upsert(rows, buffer)

\* While the periodic task lives, buffered ticks reach the table, however
\* few they are and whatever else holds the lock.
BufferFlushed == flusher = "alive" /\ buffer # <<>> ~> flusher = "dead" \/ buffer = <<>>
=============================================================================
