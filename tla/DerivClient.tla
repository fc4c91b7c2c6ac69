---------------------------- MODULE DerivClient ----------------------------
(***************************************************************************)
(* The broker's WebSocket client, data/deriv_client.py: bootstrap_history  *)
(* on a connection of its own with a listening task beside the caller,     *)
(* then run_forever, which resolves a URL, connects, subscribes and        *)
(* listens, and reconnects with a backoff after a failure it knows.  While *)
(* it streams, one task both reads the socket and runs the tick handler,   *)
(* so a request the handler makes waits for an answer nobody is reading.   *)
(*                                                                         *)
(* Time is abstracted: a timeout or a backoff may expire at any moment.  A *)
(* message is a tick, or an answer or an error bearing a request's id.     *)
(*                                                                         *)
(* A definition marked "Slip" is a mistake an editor of the code could     *)
(* make; no specification uses it.                                         *)
(***************************************************************************)
EXTENDS Naturals, Sequences, FiniteSets

CONSTANTS
  Symbols,          \* connection.symbols
  Authenticated,    \* is_authenticated_mode: a URL carries a one-time password
  Bootstraps,       \* paper_trading.enabled: histories are fetched first
  MaxAttempts,      \* max_reconnect_attempts, or NoLimit for None
  NoLimit,
  OverflowAt,       \* first n for which multiplier ** n is no float (1024 for 2.0)
  MaxReqId,         \* bound: request ids told apart; no handler asks beyond it
  MaxInbox,         \* bound: messages read by nobody yet
  MaxTries          \* bound: connection attempts counted since the last connection

ASSUME SymbolsAssumption == IsFiniteSet(Symbols) /\ Symbols # {}
ASSUME ModesAssumption == Authenticated \in BOOLEAN /\ Bootstraps \in BOOLEAN
ASSUME AttemptsAssumption == MaxAttempts \in Nat \cup {NoLimit} /\ NoLimit \notin Nat
ASSUME OverflowAssumption == OverflowAt \in Nat \ {0}
ASSUME BoundsAssumption ==
  /\ {MaxReqId, MaxInbox, MaxTries} \subseteq Nat
  /\ MaxAttempts # NoLimit => MaxTries >= MaxAttempts

VARIABLES
  stage,       \* which call owns the connection: "bootstrap" or "stream"
  phase,       \* where that call stands
  error,       \* the exception that ended the program, or "none"
  url,         \* the URL of the next connection: "none", "public", "fresh" or "used"
  ws,          \* the connection
  listener,    \* the bootstrap's listening task
  toFetch,     \* symbols whose history is still to be fetched
  reqCounter,  \* _req_id_counter
  pending,     \* the keys of _pending
  awaiting,    \* the request whose future the caller awaits
  calls,       \* requests the running tick handler has made
  attempt,     \* _reconnect_attempt
  tries        \* connections tried since the last one that opened (history)

callVars == <<stage, phase, error>>
requestVars == <<reqCounter, pending, awaiting, calls>>
vars == <<callVars, url, ws, listener, toFetch, requestVars, attempt, tries>>

Phases == {"resolving", "connecting", "requesting", "subscribing",
           "listening", "handling", "backoff", "ended", "failed"}

\* What run_forever retries after: ConnectionClosed, OSError, TimeoutError.
Retried == {"closed", "os_error", "timeout"}

\* What ends it: a refused handshake, a DerivClientError, a future resolved
\* twice, a float overflow, and whatever else a tick handler lets out.
Fatal == {"handshake", "client_error", "invalid_state", "overflow", "handler"}

NoConnection == [link |-> "none", subscribed |-> {}, asked |-> {}, inbox |-> <<>>]
NewConnection == [NoConnection EXCEPT !.link = "open"]
NoRequest == [id |-> 0, state |-> "none"]

Tick == [type |-> "tick", id |-> 0]
SubscriptionError == [type |-> "error", id |-> 0]
Replies(id) == [type : {"answer", "error"}, id : {id}]

IsOpen == ws.link = "open"
Stopped == phase \in {"ended", "failed"}

-----------------------------------------------------------------------------
(* Failures *)

Exhausted == MaxAttempts # NoLimit /\ attempt >= MaxAttempts

Fail(e) == /\ phase' = "failed"
           /\ error' = e
           /\ UNCHANGED <<stage, attempt>>

\* _handle_reconnect: give up, or count the attempt and sleep.  The power is
\* computed before min() caps the backoff.
HandleReconnect ==
  \/ /\ Exhausted
     /\ phase' = "ended"
     /\ UNCHANGED <<stage, error, attempt>>
  \/ /\ ~Exhausted
     /\ attempt >= OverflowAt
     /\ Fail("overflow")
  \/ /\ ~Exhausted
     /\ attempt < OverflowAt
     /\ attempt' = attempt + 1
     /\ phase' = "backoff"
     /\ UNCHANGED <<stage, error>>

\* An exception leaves the call; `async with` has closed its connection.
Raise(e) ==
  /\ ws' = NoConnection
  /\ \/ stage = "stream" /\ e \in Retried /\ HandleReconnect
     \/ ~(stage = "stream" /\ e \in Retried) /\ Fail(e)

-----------------------------------------------------------------------------
(* Connecting *)

\* Slip: the URL of the previous connection is kept.
ResolvedUrlCached == IF url # "none" THEN url
                     ELSE IF Authenticated THEN "fresh" ELSE "public"

\* _resolve_connect_url
ResolvedUrl == IF Authenticated THEN "fresh" ELSE "public"

Counted(n) == IF n < MaxTries THEN n + 1 ELSE n

ResolveUrl ==
  /\ phase = "resolving"
  /\ tries' = Counted(tries)
  /\ \/ /\ url' = ResolvedUrl
        /\ phase' = "connecting"
        /\ UNCHANGED <<stage, error, ws, attempt>>
     \/ /\ Authenticated
        /\ \E e \in {"os_error", "timeout", "client_error"} : Raise(e)
        /\ UNCHANGED url
  /\ UNCHANGED <<listener, toFetch, requestVars>>

\* A one-time password opens one connection at most.
ConsumedUrl == IF url = "fresh" THEN "used" ELSE url

\* Slip: a connection does not clear the attempts.
AttemptAfterConnectKept == attempt

\* Slip: a connection takes back one attempt, even the one nobody made.
AttemptAfterConnectLowered == attempt - 1

AttemptAfterConnect == IF stage = "stream" THEN 0 ELSE attempt

Connect ==
  /\ phase = "connecting"
  /\ url' = ConsumedUrl
  /\ ws' = NewConnection
  /\ tries' = 0
  /\ attempt' = AttemptAfterConnect
  /\ \/ stage = "bootstrap" /\ phase' = "requesting" /\ listener' = "reading"
     \/ stage = "stream" /\ phase' = "subscribing" /\ UNCHANGED listener
  /\ UNCHANGED <<stage, error, toFetch, requestVars>>

ConnectFails ==
  /\ phase = "connecting"
  /\ \E e \in {"os_error", "timeout", "handshake"} : Raise(e)
  /\ url' = ConsumedUrl
  /\ UNCHANGED <<listener, toFetch, requestVars, tries>>

BackoffElapses ==
  /\ phase = "backoff"
  /\ phase' = "resolving"
  /\ UNCHANGED <<stage, error, url, ws, listener, toFetch, requestVars, attempt, tries>>

-----------------------------------------------------------------------------
(* Requests.  In the bootstrap the caller is fetch_bootstrap_history; in   *)
(* the stream it is the tick handler, which the reader itself runs and     *)
(* which turns every failed request into a decision of its own.            *)

\* A request that fails with e: a handler goes on; the bootstrap lets e out,
\* or what its listening task has died of, awaited in the `finally`.
RequestFails(e) ==
  \/ stage = "bootstrap" /\ Raise(IF listener = "dropped" THEN "closed" ELSE e)
  \/ stage = "stream" /\ UNCHANGED <<callVars, ws, attempt>>

\* A tick completes one candle at most, and its handler asks at most for a
\* poll, then for a proposal, then for a purchase.
HandlerRequests == 3

MayRequest ==
  \/ phase = "requesting" /\ toFetch # {}
  \/ phase = "handling" /\ calls < HandlerRequests /\ reqCounter < MaxReqId

SendRequest ==
  /\ MayRequest
  /\ awaiting = NoRequest
  /\ LET id == reqCounter + 1 IN
       /\ reqCounter' = id
       /\ pending' = pending \cup {id}
       /\ calls' = IF phase = "handling" THEN calls + 1 ELSE calls
       /\ \/ /\ IsOpen
             /\ ws' = [ws EXCEPT !.asked = @ \cup {id}]
             /\ awaiting' = [id |-> id, state |-> "waiting"]
             /\ UNCHANGED <<callVars, attempt>>
          \/ /\ ~IsOpen
             /\ RequestFails("closed")
             /\ UNCHANGED awaiting
  /\ UNCHANGED <<url, listener, toFetch, tries>>

\* Slip: the answer is awaited as long as the connection lasts.
RequestOutlastsConnection ==
  /\ awaiting.state = "waiting"
  /\ ~IsOpen
  /\ awaiting' = NoRequest
  /\ RequestFails("closed")
  /\ UNCHANGED <<url, listener, toFetch, reqCounter, pending, calls, tries>>

\* wait_for cancels the future; its id stays a key of _pending.
RequestTimesOut ==
  /\ awaiting.state = "waiting"
  /\ awaiting' = NoRequest
  /\ RequestFails("timeout")
  /\ UNCHANGED <<url, listener, toFetch, reqCounter, pending, calls, tries>>

RequestReturns ==
  /\ awaiting.state \in {"answer", "error"}
  /\ awaiting' = NoRequest
  /\ \/ /\ awaiting.state = "error"
        /\ RequestFails("client_error")
        /\ UNCHANGED toFetch
     \/ /\ awaiting.state = "answer"
        /\ \/ stage = "bootstrap" /\ \E s \in toFetch : toFetch' = toFetch \ {s}
           \/ stage = "stream" /\ UNCHANGED toFetch
        /\ UNCHANGED <<callVars, ws, attempt>>
  /\ UNCHANGED <<url, listener, reqCounter, pending, calls, tries>>

\* Slip: the bootstrap ends with its first history.
FetchedAny == toFetch # Symbols

FetchedAll == toFetch = {}

\* The histories are in and the listening task is cancelled; when a dropped
\* connection had already ended it, awaiting it raises ConnectionClosed.
FinishBootstrap ==
  /\ phase = "requesting"
  /\ awaiting = NoRequest
  /\ FetchedAll
  /\ listener' = "none"
  /\ \/ /\ listener = "dropped"
        /\ Raise("closed")
     \/ /\ listener # "dropped"
        /\ stage' = "stream"
        /\ phase' = "resolving"
        /\ ws' = NoConnection
        /\ UNCHANGED <<error, attempt>>
  /\ UNCHANGED <<url, toFetch, requestVars, tries>>

-----------------------------------------------------------------------------
(* Streaming *)

\* Slip: only the first connection of the stream is subscribed.
ToSubscribeOnce == IF reqCounter >= 2 * Cardinality(Symbols) THEN {}
                   ELSE Symbols \ ws.subscribed

ToSubscribe == Symbols \ ws.subscribed

\* No one keeps the id of a subscription: those beyond the bound are one.
SubscribeTicks ==
  /\ phase = "subscribing"
  /\ ToSubscribe # {}
  /\ reqCounter' = IF reqCounter < MaxReqId THEN reqCounter + 1 ELSE reqCounter
  /\ \/ /\ IsOpen
        /\ \E s \in ToSubscribe : ws' = [ws EXCEPT !.subscribed = @ \cup {s}]
        /\ UNCHANGED <<callVars, attempt>>
     \/ /\ ~IsOpen
        /\ Raise("closed")
  /\ UNCHANGED <<url, listener, toFetch, pending, awaiting, calls, tries>>

StartListening ==
  /\ phase = "subscribing"
  /\ ToSubscribe = {}
  /\ phase' = "listening"
  /\ UNCHANGED <<stage, error, url, ws, listener, toFetch, requestVars, attempt, tries>>

\* _listen is at its `async for`: nothing is read while a handler runs.
Reading == phase = "listening" \/ (phase = "requesting" /\ listener = "reading")

\* _resolve_pending: the key is popped and the future resolved, which raises
\* InvalidStateError when wait_for has cancelled it.
ResolvePending(m) ==
  \/ /\ m.id \notin pending
     /\ ws' = [ws EXCEPT !.inbox = Tail(@)]
     /\ UNCHANGED <<callVars, pending, awaiting, attempt>>
  \/ /\ m.id \in pending
     /\ pending' = pending \ {m.id}
     /\ \/ /\ m.id = awaiting.id
           /\ awaiting' = [awaiting EXCEPT !.state = m.type]
           /\ ws' = [ws EXCEPT !.inbox = Tail(@)]
           /\ UNCHANGED <<callVars, attempt>>
        \/ /\ m.id # awaiting.id
           /\ Raise("invalid_state")
           /\ UNCHANGED awaiting

ReadMessage ==
  /\ Reading
  /\ ws.inbox # <<>>
  /\ LET m == Head(ws.inbox) IN
       \/ /\ m.type = "tick"
          /\ ws' = [ws EXCEPT !.inbox = Tail(@)]
          /\ phase' = "handling"
          /\ calls' = 0
          /\ UNCHANGED <<stage, error, pending, awaiting, attempt>>
       \/ m.type # "tick" /\ ResolvePending(m) /\ UNCHANGED calls
  /\ UNCHANGED <<url, listener, toFetch, reqCounter, tries>>

HandlerReturns ==
  /\ phase = "handling"
  /\ awaiting = NoRequest
  /\ phase' = "listening"
  /\ UNCHANGED <<stage, error, url, ws, listener, toFetch, requestVars, attempt, tries>>

\* The handler's own work fails.  A store that cannot reach its server
\* raises an OSError, which run_forever takes for a lost connection.
HandlerRaises ==
  /\ phase = "handling"
  /\ awaiting = NoRequest
  /\ \E e \in {"os_error", "handler"} : Raise(e)
  /\ UNCHANGED <<url, listener, toFetch, requestVars, tries>>

\* The messages that had arrived are read first.  After a clean close the
\* `async for` just ends and run_forever connects again at once.
ListenEnds ==
  /\ Reading
  /\ ws.inbox = <<>>
  /\ ~IsOpen
  /\ \/ /\ stage = "bootstrap"
        /\ listener' = ws.link
        /\ UNCHANGED <<callVars, ws, attempt>>
     \/ /\ stage = "stream"
        /\ ws.link = "dropped"
        /\ Raise("closed")
        /\ UNCHANGED listener
     \/ /\ stage = "stream"
        /\ ws.link = "closed"
        /\ ws' = NoConnection
        /\ phase' = "resolving"
        /\ UNCHANGED <<stage, error, listener, attempt>>
  /\ UNCHANGED <<url, toFetch, requestVars, tries>>

-----------------------------------------------------------------------------
(* The broker and the network *)

Deliver(m) == ws' = [ws EXCEPT !.inbox = Append(@, m), !.asked = @ \ {m.id}]

BrokerSends ==
  /\ IsOpen
  /\ Len(ws.inbox) < MaxInbox
  /\ \/ ws.subscribed # {} /\ \E m \in {Tick, SubscriptionError} : Deliver(m)
     \/ \E id \in ws.asked : \E m \in Replies(id) : Deliver(m)
  /\ UNCHANGED <<callVars, url, listener, toFetch, requestVars, attempt, tries>>

ConnectionLost ==
  /\ IsOpen
  /\ \E link \in {"closed", "dropped"} :
       ws' = [ws EXCEPT !.link = link, !.asked = {}]
  /\ UNCHANGED <<callVars, url, listener, toFetch, requestVars, attempt, tries>>

-----------------------------------------------------------------------------
Init ==
  /\ stage = IF Bootstraps THEN "bootstrap" ELSE "stream"
  /\ phase = "resolving"
  /\ error = "none"
  /\ url = "none"
  /\ ws = NoConnection
  /\ listener = "none"
  /\ toFetch = Symbols
  /\ reqCounter = 0
  /\ pending = {}
  /\ awaiting = NoRequest
  /\ attempt = 0
  /\ calls = 0
  /\ tries = 0

ClientStep == ResolveUrl \/ Connect \/ ConnectFails \/ BackoffElapses
              \/ SendRequest \/ RequestTimesOut \/ RequestReturns \/ FinishBootstrap
              \/ SubscribeTicks \/ StartListening \/ ReadMessage
              \/ HandlerReturns \/ HandlerRaises \/ ListenEnds

\* run_forever has returned or raised; main closes the client and the store.
Terminated == Stopped /\ UNCHANGED vars

Next == ClientStep \/ BrokerSends \/ ConnectionLost \/ Terminated

\* The event loop runs every task that can run: the client never stops
\* between two of its steps for ever.
Spec == Init /\ [][Next]_vars /\ WF_vars(ClientStep)

-----------------------------------------------------------------------------
(* Properties *)

Messages == [type : {"tick", "answer", "error"}, id : Nat]

Connections ==
  [link : {"none", "open", "closed", "dropped"}, subscribed : SUBSET Symbols,
   asked : SUBSET Nat, inbox : Seq(Messages)]

\* Every variable of the client holds a value of its kind, and no key of
\* _pending is an id that is still to be given out.
TypeOK ==
  /\ stage \in {"bootstrap", "stream"}
  /\ phase \in Phases
  /\ error \in Retried \cup Fatal \cup {"none"}
  /\ url \in {"none", "public", "fresh", "used"}
  /\ ws \in Connections
  /\ listener \in {"none", "reading", "closed", "dropped"}
  /\ toFetch \subseteq Symbols
  /\ reqCounter \in Nat
  /\ pending \subseteq 1..reqCounter
  /\ awaiting \in [id : Nat, state : {"none", "waiting", "answer", "error"}]
  /\ attempt \in Nat
  /\ calls \in 0..HandlerRequests
  /\ tries \in 0..MaxTries

\* While the client listens, or handles a tick, it has asked for the ticks of
\* every symbol on the connection it reads from, after a reconnect as well.
SubscribedWhileListening ==
  phase \in {"listening", "handling"} => ws.subscribed = Symbols

\* run_forever gives up only after max_reconnect_attempts tries since the
\* last connection that opened: earlier outages do not count.
GivesUpOnlyAfterTrying ==
  phase = "ended" => MaxAttempts # NoLimit /\ tries >= MaxAttempts

\* No connection, the bootstrap's included, is tried with a one-time
\* password that an earlier try has used.
FreshPasswordPerConnection == phase = "connecting" => url # "used"

\* The stream starts once every symbol's history is in, on a connection of
\* its own, with nothing awaited and no answer still to come.
StreamStartsClean ==
  [][stage = "bootstrap" /\ stage' = "stream"
       => /\ toFetch = {} /\ pending = {} /\ awaiting = NoRequest
          /\ ws' = NoConnection]_vars

\* Something outside the client breaks: a connection, an attempt at one, or
\* a tick handler's own work.
SomethingFails == \/ ConnectionLost \/ ConnectFails \/ HandlerRaises
                  \/ ResolveUrl /\ phase' # "connecting"

\* Once nothing breaks any more, the client has stopped, or it is back on one
\* connection that stays open, and returns to its reader again and again: a
\* close, clean or not, leaves it nowhere else, and neither do the requests
\* of a handler, though their answers lie with the reader that awaits it.
StreamingResumes ==
  \/ []<><<SomethingFails>>_vars
  \/ <>Stopped
  \/ <>[]IsOpen /\ []<>(phase = "listening")

\* "Broker failures are reported, not propagated raw": a request that failed
\* has no later effect on the client.
LateAnswerIsHarmless == error # "invalid_state"

\* max_reconnect_attempts None is "retry forever": reconnecting itself
\* never ends the program.
RetriesForever == MaxAttempts = NoLimit => error # "overflow" /\ phase # "ended"
=============================================================================
