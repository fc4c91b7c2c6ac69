------------------------- MODULE DerivClientProofs -------------------------
(* Theorems about DerivClient, for every set of symbols, limit and bound.  *)
EXTENDS DerivClient, SequenceTheorems, TLAPS

-----------------------------------------------------------------------------
(* The inductive invariant *)

\* The one request awaited is a key of _pending until it is resolved.  The
\* bootstrap has no other; the tick handler's is never resolved, because the
\* reader that would resolve it is running the handler.
RequestInv ==
  /\ awaiting.state = "none" => awaiting = NoRequest
  /\ awaiting.state = "waiting" => awaiting.id \in pending
  /\ phase \notin {"requesting", "handling"} => awaiting = NoRequest
  /\ phase = "handling" => awaiting.state \in {"none", "waiting"}
  /\ stage = "bootstrap" /\ phase # "failed"
       => pending = IF awaiting.state = "waiting" THEN {awaiting.id} ELSE {}

\* Nothing on connection c is, or will be, a tick.
Tickless(c) == /\ c.subscribed = {}
               /\ \A i \in 1..Len(c.inbox) : c.inbox[i].type # "tick"

\* What each phase implies about its call and its connection: no tick handler
\* runs before the bootstrap is over.
PhaseInv ==
  /\ phase = "requesting" => stage = "bootstrap" /\ Tickless(ws)
  /\ phase \in {"subscribing", "listening", "handling", "backoff", "ended"}
       => stage = "stream"
  /\ SubscribedWhileListening
  /\ FreshPasswordPerConnection

\* Every attempt counted has been a try since the last connection, except
\* the one that is still to be made.
TriesInv ==
  /\ stage = "bootstrap" => attempt = 0
  /\ phase \in {"backoff", "resolving"} => attempt <= tries + 1 \/ tries = MaxTries
  /\ phase \notin {"backoff", "resolving", "ended", "failed"}
       => attempt <= tries \/ tries = MaxTries
  /\ GivesUpOnlyAfterTrying

ClientInv == TypeOK /\ RequestInv /\ PhaseInv /\ TriesInv

-----------------------------------------------------------------------------
(* How a call can end *)

LEMMA FailureEffect ==
  ASSUME NEW e, Raise(e)
  PROVE  /\ ws' = NoConnection
         /\ stage' = stage
         /\ \/ /\ phase' = "failed"
               /\ attempt' = attempt
               /\ error' \in {e, "overflow"}
            \/ /\ stage = "stream"
               /\ phase' = "ended"
               /\ Exhausted
               /\ attempt' = attempt
               /\ error' = error
            \/ /\ stage = "stream"
               /\ phase' = "backoff"
               /\ attempt' = attempt + 1
               /\ error' = error
  BY DEF Raise, Fail, HandleReconnect

LEMMA ConnectionTypes == NoConnection \in Connections /\ NewConnection \in Connections
  <1>1. <<>> \in Seq(Messages)
    OBVIOUS
  <1>2. NoConnection \in Connections
    BY <1>1 DEF NoConnection, Connections
  <1>3. NewConnection \in Connections
    BY <1>2 DEF NewConnection, Connections
  <1>4. QED
    BY <1>2, <1>3

\* A failure that leaves the requests, the tries and the counters alone
\* keeps the invariant, wherever nothing is awaited.
LEMMA FailureKeeps ==
  ASSUME ClientInv, NEW e \in Retried \cup Fatal, Raise(e), phase \notin {"backoff", "ended", "failed"},
         tries' = IF phase = "resolving" THEN Counted(tries) ELSE tries,
         awaiting' = NoRequest,
         reqCounter' \in Nat, reqCounter' >= reqCounter,
         pending' \subseteq 1..reqCounter',
         url' \in {"none", "public", "fresh", "used"},
         listener' \in {"none", "reading", "closed", "dropped"},
         toFetch' \subseteq Symbols, calls' \in 0..HandlerRequests
  PROVE  ClientInv'
  <1>1. TypeOK'
    <2>1. ws' \in Connections /\ Connections' = Connections
      BY FailureEffect, ConnectionTypes DEF Connections, Messages
    <2>2. stage' \in {"bootstrap", "stream"} /\ phase' \in Phases /\ attempt' \in Nat
      BY FailureEffect DEF ClientInv, TypeOK, Phases
    <2>3. error' \in Retried \cup Fatal \cup {"none"}
      BY FailureEffect DEF ClientInv, TypeOK, Retried, Fatal
    <2>4. tries' \in 0..MaxTries
      BY BoundsAssumption DEF ClientInv, TypeOK, Counted
    <2>5. awaiting' \in [id : Nat, state : {"none", "waiting", "answer", "error"}]
      BY DEF NoRequest
    <2>6. QED
      BY <2>1, <2>2, <2>3, <2>4, <2>5 DEF ClientInv, TypeOK
  <1>2. RequestInv'
    BY FailureEffect DEF ClientInv, RequestInv, NoRequest, PhaseInv
  <1>3. PhaseInv'
    BY FailureEffect DEF ClientInv, PhaseInv, SubscribedWhileListening, FreshPasswordPerConnection
  <1>4. TriesInv'
    BY FailureEffect, AttemptsAssumption, BoundsAssumption
    DEF ClientInv, TypeOK, TriesInv, GivesUpOnlyAfterTrying, Exhausted, Counted
  <1>5. QED
    BY <1>1, <1>2, <1>3, <1>4 DEF ClientInv

-----------------------------------------------------------------------------
(* The steps, one lemma per group of actions *)

LEMMA ConnectingKeeps ==
  ASSUME ClientInv, ResolveUrl \/ Connect \/ ConnectFails \/ BackoffElapses
  PROVE  ClientInv'
  <1>1. CASE ResolveUrl
    <2>1. CASE \E e \in {"os_error", "timeout", "client_error"} : Raise(e)
      <3>1. PICK e \in Retried \cup Fatal : Raise(e)
        BY <2>1 DEF Retried, Fatal
      <3>2. url' \in {"none", "public", "fresh", "used"}
        BY <1>1 DEF ResolveUrl, ResolvedUrl, ClientInv, TypeOK
      <3>3. QED
        BY <1>1, <3>1, <3>2, FailureKeeps DEF ResolveUrl, requestVars, ClientInv, RequestInv, TypeOK
    <2>2. CASE UNCHANGED <<stage, error, ws, attempt>> /\ url' = ResolvedUrl /\ phase' = "connecting"
      <3>1. TypeOK'
        BY <1>1, <2>2, BoundsAssumption
        DEF ResolveUrl, ResolvedUrl, requestVars, ClientInv, TypeOK, Phases, Counted, Connections, Messages
      <3>2. RequestInv'
        BY <1>1, <2>2 DEF ResolveUrl, requestVars, ClientInv, RequestInv
      <3>3. PhaseInv'
        BY <1>1, <2>2 DEF ResolvedUrl, ClientInv, PhaseInv, SubscribedWhileListening, FreshPasswordPerConnection
      <3>4. TriesInv'
        BY <1>1, <2>2, BoundsAssumption
        DEF ResolveUrl, Counted, ClientInv, TypeOK, TriesInv, GivesUpOnlyAfterTrying
      <3>5. QED
        BY <3>1, <3>2, <3>3, <3>4 DEF ClientInv
    <2>3. QED
      BY <1>1, <2>1, <2>2 DEF ResolveUrl
  <1>2. CASE Connect
    <2>1. TypeOK'
      <3>1. url' \in {"none", "public", "fresh", "used"} /\ attempt' \in Nat
        BY <1>2 DEF Connect, ConsumedUrl, AttemptAfterConnect, ClientInv, TypeOK
      <3>2. tries' \in 0..MaxTries
        BY <1>2, BoundsAssumption DEF Connect, ClientInv, TypeOK
      <3>3. ws' \in Connections /\ phase' \in Phases /\ listener' \in {"none", "reading", "closed", "dropped"}
        BY <1>2, ConnectionTypes DEF Connect, Phases, ClientInv, TypeOK
      <3>4. QED
        BY <1>2, <3>1, <3>2, <3>3 DEF Connect, requestVars, ClientInv, TypeOK
    <2>2. RequestInv'
      BY <1>2 DEF Connect, requestVars, ClientInv, RequestInv, NoRequest
    <2>3. PhaseInv'
      <3>1. Tickless(NewConnection)
        BY DEF Tickless, NewConnection, NoConnection
      <3>2. QED
        BY <1>2, <3>1 DEF Connect, ClientInv, PhaseInv, SubscribedWhileListening, FreshPasswordPerConnection
    <2>4. TriesInv'
      BY <1>2 DEF Connect, AttemptAfterConnect, ClientInv, TypeOK, TriesInv, GivesUpOnlyAfterTrying
    <2>5. QED
      BY <2>1, <2>2, <2>3, <2>4 DEF ClientInv
  <1>3. CASE ConnectFails
    <2>1. PICK e \in Retried \cup Fatal : Raise(e)
      BY <1>3 DEF ConnectFails, Retried, Fatal
    <2>2. url' \in {"none", "public", "fresh", "used"}
      BY <1>3 DEF ConnectFails, ConsumedUrl, ClientInv, TypeOK
    <2>3. QED
      BY <1>3, <2>1, <2>2, FailureKeeps
      DEF ConnectFails, requestVars, ClientInv, RequestInv, TypeOK
  <1>4. CASE BackoffElapses
    <2>1. TypeOK'
      BY <1>4 DEF BackoffElapses, requestVars, ClientInv, TypeOK, Phases, Connections, Messages
    <2>2. RequestInv' /\ PhaseInv' /\ TriesInv'
      BY <1>4 DEF BackoffElapses, requestVars, ClientInv, RequestInv, PhaseInv, TriesInv,
                  SubscribedWhileListening, FreshPasswordPerConnection, GivesUpOnlyAfterTrying
    <2>3. QED
      BY <2>1, <2>2 DEF ClientInv
  <1>5. QED
    BY <1>1, <1>2, <1>3, <1>4

LEMMA RequestsKeep ==
  ASSUME ClientInv, SendRequest \/ RequestTimesOut \/ RequestReturns \/ FinishBootstrap
  PROVE  ClientInv'
  <1> USE DEF requestVars, callVars
  <1>1. CASE SendRequest
    <2>1. phase \in {"requesting", "handling"} /\ awaiting = NoRequest
      BY <1>1 DEF SendRequest, MayRequest
    <2>2. reqCounter' = reqCounter + 1 /\ pending' = pending \cup {reqCounter + 1}
      BY <1>1 DEF SendRequest
    <2>3. /\ pending' \subseteq 1..reqCounter' /\ reqCounter' \in Nat
          /\ calls' \in 0..HandlerRequests
      BY <1>1, <2>2 DEF SendRequest, MayRequest, HandlerRequests, ClientInv, TypeOK
    <2>4. CASE stage = "bootstrap" /\ ~IsOpen
      <3>1. PICK e \in Retried \cup Fatal : Raise(e)
        BY <1>1, <2>4 DEF SendRequest, RequestFails, Retried
      <3>2. QED
        BY <1>1, <2>1, <2>2, <2>3, <2>4, <3>1, FailureKeeps
        DEF SendRequest, ClientInv, TypeOK
    <2>5. CASE stage = "stream" /\ ~IsOpen
      <3>1. UNCHANGED <<stage, phase, error, url, ws, listener, toFetch, awaiting, attempt, tries>>
        BY <1>1, <2>5 DEF SendRequest, RequestFails
      <3>2. TypeOK'
        BY <2>3, <3>1 DEF ClientInv, TypeOK, Connections, Messages
      <3>3. RequestInv' /\ PhaseInv' /\ TriesInv'
        BY <2>1, <2>5, <3>1 DEF ClientInv, RequestInv, PhaseInv, TriesInv, NoRequest,
             SubscribedWhileListening, FreshPasswordPerConnection, GivesUpOnlyAfterTrying
      <3>4. QED
        BY <3>2, <3>3 DEF ClientInv
    <2>6. CASE IsOpen
      <3>1. /\ UNCHANGED <<stage, phase, error, url, listener, toFetch, attempt, tries>>
            /\ ws' = [ws EXCEPT !.asked = @ \cup {reqCounter + 1}]
            /\ awaiting' = [id |-> reqCounter + 1, state |-> "waiting"]
        BY <1>1, <2>6 DEF SendRequest
      <3>2. TypeOK'
        BY <2>3, <2>2, <3>1 DEF ClientInv, TypeOK, Connections, Messages
      <3>3. RequestInv'
        BY <2>1, <2>2, <3>1 DEF ClientInv, RequestInv, NoRequest
      <3>4. PhaseInv' /\ TriesInv'
        BY <3>1 DEF ClientInv, TypeOK, Connections, PhaseInv, TriesInv, Tickless,
             SubscribedWhileListening, FreshPasswordPerConnection, GivesUpOnlyAfterTrying
      <3>5. QED
        BY <3>2, <3>3, <3>4 DEF ClientInv
    <2>7. QED
      BY <2>4, <2>5, <2>6 DEF ClientInv, TypeOK
  <1>2. CASE RequestTimesOut \/ RequestReturns
    <2>1. /\ awaiting' = NoRequest
          /\ UNCHANGED <<url, listener, reqCounter, pending, calls, tries>>
          /\ toFetch' \subseteq toFetch
      BY <1>2 DEF RequestTimesOut, RequestReturns
    <2>2. PICK e \in Retried \cup Fatal :
             RequestFails(e) \/ (awaiting.state = "answer" /\ UNCHANGED <<callVars, ws, attempt>>)
      BY <1>2 DEF RequestTimesOut, RequestReturns, Retried, Fatal
    <2>3. awaiting.state # "none"
      BY <1>2 DEF RequestTimesOut, RequestReturns
    <2>4. phase \in {"requesting", "handling"}
      BY <2>3 DEF ClientInv, RequestInv, NoRequest
    <2>5. CASE stage = "bootstrap" /\ RequestFails(e)
      <3>1. PICK x \in Retried \cup Fatal : Raise(x)
        BY <2>5 DEF RequestFails, Retried
      <3>2. QED
        BY <2>1, <2>4, <3>1, FailureKeeps DEF ClientInv, TypeOK
    <2>6. CASE UNCHANGED <<stage, phase, error, ws, attempt>>
      <3>1. stage = "bootstrap" => awaiting.state = "answer"
        <4>1. ASSUME stage = "bootstrap", NEW x, RequestFails(x)
              PROVE  FALSE
          <5>1. PICK y : Raise(y)
            BY <4>1 DEF RequestFails
          <5>2. phase' \in {"failed", "ended", "backoff"}
            BY <5>1, FailureEffect
          <5>3. QED
            BY <2>4, <2>6, <5>2
        <4>2. QED
          BY <1>2, <4>1 DEF RequestTimesOut, RequestReturns
      <3>2. TypeOK'
        BY <2>1, <2>6 DEF ClientInv, TypeOK, NoRequest, Connections, Messages
      <3>3. RequestInv'
        BY <2>1, <2>3, <2>6, <3>1 DEF ClientInv, RequestInv, NoRequest
      <3>4. PhaseInv' /\ TriesInv'
        BY <2>1, <2>6 DEF ClientInv, PhaseInv, TriesInv,
             SubscribedWhileListening, FreshPasswordPerConnection, GivesUpOnlyAfterTrying
      <3>5. QED
        BY <3>2, <3>3, <3>4 DEF ClientInv
    <2>7. QED
      BY <2>2, <2>5, <2>6 DEF RequestFails
  <1>3. CASE FinishBootstrap
    <2>1. /\ phase = "requesting" /\ stage = "bootstrap" /\ awaiting = NoRequest
          /\ UNCHANGED <<url, toFetch, reqCounter, pending, awaiting, calls, tries>>
          /\ listener' = "none"
      BY <1>3 DEF FinishBootstrap, ClientInv, PhaseInv
    <2>2. CASE Raise("closed")
      <3>1. "closed" \in Retried \cup Fatal
        BY DEF Retried
      <3>2. QED
        BY <2>1, <2>2, <3>1, FailureKeeps DEF ClientInv, TypeOK
    <2>3. CASE stage' = "stream" /\ phase' = "resolving" /\ ws' = NoConnection
               /\ UNCHANGED <<error, attempt>>
      <3>1. TypeOK'
        BY <2>1, <2>3, ConnectionTypes DEF ClientInv, TypeOK, Phases, Connections, Messages
      <3>2. RequestInv'
        BY <2>1, <2>3 DEF ClientInv, RequestInv, NoRequest
      <3>3. PhaseInv' /\ TriesInv'
        BY <2>1, <2>3 DEF ClientInv, TypeOK, PhaseInv, TriesInv,
             SubscribedWhileListening, FreshPasswordPerConnection, GivesUpOnlyAfterTrying
      <3>4. QED
        BY <3>1, <3>2, <3>3 DEF ClientInv
    <2>4. QED
      BY <1>3, <2>2, <2>3 DEF FinishBootstrap
  <1>4. QED
    BY <1>1, <1>2, <1>3

LEMMA StreamingKeeps ==
  ASSUME ClientInv, SubscribeTicks \/ StartListening \/ HandlerReturns \/ HandlerRaises
  PROVE  ClientInv'
  <1> USE DEF requestVars, callVars
  <1>1. CASE SubscribeTicks
    <2>1. /\ phase = "subscribing" /\ awaiting = NoRequest
          /\ reqCounter' \in {reqCounter, reqCounter + 1}
          /\ UNCHANGED <<url, listener, toFetch, pending, awaiting, calls, tries>>
      BY <1>1 DEF SubscribeTicks, ClientInv, RequestInv
    <2>2. reqCounter' \in Nat /\ pending' \subseteq 1..reqCounter'
      BY <2>1 DEF ClientInv, TypeOK
    <2>3. CASE Raise("closed")
      <3>1. "closed" \in Retried \cup Fatal
        BY DEF Retried
      <3>2. QED
        BY <2>1, <2>2, <2>3, <3>1, FailureKeeps DEF ClientInv, TypeOK
    <2>4. CASE UNCHANGED <<stage, phase, error, attempt>>
               /\ \E s \in ToSubscribe : ws' = [ws EXCEPT !.subscribed = @ \cup {s}]
      <3>1. TypeOK'
        BY <2>1, <2>2, <2>4 DEF ToSubscribe, ClientInv, TypeOK, Connections, Messages
      <3>2. RequestInv' /\ PhaseInv' /\ TriesInv'
        BY <2>1, <2>4 DEF ClientInv, RequestInv, PhaseInv, TriesInv,
             SubscribedWhileListening, FreshPasswordPerConnection, GivesUpOnlyAfterTrying
      <3>3. QED
        BY <3>1, <3>2 DEF ClientInv
    <2>5. QED
      BY <1>1, <2>3, <2>4 DEF SubscribeTicks
  <1>2. CASE StartListening \/ HandlerReturns
    <2>1. /\ UNCHANGED <<stage, error, url, ws, listener, toFetch, reqCounter, pending, awaiting,
                         attempt, calls, tries>>
          /\ phase' = "listening"
          /\ phase \in {"subscribing", "handling"} /\ awaiting = NoRequest
      BY <1>2 DEF StartListening, HandlerReturns, ClientInv, RequestInv
    <2>2. ws.subscribed = Symbols
      BY <1>2 DEF StartListening, HandlerReturns, ToSubscribe, ClientInv, TypeOK, Connections,
                  PhaseInv, SubscribedWhileListening
    <2>3. TypeOK'
      BY <2>1 DEF ClientInv, TypeOK, Phases, Connections, Messages
    <2>4. RequestInv' /\ PhaseInv' /\ TriesInv'
      BY <2>1, <2>2 DEF ClientInv, RequestInv, PhaseInv, TriesInv, NoRequest,
           SubscribedWhileListening, FreshPasswordPerConnection, GivesUpOnlyAfterTrying
    <2>5. QED
      BY <2>3, <2>4 DEF ClientInv
  <1>3. CASE HandlerRaises
    <2>1. PICK e \in Retried \cup Fatal : Raise(e)
      BY <1>3 DEF HandlerRaises, Retried, Fatal
    <2>2. QED
      BY <1>3, <2>1, FailureKeeps DEF HandlerRaises, ClientInv, TypeOK
  <1>4. QED
    BY <1>1, <1>2, <1>3

LEMMA ReadingKeeps ==
  ASSUME ClientInv, ReadMessage \/ ListenEnds
  PROVE  ClientInv'
  <1> USE DEF requestVars, callVars
  <1>1. CASE ReadMessage
    <2>1. /\ Reading /\ ws.inbox # <<>>
          /\ UNCHANGED <<url, listener, toFetch, reqCounter, tries>>
          /\ calls' \in 0..HandlerRequests
      BY <1>1 DEF ReadMessage, HandlerRequests, ClientInv, TypeOK
    <2> DEFINE m == Head(ws.inbox)
    <2>2. m \in Messages /\ Tail(ws.inbox) \in Seq(Messages)
      BY <2>1, HeadTailProperties DEF ClientInv, TypeOK, Connections
    <2>3. [ws EXCEPT !.inbox = Tail(@)] \in Connections
      BY <2>2 DEF ClientInv, TypeOK, Connections
    <2>4. phase \in {"listening", "requesting"}
      BY <2>1 DEF Reading
    <2>10. Tickless(ws) => Tickless([ws EXCEPT !.inbox = Tail(@)])
      <3>1. /\ Len(Tail(ws.inbox)) = Len(ws.inbox) - 1
            /\ \A i \in 1..Len(Tail(ws.inbox)) : Tail(ws.inbox)[i] = ws.inbox[i + 1]
            /\ Len(ws.inbox) \in Nat
        BY <2>1, HeadTailProperties DEF ClientInv, TypeOK, Connections
      <3>2. QED
        BY <3>1 DEF Tickless, ClientInv, TypeOK, Connections
    <2>5. CASE /\ m.type = "tick"
               /\ ws' = [ws EXCEPT !.inbox = Tail(@)]
               /\ phase' = "handling"
               /\ UNCHANGED <<stage, error, pending, awaiting, attempt>>
      <3>1. TypeOK'
        BY <2>1, <2>3, <2>5 DEF ClientInv, TypeOK, Phases, Connections, Messages
      <3>2. phase = "listening"
        <4>1. m = ws.inbox[1] /\ 1 \in 1..Len(ws.inbox)
          BY <2>1, EmptySeq DEF ClientInv, TypeOK, Connections
        <4>2. QED
          BY <2>4, <2>5, <4>1 DEF ClientInv, PhaseInv, Tickless
      <3>3. RequestInv' /\ PhaseInv' /\ TriesInv'
        BY <2>1, <2>5, <3>2 DEF ClientInv, TypeOK, Connections, RequestInv, PhaseInv, TriesInv, NoRequest,
             SubscribedWhileListening, FreshPasswordPerConnection, GivesUpOnlyAfterTrying
      <3>4. QED
        BY <3>1, <3>3 DEF ClientInv
    <2>6. CASE /\ m.id \notin pending
               /\ ws' = [ws EXCEPT !.inbox = Tail(@)]
               /\ UNCHANGED <<callVars, pending, awaiting, attempt>>
      <3>1. TypeOK'
        BY <2>1, <2>3, <2>6 DEF ClientInv, TypeOK, Connections, Messages
      <3>2. RequestInv' /\ PhaseInv' /\ TriesInv'
        BY <2>1, <2>3, <2>6, <2>10 DEF ClientInv, TypeOK, Connections, RequestInv, PhaseInv, TriesInv,
             SubscribedWhileListening, FreshPasswordPerConnection, GivesUpOnlyAfterTrying
      <3>3. QED
        BY <3>1, <3>2 DEF ClientInv
    <2>7. CASE /\ m.type # "tick" /\ m.id \in pending /\ m.id = awaiting.id
               /\ pending' = pending \ {m.id}
               /\ awaiting' = [awaiting EXCEPT !.state = m.type]
               /\ ws' = [ws EXCEPT !.inbox = Tail(@)]
               /\ UNCHANGED <<callVars, attempt>>
      <3>1. m.type \in {"answer", "error"}
        BY <2>2, <2>7 DEF Messages
      <3>2. awaiting.state # "none"
        BY <2>7 DEF ClientInv, TypeOK, RequestInv, NoRequest
      <3>3. stage = "bootstrap" /\ phase = "requesting"
        BY <2>4, <3>2 DEF ClientInv, RequestInv, PhaseInv, NoRequest
      <3>4. TypeOK'
        BY <2>1, <2>3, <2>7, <3>1 DEF ClientInv, TypeOK, Connections, Messages
      <3>5. RequestInv'
        BY <2>7, <3>1, <3>2, <3>3 DEF ClientInv, TypeOK, RequestInv, NoRequest
      <3>6. PhaseInv' /\ TriesInv'
        BY <2>1, <2>3, <2>7, <2>10, <3>3 DEF ClientInv, PhaseInv, TriesInv,
             SubscribedWhileListening, FreshPasswordPerConnection, GivesUpOnlyAfterTrying
      <3>7. QED
        BY <3>4, <3>5, <3>6 DEF ClientInv
    <2>8. CASE /\ m.id \in pending /\ m.id # awaiting.id
               /\ pending' = pending \ {m.id}
               /\ Raise("invalid_state") /\ UNCHANGED awaiting
      <3>1. phase = "listening"
        BY <2>4, <2>8 DEF ClientInv, RequestInv, PhaseInv
      <3>2. "invalid_state" \in Retried \cup Fatal
        BY DEF Fatal
      <3>3. awaiting' = NoRequest
        BY <2>8, <3>1 DEF ClientInv, RequestInv
      <3>4. /\ url' \in {"none", "public", "fresh", "used"}
            /\ listener' \in {"none", "reading", "closed", "dropped"}
            /\ toFetch' \subseteq Symbols
        BY <2>1 DEF ClientInv, TypeOK
      <3>7. /\ reqCounter' \in Nat /\ reqCounter' >= reqCounter
            /\ pending' \subseteq 1..reqCounter'
        <4>1. reqCounter' = reqCounter /\ pending' \subseteq pending
          BY <2>1, <2>8
        <4>2. reqCounter \in Nat /\ pending \subseteq 1..reqCounter
          BY DEF ClientInv, TypeOK
        <4>3. QED
          BY <4>1, <4>2
      <3>5. /\ phase \notin {"backoff", "ended", "failed"}
            /\ tries' = IF phase = "resolving" THEN Counted(tries) ELSE tries
            /\ calls' \in 0..HandlerRequests
        BY <2>1, <2>8, <3>1 DEF ClientInv, TypeOK
      <3>6. QED
        BY <2>8, <3>2, <3>3, <3>4, <3>5, <3>7, FailureKeeps
    <2>9. QED
      BY <1>1, <2>5, <2>6, <2>7, <2>8 DEF ReadMessage, ResolvePending
  <1>2. CASE ListenEnds
    <2>1. /\ Reading
          /\ UNCHANGED <<url, toFetch, reqCounter, pending, awaiting, calls, tries>>
      BY <1>2 DEF ListenEnds
    <2>2. phase \in {"listening", "requesting"}
      BY <2>1 DEF Reading
    <2>3. CASE stage = "bootstrap" /\ listener' = ws.link /\ UNCHANGED <<callVars, ws, attempt>>
      <3>1. listener' \in {"none", "reading", "closed", "dropped"}
        BY <1>2, <2>3 DEF ListenEnds, IsOpen, ClientInv, TypeOK, Connections
      <3>2. TypeOK'
        BY <2>1, <2>3, <3>1 DEF ClientInv, TypeOK, Connections, Messages
      <3>3. RequestInv' /\ PhaseInv' /\ TriesInv'
        BY <2>1, <2>3 DEF ClientInv, RequestInv, PhaseInv, TriesInv,
             SubscribedWhileListening, FreshPasswordPerConnection, GivesUpOnlyAfterTrying
      <3>4. QED
        BY <3>2, <3>3 DEF ClientInv
    <2>4. CASE stage = "stream" /\ Raise("closed") /\ UNCHANGED listener
      <3>1. "closed" \in Retried \cup Fatal /\ phase = "listening"
        BY <2>2, <2>4 DEF Retried, ClientInv, PhaseInv
      <3>2. QED
        BY <2>1, <2>4, <3>1, FailureKeeps DEF ClientInv, TypeOK, RequestInv
    <2>5. CASE /\ stage = "stream" /\ ws' = NoConnection /\ phase' = "resolving"
               /\ UNCHANGED <<stage, error, listener, attempt>>
      <3>1. phase = "listening"
        BY <2>2, <2>5 DEF ClientInv, PhaseInv
      <3>2. TypeOK'
        BY <2>1, <2>5, ConnectionTypes DEF ClientInv, TypeOK, Phases, Connections, Messages
      <3>3. RequestInv' /\ PhaseInv' /\ TriesInv'
        BY <2>1, <2>5, <3>1 DEF ClientInv, TypeOK, RequestInv, PhaseInv, TriesInv,
             SubscribedWhileListening, FreshPasswordPerConnection, GivesUpOnlyAfterTrying
      <3>4. QED
        BY <3>2, <3>3 DEF ClientInv
    <2>6. QED
      BY <1>2, <2>3, <2>4, <2>5 DEF ListenEnds
  <1>3. QED
    BY <1>1, <1>2

LEMMA NetworkKeeps ==
  ASSUME ClientInv, BrokerSends \/ ConnectionLost \/ Terminated
  PROVE  ClientInv'
  <1> USE DEF requestVars, callVars
  <1>1. UNCHANGED <<stage, phase, error, url, listener, toFetch, reqCounter, pending, awaiting,
                    attempt, calls, tries>>
    BY DEF BrokerSends, ConnectionLost, Terminated, vars
  <1>2. /\ ws' \in Connections /\ ws'.subscribed = ws.subscribed
        /\ Tickless(ws) => Tickless(ws')
    <2>1. CASE BrokerSends
      <3>1. PICK m \in Messages : Deliver(m) /\ (ws.subscribed = {} => m.type # "tick")
        BY <2>1 DEF BrokerSends, Replies, Tick, SubscriptionError, Messages, ClientInv, TypeOK, Connections
      <3>2. Append(ws.inbox, m) \in Seq(Messages)
        BY <3>1, AppendProperties DEF ClientInv, TypeOK, Connections
      <3>3. /\ ws' \in Connections /\ ws'.subscribed = ws.subscribed
            /\ ws'.inbox = Append(ws.inbox, m)
        BY <3>1, <3>2 DEF Deliver, ClientInv, TypeOK, Connections
      <3>4. /\ Len(ws'.inbox) = Len(ws.inbox) + 1 /\ Len(ws.inbox) \in Nat
            /\ \A i \in 1..Len(ws.inbox) : ws'.inbox[i] = ws.inbox[i]
            /\ ws'.inbox[Len(ws.inbox) + 1] = m
        BY <3>3, AppendProperties DEF ClientInv, TypeOK, Connections
      <3>5. QED
        BY <3>1, <3>3, <3>4 DEF Tickless
    <2>2. CASE ConnectionLost
      BY <2>2 DEF ConnectionLost, ClientInv, TypeOK, Connections, Tickless
    <2>3. CASE Terminated
      BY <2>3 DEF Terminated, vars, ClientInv, TypeOK, Tickless
    <2>4. QED
      BY <2>1, <2>2, <2>3
  <1>3. TypeOK'
    BY <1>1, <1>2 DEF ClientInv, TypeOK, Connections, Messages
  <1>4. RequestInv' /\ PhaseInv' /\ TriesInv'
    BY <1>1, <1>2 DEF ClientInv, RequestInv, PhaseInv, TriesInv,
         SubscribedWhileListening, FreshPasswordPerConnection, GivesUpOnlyAfterTrying
  <1>5. QED
    BY <1>3, <1>4 DEF ClientInv

-----------------------------------------------------------------------------
(* The invariant *)

LEMMA ClientInvInit == Init => ClientInv
  <1> SUFFICES ASSUME Init PROVE ClientInv
    OBVIOUS
  <1>1. TypeOK
    BY ConnectionTypes, BoundsAssumption DEF Init, TypeOK, Phases, NoRequest, HandlerRequests
  <1>2. RequestInv /\ PhaseInv /\ TriesInv
    BY DEF Init, RequestInv, PhaseInv, TriesInv, NoRequest,
           SubscribedWhileListening, FreshPasswordPerConnection, GivesUpOnlyAfterTrying
  <1>3. QED
    BY <1>1, <1>2 DEF ClientInv

LEMMA ClientInvStep == ClientInv /\ [Next]_vars => ClientInv'
  <1> SUFFICES ASSUME ClientInv, [Next]_vars PROVE ClientInv'
    OBVIOUS
  <1>1. CASE ClientStep
    BY <1>1, ConnectingKeeps, RequestsKeep, StreamingKeeps, ReadingKeeps DEF ClientStep
  <1>2. CASE BrokerSends \/ ConnectionLost \/ Terminated
    BY <1>2, NetworkKeeps
  <1>3. CASE UNCHANGED vars
    BY <1>3 DEF vars, requestVars, callVars, ClientInv, TypeOK, Connections, Messages,
         RequestInv, PhaseInv, TriesInv,
         SubscribedWhileListening, FreshPasswordPerConnection, GivesUpOnlyAfterTrying
  <1>4. QED
    BY <1>1, <1>2, <1>3 DEF Next

LEMMA ClientInvariant == Spec => []ClientInv
  BY ClientInvInit, ClientInvStep, PTL DEF Spec

-----------------------------------------------------------------------------
(* The theorems *)

\* Every variable of the client always holds a value of its kind, and an id
\* of _req_id_counter is given out once.
THEOREM ClientTypeCorrect == Spec => []TypeOK
  <1>1. ClientInv => TypeOK
    BY DEF ClientInv
  <1>2. QED
    BY <1>1, ClientInvariant, PTL

\* Whatever drops and however often run_forever reconnects, the connection it
\* listens on has been asked for the ticks of every configured symbol.
THEOREM AlwaysSubscribedWhileListening == Spec => []SubscribedWhileListening
  <1>1. ClientInv => SubscribedWhileListening
    BY DEF ClientInv, PhaseInv
  <1>2. QED
    BY <1>1, ClientInvariant, PTL

\* bootstrap_history and run_forever never try a one-time password twice.
THEOREM PasswordsAlwaysFresh == Spec => []FreshPasswordPerConnection
  <1>1. ClientInv => FreshPasswordPerConnection
    BY DEF ClientInv, PhaseInv
  <1>2. QED
    BY <1>1, ClientInvariant, PTL

\* run_forever returns only when max_reconnect_attempts is set and it has
\* tried that often since the last connection that opened.
THEOREM NeverGivesUpEarly == Spec => []GivesUpOnlyAfterTrying
  <1>1. ClientInv => GivesUpOnlyAfterTrying
    BY DEF ClientInv, TriesInv
  <1>2. QED
    BY <1>1, ClientInvariant, PTL

\* run_forever starts when bootstrap_history has every symbol's history and
\* has closed its connection, and _pending is empty: no answer to a request
\* of the bootstrap can be taken for one of the stream's.
THEOREM StreamAlwaysStartsClean == Spec => StreamStartsClean
  <1>1. ASSUME ClientInv, Next, stage = "bootstrap", stage' = "stream"
        PROVE  toFetch = {} /\ pending = {} /\ awaiting = NoRequest /\ ws' = NoConnection
    <2>1. \A e : ~Raise(e)
      BY <1>1, FailureEffect
    <2>2. FinishBootstrap
      BY <1>1, <2>1
      DEF Next, ClientStep, ResolveUrl, Connect, ConnectFails, BackoffElapses, SendRequest,
          RequestTimesOut, RequestReturns, RequestFails, SubscribeTicks, StartListening,
          ReadMessage, ResolvePending, HandlerReturns, HandlerRaises, ListenEnds,
          BrokerSends, ConnectionLost, Terminated, callVars, vars
    <2>3. QED
      BY <1>1, <2>1, <2>2 DEF FinishBootstrap, FetchedAll, NoRequest, ClientInv, RequestInv
  <1>2. ClientInv /\ [Next]_vars
          => [stage = "bootstrap" /\ stage' = "stream"
                => /\ toFetch = {} /\ pending = {} /\ awaiting = NoRequest
                   /\ ws' = NoConnection]_vars
    BY <1>1
  <1>3. QED
    BY <1>2, ClientInvariant, PTL DEF Spec, StreamStartsClean

=============================================================================
