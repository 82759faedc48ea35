---------------------------- MODULE SocketWorker ----------------------------
(***************************************************************************)
(* The web client's Socket.IO connection: the bridge on the main thread,   *)
(* which turns acknowledgements into promises, the worker that owns the    *)
(* socket and holds back message:send while it is not connected, the two   *)
(* postMessage channels between them, and the connection itself.           *)
(***************************************************************************)
EXTENDS Naturals, SequencesExt

CONSTANTS
    Requests,   \* calls of the bridge, numbered in the order they are made
    Sends,      \* those that are sendMessage; the others fail fast
    MaxConnects,\* bound on bridge.connect calls
    MaxFaults   \* bound on lost connections and failed attempts

ASSUME WorkerAssumption ==
    /\ Requests \subseteq Nat /\ Sends \subseteq Requests
    /\ MaxConnects \in Nat \ {0} /\ MaxFaults \in Nat

VARIABLES
    toWorker, toMain,   \* postMessage channels
    pending,    \* requests whose promise is open
    outcome,    \* what a promise was settled with
    status,     \* PresenceConnectionStatus
    session,    \* the provider's effect: active, or over (disconnect, terminate)
    socket,     \* none, connecting, connected, retrying
    queue,      \* pendingMessageSendQueue
    emitted,    \* requests emitted to the server, in order
    unacked,    \* emitted on this connection, no acknowledgement yet
    deaf,       \* history: emitted, and not heard or the connection went first
    connects, faults

mainVars == <<pending, outcome, status, session>>
bounds == <<connects, faults>>
vars == <<toWorker, toMain, mainVars, socket, queue, emitted, unacked, deaf, bounds>>

NoRequest == 0
Call(r) == [type |-> "request", req |-> r, ack |-> "none"]
Ack(r, a) == [type |-> "ack", req |-> r, ack |-> a]
Signal(t) == [type |-> t, req |-> NoRequest, ack |-> "none"]

\* What the bridge posts to the worker, and the worker to the bridge.
MainToWorkerMessage == [type : {"connect", "disconnect"}, req : {NoRequest}, ack : {"none"}]
            \cup [type : {"request"}, req : Requests, ack : {"none"}]
WorkerToMainMessage == [type : {"connecting", "connected", "disconnected", "error"}, req : {NoRequest}, ack : {"none"}]
          \cup [type : {"ack"}, req : Requests, ack : {"answer", "unavailable"}]

TypeOK ==
    /\ toWorker \in Seq(MainToWorkerMessage) /\ toMain \in Seq(WorkerToMainMessage)
    /\ pending \subseteq Requests
    /\ outcome \in [Requests -> {"none", "answer", "unavailable"}]
    /\ status \in {"connecting", "connected", "disconnected", "error"}
    /\ session \in {"active", "over", "terminated"}
    /\ socket \in {"none", "connecting", "connected", "retrying"}
    /\ queue \in Seq(Sends) /\ emitted \in Seq(Requests)
    /\ unacked \subseteq Requests /\ deaf \subseteq Requests
    /\ connects \in 1..MaxConnects /\ faults \in 0..MaxFaults

\* SocketWorkerProvider: applyPresenceStatus(connecting), bridge.connect(...).
Init ==
    /\ toWorker = <<Signal("connect")>> /\ toMain = <<>>
    /\ pending = {} /\ outcome = [r \in Requests |-> "none"]
    /\ status = "connecting" /\ session = "active"
    /\ socket = "none" /\ queue = <<>> /\ emitted = <<>>
    /\ unacked = {} /\ deaf = {}
    /\ connects = 1 /\ faults = 0

-----------------------------------------------------------------------------
(* The main thread.                                                        *)

Asked == {r \in Requests : outcome[r] # "none"} \cup pending

Request(r) ==
    /\ session = "active"
    /\ r \notin Asked /\ \A q \in Requests : q < r => q \in Asked
    /\ pending' = pending \cup {r}
    /\ toWorker' = Append(toWorker, Call(r))
    /\ UNCHANGED <<toMain, outcome, status, session, socket, queue, emitted, unacked, deaf, bounds>>

ConnectAgain ==
    /\ session = "active" /\ connects < MaxConnects
    /\ connects' = connects + 1
    /\ toWorker' = Append(toWorker, Signal("connect"))
    /\ UNCHANGED <<toMain, mainVars, socket, queue, emitted, unacked, deaf, faults>>

\* bridge.disconnect(); bridge.terminate(): the promises stay open for ever, and
\* the worker may or may not get to the message before it is stopped.
SignOut ==
    /\ session = "active"
    /\ session' = "over"
    /\ pending' = {}
    /\ toWorker' = Append(toWorker, Signal("disconnect"))
    /\ UNCHANGED <<toMain, outcome, status, socket, queue, emitted, unacked, deaf, bounds>>

Terminate ==
    /\ session = "over"
    /\ session' = "terminated"
    /\ toWorker' = <<>> /\ toMain' = <<>> /\ queue' = <<>>
    /\ socket' = "none" /\ unacked' = {} /\ deaf' = deaf \cup unacked
    /\ UNCHANGED <<pending, outcome, status, emitted, bounds>>

\* worker.onmessage: an acknowledgement nobody waits for is ignored.
OnMessage ==
    /\ session = "active" /\ toMain # <<>>
    /\ LET m == Head(toMain) IN
       IF m.type = "ack"
       THEN /\ pending' = pending \ {m.req}
            /\ outcome' = IF m.req \in pending THEN [outcome EXCEPT ![m.req] = m.ack] ELSE outcome
            /\ UNCHANGED status
       ELSE status' = m.type /\ UNCHANGED <<pending, outcome>>
    /\ toMain' = Tail(toMain)
    /\ UNCHANGED <<toWorker, session, socket, queue, emitted, unacked, deaf, bounds>>

-----------------------------------------------------------------------------
(* The worker.                                                             *)

post(ms) == toMain' = toMain \o ms
emit(rs) == emitted' = emitted \o rs /\ unacked' = unacked \cup Range(rs)
\* Acknowledgements still due are never called once the client is gone.
Abandon == unacked' = {} /\ deaf' = deaf \cup unacked

\* A client that is replaced posts disconnected, its own event being ignored.
Replaced == (IF socket = "none" THEN <<>> ELSE <<Signal("disconnected")>>) \o <<Signal("connecting")>>

connectSocket ==
    /\ post(Replaced)
    /\ socket' = "connecting"
    /\ Abandon
    /\ UNCHANGED <<queue, emitted>>

tryMessageSendOrQueue(r) ==
    /\ IF socket = "connected"
       THEN emit(<<r>>) /\ UNCHANGED queue
       ELSE queue' = Append(queue, r) /\ UNCHANGED <<emitted, unacked>>
    /\ UNCHANGED <<toMain, socket, deaf>>

\* receipt_emit, webrtc_emit, presence_get_last_seen.
emitOrRefuse(r) ==
    /\ IF socket = "connected"
       THEN emit(<<r>>) /\ UNCHANGED toMain
       ELSE post(<<Ack(r, "unavailable")>>) /\ UNCHANGED <<emitted, unacked>>
    /\ UNCHANGED <<socket, queue, deaf>>

disconnectSocket ==
    /\ post([i \in DOMAIN queue |-> Ack(queue[i], "unavailable")] \o <<Signal("disconnected")>>)
    /\ queue' = <<>> /\ socket' = "none"
    /\ Abandon
    /\ UNCHANGED emitted

HandleMessage ==
    /\ session # "terminated" /\ toWorker # <<>>
    /\ LET m == Head(toWorker) IN
       \/ m.type = "connect" /\ connectSocket
       \/ m.type = "disconnect" /\ disconnectSocket
       \/ m.type = "request" /\ m.req \in Sends /\ tryMessageSendOrQueue(m.req)
       \/ m.type = "request" /\ m.req \notin Sends /\ emitOrRefuse(m.req)
    /\ toWorker' = Tail(toWorker)
    /\ UNCHANGED <<mainVars, bounds>>

\* The timer of a queued send (30 s).  Time is not modelled: it may fire at once.
M_neverExpires(r) == FALSE
Expires(r) == r \in Range(queue)

M_keepQueued(r) == queue
Unqueued(r) == RemoveAt(queue, CHOOSE i \in DOMAIN queue : queue[i] = r)

Timeout(r) ==
    /\ Expires(r)
    /\ queue' = Unqueued(r)
    /\ post(<<Ack(r, "unavailable")>>)
    /\ UNCHANGED <<toWorker, mainVars, socket, emitted, unacked, deaf, bounds>>

\* connect: flushPendingMessageSends empties the queue in the order of arrival.
M_lastFirst == Reverse(queue)
Flushed == queue

Connected ==
    /\ socket \in {"connecting", "retrying"}
    /\ socket' = "connected"
    /\ post(<<Signal("connected")>>)
    /\ emit(Flushed) /\ queue' = <<>>
    /\ UNCHANGED <<toWorker, mainVars, deaf, bounds>>

\* The transport is lost (io.close() of a replica looks the same); Socket.IO
\* tries again by itself.
Lost ==
    /\ socket = "connected"
    /\ faults < MaxFaults /\ faults' = faults + 1
    /\ socket' = "retrying"
    /\ post(<<Signal("disconnected")>>)
    /\ Abandon
    /\ UNCHANGED <<toWorker, mainVars, queue, emitted, connects>>

\* reconnect_attempt, and an attempt that fails.
Attempt ==
    /\ socket = "retrying"
    /\ socket' = "connecting"
    /\ post(<<Signal("connecting")>>)
    /\ UNCHANGED <<toWorker, mainVars, queue, emitted, unacked, deaf, bounds>>

ConnectError ==
    /\ socket = "connecting"
    /\ faults < MaxFaults /\ faults' = faults + 1
    /\ socket' = "retrying"
    /\ post(<<Signal("error")>>)
    /\ UNCHANGED <<toWorker, mainVars, queue, emitted, unacked, deaf, connects>>

\* The server's acknowledgement, whatever it says.
Answer(r) ==
    /\ r \in unacked
    /\ unacked' = unacked \ {r}
    /\ post(<<Ack(r, "answer")>>)
    /\ UNCHANGED <<toWorker, mainVars, socket, queue, emitted, deaf, bounds>>

\* An event that reaches the server before the handlers of its connection are
\* registered is never answered (ArriveBeforeHandlers of MessagePipeline).
Unheard(r) ==
    /\ r \in unacked
    /\ unacked' = unacked \ {r} /\ deaf' = deaf \cup {r}
    /\ UNCHANGED <<toWorker, toMain, mainVars, socket, queue, emitted, bounds>>

Next ==
    \/ \E r \in Requests : Request(r) \/ Timeout(r) \/ Answer(r) \/ Unheard(r)
    \/ ConnectAgain \/ SignOut \/ Terminate \/ OnMessage \/ HandleMessage
    \/ Connected \/ Lost \/ Attempt \/ ConnectError

\* Event loops run, timers fire and the server answers what it heard
\* (EveryRequestEnds of MessagePipeline); no connection has to succeed.
Spec == /\ Init /\ [][Next]_vars
        /\ WF_vars(OnMessage) /\ WF_vars(HandleMessage)
        /\ \A r \in Requests : WF_vars(Timeout(r)) /\ WF_vars(Answer(r) \/ Unheard(r))

-----------------------------------------------------------------------------
(* Properties.                                                             *)

\* Messages go out in the order they were sent, each at most once, over any
\* number of reconnections: the queue and the direct path never overtake.
SentInOrder == \A i, j \in DOMAIN emitted : i < j => emitted[i] < emitted[j]

\* A request reported as unavailable was never emitted and never will be: to
\* send it again cannot produce it twice (the timer races the flush).
UnavailableNotSent ==
    \A r \in Requests :
        outcome[r] = "unavailable" \/ Ack(r, "unavailable") \in Range(toMain) => r \notin Range(emitted)

\* A promise is settled unless the session ends, or its event was not heard or
\* the connection was lost with the answer outstanding: only a queued send has a
\* timeout, an emitted event has none.
EveryRequestEnds ==
    \A r \in Requests : r \in pending ~> r \notin pending \/ r \in deaf
=============================================================================
