--------------------------- MODULE MessagePipeline ---------------------------
(***************************************************************************)
(* A direct message on its way through the messaging-service replicas: the *)
(* send handler stores it, publishes it to the topic exchange for the      *)
(* recipient and, as an echo, for the sender's other devices; the broker   *)
(* copies each entry to the queue of every replica; the consumer of a      *)
(* replica emits it to the local Socket.IO room user:<id> and acknowledges *)
(* it.  Replicas boot, shut down and crash, and lose their broker channel. *)
(*                                                                         *)
(* A message is identified with the request that sends it: every call of   *)
(* sendMessageForUser inserts a new document, there is no idempotency key. *)
(***************************************************************************)
EXTENDS Naturals, SequencesExt

CONSTANTS
    Nodes,      \* messaging-service replicas (MESSAGING_INSTANCE_ID)
    Users,
    Sockets,    \* Socket.IO connection ids; a reconnecting client gets a new one
    Requests,   \* calls of message:send and POST /messages
    Owner,      \* [Sockets -> Users]: who authenticates on a connection
    Author,     \* [Requests -> Users]
    Peer,       \* [Requests -> Users]: the other participant of the thread
    Origin,     \* [Requests -> Sockets \cup {None}]: None for POST /messages
    None,
    MaxFaults   \* bound on crashes, shutdowns and lost broker channels

ASSUME PipelineAssumption ==
    /\ None \notin Nodes \cup Sockets
    /\ Owner \in [Sockets -> Users]
    /\ Author \in [Requests -> Users]
    /\ Peer \in [Requests -> Users]
    /\ Origin \in [Requests -> Sockets \cup {None}]
    /\ \A r \in Requests : /\ Author[r] # Peer[r]
                           /\ Origin[r] # None => Owner[Origin[r]] = Author[r]
    /\ MaxFaults \in Nat

VARIABLES
    node,       \* life of a replica: down, booting, up, closing, draining
    channel,    \* has the replica an open AMQP channel (rabbitmq.ts: channel)
    wire,       \* what a replica published and the broker has not yet routed
    bound,      \* the replicas whose durable queue exists
    queue,      \* messaging.node.<id>, entries not handed to the consumer
    tasks,      \* deliveries whose handler awaits the sender lookup, unacknowledged
    sock,       \* off, auth (handshake being checked), joined, closed
    host,       \* the replica a connection is on
    inbox,      \* message:new events emitted to a connection, oldest first
    pc,         \* progress of a request's handler
    at,         \* the replica that handles a request
    messages,   \* the messages collection
    reply,      \* what the caller was told
    faults,
    owed,       \* history: messages routed to the user while s was in the room
    precedes    \* history: <<q, r>>: q was answered ok before r was received

procVars == <<node, channel>>
brokerVars == <<wire, bound, queue, tasks>>
sockVars == <<sock, host, inbox>>
sendVars == <<pc, at, messages, reply>>
vars == <<procVars, brokerVars, sockVars, sendVars, faults, owed, precedes>>

Running == {"accepted", "inserted", "announced"}
Entry == [msg : Requests, to : Users, skip : Sockets \cup {None}]

TypeOK ==
    /\ node \in [Nodes -> {"down", "booting", "up", "closing", "draining"}]
    /\ channel \in [Nodes -> BOOLEAN]
    /\ wire \in [Nodes -> Seq(Entry)]
    /\ bound \in SUBSET Nodes
    /\ queue \in [Nodes -> Seq(Entry)]
    /\ tasks \in [Nodes -> Seq(Entry)]
    /\ sock \in [Sockets -> {"off", "auth", "joined", "closed"}]
    /\ host \in [Sockets -> Nodes \cup {None}]
    /\ inbox \in [Sockets -> Seq(Requests)]
    /\ pc \in [Requests -> {"new", "unheard", "done", "dead"} \cup Running]
    /\ at \in [Requests -> Nodes \cup {None}]
    /\ messages \in SUBSET Requests
    /\ reply \in [Requests -> {"none", "ok", "error"}]
    /\ faults \in 0..MaxFaults
    /\ owed \in [Sockets -> SUBSET Requests]
    /\ precedes \in SUBSET (Requests \X Requests)

Init ==
    /\ node = [n \in Nodes |-> "down"]
    /\ channel = [n \in Nodes |-> FALSE]
    /\ wire = [n \in Nodes |-> <<>>]
    /\ bound = {}
    /\ queue = [n \in Nodes |-> <<>>]
    /\ tasks = [n \in Nodes |-> <<>>]
    /\ sock = [s \in Sockets |-> "off"]
    /\ host = [s \in Sockets |-> None]
    /\ inbox = [s \in Sockets |-> <<>>]
    /\ pc = [r \in Requests |-> "new"]
    /\ at = [r \in Requests |-> None]
    /\ messages = {}
    /\ reply = [r \in Requests |-> "none"]
    /\ faults = 0
    /\ owed = [s \in Sockets |-> {}]
    /\ precedes = {}

Live(s) == sock[s] \in {"auth", "joined"}
Fault == faults < MaxFaults /\ faults' = faults + 1

-----------------------------------------------------------------------------
(* The send handler.                                                       *)

\* POST /messages may reach any replica that listens; a socket event reaches
\* the replica of the socket, once its handlers are registered.
Hears(n, r) ==
    IF Origin[r] = None
    THEN node[n] = "up"
    ELSE sock[Origin[r]] = "joined" /\ host[Origin[r]] = n

Receive(n, r) ==
    /\ pc[r] = "new"
    /\ Hears(n, r)
    /\ pc' = [pc EXCEPT ![r] = "accepted"]
    /\ at' = [at EXCEPT ![r] = n]
    /\ precedes' = precedes \cup {<<q, r>> : q \in {q \in Requests : reply[q] = "ok"}}
    /\ UNCHANGED <<procVars, brokerVars, sockVars, messages, reply, faults, owed>>

\* socket.on('message:send') follows two awaits: an event that arrives before
\* it is registered meets no handler, and its acknowledgement is never called.
ArriveBeforeHandlers(r) ==
    /\ pc[r] = "new"
    /\ Origin[r] # None /\ sock[Origin[r]] = "auth"
    /\ pc' = [pc EXCEPT ![r] = "unheard"]
    /\ UNCHANGED <<procVars, brokerVars, sockVars, at, messages, reply, faults, owed, precedes>>

\* An acknowledgement goes to the socket of the request, if it is still there.
Tell(r, v) ==
    reply' = IF Origin[r] # None /\ ~Live(Origin[r]) THEN reply
             ELSE [reply EXCEPT ![r] = v]

insertOne(r) == messages' = messages \cup {r}

\* The thread has been resolved (module Threads) and is touched with it.
insertMessage(r) ==
    /\ pc[r] = "accepted"
    /\ insertOne(r)
    /\ pc' = [pc EXCEPT ![r] = "inserted"]
    /\ UNCHANGED <<procVars, brokerVars, sockVars, at, reply, faults, owed, precedes>>

RecipientEntry(r) == [msg |-> r, to |-> Peer[r], skip |-> None]
M_echoToAll(r) == [msg |-> r, to |-> Author[r], skip |-> None]
EchoEntry(r) == [msg |-> r, to |-> Author[r], skip |-> Origin[r]]

\* publishMessage throws on a closed channel; it asks for no confirmation.
publishMessage(n, e) ==
    /\ channel[n]
    /\ wire' = [wire EXCEPT ![n] = Append(@, e)]
    /\ UNCHANGED <<bound, queue, tasks>>

PublishToRecipient(r) ==
    /\ pc[r] = "inserted"
    /\ publishMessage(at[r], RecipientEntry(r))
    /\ pc' = [pc EXCEPT ![r] = "announced"]
    /\ UNCHANGED <<procVars, sockVars, at, messages, reply, faults, owed, precedes>>

PublishEchoAndAck(r) ==
    /\ pc[r] = "announced"
    /\ publishMessage(at[r], EchoEntry(r))
    /\ pc' = [pc EXCEPT ![r] = "done"]
    /\ Tell(r, "ok")
    /\ UNCHANGED <<procVars, sockVars, at, messages, faults, owed, precedes>>

\* Every error path ends in an error acknowledgement: authentication, rate
\* limit, validation, not found, forbidden, a failing store, and a publish on a
\* closed channel, by which time the message is stored.
M_swallowPublishError(r) == pc[r] \in Running \ {"inserted", "announced"}
MayFail(r) ==
    /\ pc[r] \in Running
    /\ pc[r] = "announced" => ~channel[at[r]]

Fail(r) ==
    /\ MayFail(r)
    /\ pc' = [pc EXCEPT ![r] = "done"]
    /\ Tell(r, "error")
    /\ UNCHANGED <<procVars, brokerVars, sockVars, at, messages, faults, owed, precedes>>

-----------------------------------------------------------------------------
(* The broker and the consumer of a replica.                               *)

RoomOf(n, u) == {s \in Sockets : sock[s] = "joined" /\ host[s] = n /\ Owner[s] = u}

M_routeToPublisher(n) == bound \cap {n}
\* Every queue is bound with message.#, so each gets a copy of every entry.
Destinations(n) == bound

M_push(q, e) == <<e>> \o q
push(q, e) == Append(q, e)

Route(n) ==
    /\ wire[n] # <<>>
    /\ LET e == Head(wire[n]) IN
       /\ queue' = [m \in Nodes |-> IF m \in Destinations(n) THEN push(queue[m], e) ELSE queue[m]]
       /\ owed' = [s \in Sockets |->
                     IF sock[s] = "joined" /\ Owner[s] = e.to /\ s # e.skip
                     THEN owed[s] \cup {e.msg} ELSE owed[s]]
    /\ wire' = [wire EXCEPT ![n] = Tail(@)]
    /\ UNCHANGED <<procVars, bound, tasks, sockVars, sendVars, faults, precedes>>

M_neverWired(n) == FALSE
\* messagingSocketIo is set after attachSocketIo and cleared first on shutdown.
Wired(n) == node[n] = "up"

\* The synchronous part of deliverMessageToSocketIo: without Socket.IO the
\* delivery is dropped, otherwise message:new goes to the room of the user.  A
\* fan-out without a socket to skip then awaits the sender's name for the
\* notification; anything else is acknowledged at once.
deliverMessageToSocketIo(n) ==
    /\ node[n] # "down" /\ channel[n] /\ queue[n] # <<>>
    /\ LET e == Head(queue[n])
           S == IF Wired(n) THEN RoomOf(n, e.to) \ {e.skip} ELSE {} IN
       /\ inbox' = [s \in Sockets |-> IF s \in S THEN Append(inbox[s], e.msg) ELSE inbox[s]]
       /\ tasks' = IF Wired(n) /\ e.skip = None
                   THEN [tasks EXCEPT ![n] = Append(@, e)] ELSE tasks
    /\ queue' = [queue EXCEPT ![n] = Tail(@)]
    /\ UNCHANGED <<procVars, wire, bound, sock, host, sendVars, faults, owed, precedes>>

\* The broker puts unacknowledged deliveries back where they were.
Requeued(n) == IF channel[n] THEN tasks[n] \o queue[n] ELSE queue[n]

StopProcess(n) ==
    /\ node' = [node EXCEPT ![n] = "down"]
    /\ channel' = [channel EXCEPT ![n] = FALSE]
    /\ wire' = [wire EXCEPT ![n] = <<>>]
    /\ queue' = [queue EXCEPT ![n] = Requeued(n)]
    /\ tasks' = [tasks EXCEPT ![n] = <<>>]
    /\ sock' = [s \in Sockets |-> IF Live(s) /\ host[s] = n THEN "closed" ELSE sock[s]]
    /\ pc' = [r \in Requests |-> IF pc[r] \in Running /\ at[r] = n THEN "dead" ELSE pc[r]]
    /\ UNCHANGED <<bound, host, inbox, at, messages, reply, owed, precedes>>

\* The notification is emitted and the entry acknowledged.  On a closed channel
\* the acknowledgement throws outside any handler and ends the process.
Settle(n, i) ==
    /\ UNCHANGED faults
    /\ IF channel[n]
       THEN /\ tasks' = [tasks EXCEPT ![n] = RemoveAt(@, i)]
            /\ UNCHANGED <<procVars, wire, bound, queue, sockVars, sendVars, owed, precedes>>
       ELSE StopProcess(n)

\* The connection is lost: what is in flight goes, there is no reconnection,
\* and the process keeps serving its sockets without a consumer.
LoseChannel(n) ==
    /\ Fault
    /\ channel[n]
    /\ queue' = [queue EXCEPT ![n] = Requeued(n)]
    /\ channel' = [channel EXCEPT ![n] = FALSE]
    /\ wire' = [wire EXCEPT ![n] = <<>>]
    /\ UNCHANGED <<node, bound, tasks, sockVars, sendVars, owed, precedes>>

-----------------------------------------------------------------------------
(* Replicas and connections.                                               *)

\* connectRabbit: the queue is declared and consumed before Socket.IO exists.
connectRabbit(n) ==
    /\ node[n] = "down"
    /\ node' = [node EXCEPT ![n] = "booting"]
    /\ channel' = [channel EXCEPT ![n] = TRUE]
    /\ bound' = bound \cup {n}
    /\ UNCHANGED <<wire, queue, tasks, sockVars, sendVars, faults, owed, precedes>>

\* attachSocketIo, setMessagingSocketIoServer(io), httpServer.listen.
Listen(n) ==
    /\ node[n] = "booting"
    /\ node' = [node EXCEPT ![n] = "up"]
    /\ UNCHANGED <<channel, brokerVars, sockVars, sendVars, faults, owed, precedes>>

\* shutdown: setMessagingSocketIoServer(null), then closeSocketIo disconnects
\* every socket, then disconnectRabbit flushes and closes, then exit.
Shutdown(n) ==
    /\ Fault
    /\ node[n] = "up"
    /\ node' = [node EXCEPT ![n] = "closing"]
    /\ UNCHANGED <<channel, brokerVars, sockVars, sendVars, owed, precedes>>

closeSocketIo(n) ==
    /\ node[n] = "closing"
    /\ node' = [node EXCEPT ![n] = "draining"]
    /\ sock' = [s \in Sockets |-> IF Live(s) /\ host[s] = n THEN "closed" ELSE sock[s]]
    /\ UNCHANGED <<channel, brokerVars, host, inbox, sendVars, faults, owed, precedes>>

Exit(n) ==
    /\ node[n] = "draining" /\ wire[n] = <<>>
    /\ StopProcess(n)
    /\ UNCHANGED faults

Crash(n) ==
    /\ Fault
    /\ node[n] # "down"
    /\ StopProcess(n)

Connect(s, n) ==
    /\ sock[s] = "off" /\ node[n] = "up"
    /\ sock' = [sock EXCEPT ![s] = "auth"]
    /\ host' = [host EXCEPT ![s] = n]
    /\ UNCHANGED <<procVars, brokerVars, inbox, sendVars, faults, owed, precedes>>

\* resolveSocketAuth succeeded: the room is joined and the handlers registered.
Join(s) ==
    /\ sock[s] = "auth"
    /\ sock' = [sock EXCEPT ![s] = "joined"]
    /\ UNCHANGED <<procVars, brokerVars, host, inbox, sendVars, faults, owed, precedes>>

Disconnect(s) ==
    /\ Live(s)
    /\ sock' = [sock EXCEPT ![s] = "closed"]
    /\ UNCHANGED <<procVars, brokerVars, host, inbox, sendVars, faults, owed, precedes>>

Handle(r) == insertMessage(r) \/ PublishToRecipient(r) \/ PublishEchoAndAck(r) \/ Fail(r)

Next ==
    \/ \E r \in Requests : \/ ArriveBeforeHandlers(r) \/ Handle(r)
                           \/ \E n \in Nodes : Receive(n, r)
    \/ \E n \in Nodes : \/ Route(n) \/ deliverMessageToSocketIo(n)
                        \/ \E i \in DOMAIN tasks[n] : Settle(n, i)
                        \/ LoseChannel(n) \/ connectRabbit(n) \/ Listen(n)
                        \/ Shutdown(n) \/ closeSocketIo(n) \/ Exit(n) \/ Crash(n)
    \/ \E s \in Sockets : \/ Join(s) \/ Disconnect(s)
                          \/ \E n \in Nodes : Connect(s, n)

\* A handler, the broker and a consumer keep running; nobody has to connect,
\* boot a replica, or make one fail.
Spec == /\ Init /\ [][Next]_vars
        /\ \A r \in Requests : WF_vars(Handle(r))
        /\ \A n \in Nodes : WF_vars(Route(n)) /\ WF_vars(deliverMessageToSocketIo(n))

-----------------------------------------------------------------------------
(* Properties.                                                             *)

Received(s) == Range(inbox[s])
Pending(n) == Range(queue[n])
InTransit == UNION {Range(wire[n]) \cup Pending(n) \cup Range(tasks[n]) : n \in Nodes}

\* Whatever the broker carries, redelivers or has delivered is about a message
\* that is in the collection: a client that answers message:new with a receipt
\* or a fetch finds it (insertMessage comes before every publishMessage).
AnnouncedIsStored ==
    /\ \A e \in InTransit : e.msg \in messages /\ e.to \in {Author[e.msg], Peer[e.msg]}
    /\ \A s \in Sockets : Received(s) \subseteq messages

\* A connection that was in its room when the broker routed a message to the
\* user has received it, or the entry still waits in the queue of its replica,
\* as long as that replica is not shutting down: no delivery is dropped or
\* acknowledged unseen while the client believes it is connected.
NoSilentLoss ==
    \A s \in Sockets : sock[s] = "joined" /\ node[host[s]] = "up" =>
        \A r \in owed[s] : r \in Received(s)
                           \/ \E e \in Pending(host[s]) : e.msg = r /\ e.to = Owner[s]

\* Two messages sent one after the other (the second was received after the
\* first was confirmed) through the same replica reach every connection in that
\* order: handlers interleave, but the channel and the queues are FIFO.
SameReplicaOrder ==
    \A p \in precedes, s \in Sockets :
        at[p[1]] = at[p[2]] =>
            \A i, j \in DOMAIN inbox[s] : inbox[s][i] = p[1] /\ inbox[s][j] = p[2] => i < j

\* A pending notification alerts the recipient of the message, never the
\* person who wrote it (rabbitmq.ts: "Recipient fan-out only").
AuthorNotAlerted ==
    \A n \in Nodes : \A e \in Range(tasks[n]) : e.to # Author[e.msg]

\* The service implements the abstract promise: at most one message:new per
\* connection and message in spite of redelivery, only to the two participants,
\* never to the originating socket, and one truthful answer per request.
Promise == INSTANCE DirectMessaging WITH
    Audience <- [r \in Requests |-> {Author[r], Peer[r]}],
    Source <- Origin,
    stored <- messages,
    answer <- reply,
    live <- {s \in Sockets : Live(s)}
ImplementsPromise == Promise!Spec

\* Every request a handler took up is answered unless its replica dies.
EveryRequestEnds == \A r \in Requests : pc[r] \in Running ~> pc[r] \in {"done", "dead"}

\* A message routed while a connection is in its room reaches it, unless the
\* connection goes, or its replica shuts down or has lost the broker.
Reachable(s) == sock[s] = "joined" /\ node[host[s]] = "up" /\ channel[host[s]]
OwedIsDelivered ==
    \A s \in Sockets, r \in Requests :
        r \in owed[s] ~> r \in Received(s) \/ ~Reachable(s)
=============================================================================
