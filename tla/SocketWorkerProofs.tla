------------------------- MODULE SocketWorkerProofs -------------------------
(***************************************************************************)
(* Three results about the socket worker, for any number of requests, of   *)
(* connections and of faults: messages are emitted in the order in which   *)
(* they were sent, each at most once; what was reported as unavailable was *)
(* not emitted and never will be; and an open promise is never forgotten.  *)
(***************************************************************************)
EXTENDS SocketWorker, SequenceLemmas

-----------------------------------------------------------------------------
(* Type correctness.                                                       *)

\* What the two sides post.
LEMMA CallType ==
    ASSUME NEW r \in Requests
    PROVE  Call(r) \in MainToWorkerMessage
BY DEF Call, MainToWorkerMessage

\* The worker answers with an acknowledgement.
LEMMA AckType ==
    ASSUME NEW r \in Requests, NEW a \in {"answer", "unavailable"}
    PROVE  Ack(r, a) \in WorkerToMainMessage
BY DEF Ack, WorkerToMainMessage

\* The other messages of the two sides.
LEMMA SignalTypes ==
    /\ Signal("connect") \in MainToWorkerMessage /\ Signal("disconnect") \in MainToWorkerMessage
    /\ Signal("connecting") \in WorkerToMainMessage /\ Signal("connected") \in WorkerToMainMessage
    /\ Signal("disconnected") \in WorkerToMainMessage /\ Signal("error") \in WorkerToMainMessage
BY DEF Signal, MainToWorkerMessage, WorkerToMainMessage, NoRequest

\* What connectSocket posts for the client it replaces.
LEMMA ReplacedType == Replaced \in Seq(WorkerToMainMessage)
BY SignalTypes DEF Replaced

\* Posting and emitting append.
LEMMA PostFacts ==
    ASSUME TypeOK, NEW ms \in Seq(WorkerToMainMessage), post(ms)
    PROVE  toMain' \in Seq(WorkerToMainMessage) /\ Range(toMain') = Range(toMain) \cup Range(ms)
BY RangeConcat DEF TypeOK, post

\* The same for one message.
LEMMA PostOne ==
    ASSUME TypeOK, NEW m \in WorkerToMainMessage, post(<<m>>)
    PROVE  toMain' \in Seq(WorkerToMainMessage) /\ Range(toMain') = Range(toMain) \cup {m}
BY Singleton, PostFacts

\* The same for what is emitted to the server.
LEMMA EmitFacts ==
    ASSUME TypeOK, NEW rs \in Seq(Requests), emit(rs)
    PROVE  /\ emitted' \in Seq(Requests) /\ unacked' \subseteq Requests
           /\ Range(emitted') = Range(emitted) \cup Range(rs)
<1>1. emitted \in Seq(Requests) /\ unacked \subseteq Requests
  BY DEF TypeOK
<1>2. Range(rs) \subseteq Requests
  BY DEF Range
<1> QED
  BY <1>1, <1>2, RangeConcat DEF emit

\* The same for one event.
LEMMA EmitOne ==
    ASSUME TypeOK, NEW r \in Requests, emit(<<r>>)
    PROVE  /\ emitted' \in Seq(Requests) /\ unacked' \subseteq Requests
           /\ Range(emitted') = Range(emitted) \cup {r}
BY Singleton, EmitFacts

\* Everything a disconnect refuses, and the disconnect itself.
LEMMA RefusalType ==
    ASSUME TypeOK
    PROVE  [i \in DOMAIN queue |-> Ack(queue[i], "unavailable")] \in Seq(WorkerToMainMessage)
<1>1. queue \in Seq(Requests)
  BY WorkerAssumption, SeqMonotone DEF TypeOK
<1>2. \A i \in 1..Len(queue) : Ack(queue[i], "unavailable") \in WorkerToMainMessage
  BY <1>1, AckType
<1> QED
  BY <1>1, <1>2

\* Every step of the bridge, the worker and the connection keeps the types.
LEMMA TypeStep == TypeOK /\ [Next]_vars => TypeOK'
<1> SUFFICES ASSUME TypeOK, [Next]_vars
             PROVE  TypeOK'
    OBVIOUS
<1> USE WorkerAssumption
<1>0. queue \in Seq(Requests)
  BY SeqMonotone DEF TypeOK
<1>1. ASSUME NEW r \in Requests, Request(r)
      PROVE  TypeOK'
  BY <1>1, CallType DEF TypeOK, Request, Asked, bounds
<1>2. ASSUME NEW r \in Requests, Timeout(r)
      PROVE  TypeOK'
  <2>1. PICK i \in DOMAIN queue : i = CHOOSE j \in DOMAIN queue : queue[j] = r
    BY <1>2 DEF Timeout, Expires, Range
  <2>2. queue' \in Seq(Sends)
    BY <1>2, <2>1, RemoveAtFacts DEF TypeOK, Timeout, Unqueued
  <2>3. toMain' \in Seq(WorkerToMainMessage)
    BY <1>2, AckType DEF TypeOK, Timeout, post
  <2> QED
    BY <1>2, <2>2, <2>3 DEF TypeOK, Timeout, mainVars, bounds
<1>3. ASSUME NEW r \in Requests, Answer(r) \/ Unheard(r)
      PROVE  TypeOK'
  <2>1. toMain' \in Seq(WorkerToMainMessage)
    BY <1>3, AckType, SMTT(30) DEF TypeOK, Answer, Unheard, post
  <2> QED
    BY <1>3, <2>1 DEF TypeOK, Answer, Unheard, mainVars, bounds
<1>4. ASSUME ConnectAgain \/ SignOut
      PROVE  TypeOK'
  <2>1. toWorker \in Seq(MainToWorkerMessage)
    BY DEF TypeOK
  <2>2. CASE ConnectAgain
    <3>1. toWorker' \in Seq(MainToWorkerMessage)
      BY <2>1, <2>2, SignalTypes DEF ConnectAgain
    <3> QED
      BY <2>2, <3>1 DEF TypeOK, ConnectAgain, mainVars
  <2>3. CASE SignOut
    <3>1. toWorker' \in Seq(MainToWorkerMessage)
      BY <2>1, <2>3, SignalTypes DEF SignOut
    <3> QED
      BY <2>3, <3>1 DEF TypeOK, SignOut, bounds
  <2> QED
    BY <1>4, <2>2, <2>3
<1>5. ASSUME Terminate
      PROVE  TypeOK'
  BY <1>5 DEF TypeOK, Terminate, bounds
<1>6. ASSUME OnMessage
      PROVE  TypeOK'
  <2> DEFINE m == Head(toMain)
  <2>1. m \in WorkerToMainMessage /\ toMain' \in Seq(WorkerToMainMessage)
    BY <1>6 DEF TypeOK, OnMessage
  <2>2. CASE m.type = "ack"
    <3>1. outcome' \in [Requests -> {"none", "answer", "unavailable"}]
      BY <1>6, <2>1, <2>2 DEF TypeOK, OnMessage, WorkerToMainMessage
    <3> QED
      BY <1>6, <2>1, <2>2, <3>1 DEF TypeOK, OnMessage, bounds
  <2>3. CASE m.type # "ack"
    <3>1. status' = m.type /\ pending' = pending /\ outcome' = outcome
      BY <1>6, <2>3 DEF OnMessage
    <3>2. m.type \in {"connecting", "connected", "disconnected", "error"}
      BY <2>1, <2>3 DEF WorkerToMainMessage
    <3> QED
      BY <1>6, <2>1, <3>1, <3>2 DEF TypeOK, OnMessage, bounds
  <2> QED
    BY <2>2, <2>3
<1>7. ASSUME HandleMessage
      PROVE  TypeOK'
  <2> DEFINE m == Head(toWorker)
  <2>1. m \in MainToWorkerMessage /\ toWorker' \in Seq(MainToWorkerMessage)
    BY <1>7 DEF TypeOK, HandleMessage
  <2>2. UNCHANGED <<mainVars, bounds>>
    BY <1>7 DEF HandleMessage
  <2>3. CASE connectSocket
    <3>1. toMain' \in Seq(WorkerToMainMessage)
      BY <2>3, ReplacedType DEF TypeOK, connectSocket, post
    <3> QED
      BY <2>1, <2>2, <2>3, <3>1 DEF TypeOK, connectSocket, Abandon, mainVars, bounds
  <2>4. CASE disconnectSocket
    <3>1. toMain' \in Seq(WorkerToMainMessage)
      BY <2>4, RefusalType, SignalTypes DEF TypeOK, disconnectSocket, post
    <3> QED
      BY <2>1, <2>2, <2>4, <3>1 DEF TypeOK, disconnectSocket, Abandon, mainVars, bounds
  <2>5. CASE m.req \in Sends /\ tryMessageSendOrQueue(m.req)
    <3>1. m.req \in Requests
      BY <2>5
    <3>2. emitted' \in Seq(Requests) /\ unacked' \subseteq Requests /\ queue' \in Seq(Sends)
      <4>1. CASE socket = "connected"
        <5>1. emit(<<m.req>>) /\ queue' = queue
          BY <2>5, <4>1 DEF tryMessageSendOrQueue
        <5>2. emitted' \in Seq(Requests) /\ unacked' \subseteq Requests
          BY <3>1, <5>1, EmitOne
        <5> QED
          BY <5>1, <5>2 DEF TypeOK
      <4>2. CASE socket # "connected"
        <5>1. /\ m.req \in Sends /\ queue' = Append(queue, m.req)
              /\ emitted' = emitted /\ unacked' = unacked
          BY <2>5, <4>2 DEF tryMessageSendOrQueue
        <5> HIDE DEF m
        <5> QED
          BY <5>1 DEF TypeOK
      <4> QED
        BY <4>1, <4>2
    <3> QED
      BY <2>1, <2>2, <2>5, <3>2 DEF TypeOK, tryMessageSendOrQueue, mainVars, bounds
  <2>6. CASE m.type = "request" /\ emitOrRefuse(m.req)
    <3>1. m.req \in Requests
      BY <2>1, <2>6 DEF MainToWorkerMessage
    <3>2. emitted' \in Seq(Requests) /\ unacked' \subseteq Requests
      <4>1. CASE socket = "connected"
        BY <2>6, <3>1, <4>1, EmitOne DEF emitOrRefuse
      <4>2. CASE socket # "connected"
        BY <2>6, <4>2 DEF TypeOK, emitOrRefuse
      <4> QED
        BY <4>1, <4>2
    <3>3. toMain' \in Seq(WorkerToMainMessage)
      BY <2>6, <3>1, AckType, PostOne DEF TypeOK, emitOrRefuse
    <3> QED
      BY <2>1, <2>2, <2>6, <3>2, <3>3 DEF TypeOK, emitOrRefuse, mainVars, bounds
  <2> QED
    BY <1>7, <2>3, <2>4, <2>5, <2>6 DEF HandleMessage
<1>8. ASSUME Connected
      PROVE  TypeOK'
  <2>1. toMain' \in Seq(WorkerToMainMessage)
    BY <1>8, SignalTypes DEF TypeOK, Connected, post
  <2>2. emitted' \in Seq(Requests) /\ unacked' \subseteq Requests
    BY <1>8, <1>0, EmitFacts DEF Connected, Flushed
  <2> QED
    BY <1>8, <2>1, <2>2 DEF TypeOK, Connected, mainVars, bounds
<1>9. ASSUME Lost
      PROVE  TypeOK'
  <2>1. toMain' \in Seq(WorkerToMainMessage)
    BY <1>9, SignalTypes, PostOne DEF Lost
  <2> QED
    BY <1>9, <2>1 DEF TypeOK, Lost, Abandon, mainVars
<1>10. ASSUME Attempt
       PROVE  TypeOK'
  <2>1. toMain' \in Seq(WorkerToMainMessage)
    BY <1>10, SignalTypes, PostOne DEF Attempt
  <2> QED
    BY <1>10, <2>1 DEF TypeOK, Attempt, mainVars, bounds
<1>11. ASSUME ConnectError
       PROVE  TypeOK'
  <2>1. toMain' \in Seq(WorkerToMainMessage)
    BY <1>11, SignalTypes, PostOne DEF ConnectError
  <2> QED
    BY <1>11, <2>1 DEF TypeOK, ConnectError, mainVars
<1>12. ASSUME UNCHANGED vars
       PROVE  TypeOK'
  BY <1>12 DEF TypeOK, vars, mainVars, bounds
<1> QED
  BY <1>1, <1>2, <1>3, <1>4, <1>5, <1>6, <1>7, <1>8, <1>9, <1>10, <1>11, <1>12 DEF Next

\* The effect of the provider starts in a typed state.
LEMMA TypeInit == Init => TypeOK
BY WorkerAssumption, SignalTypes DEF Init, TypeOK

\* Type correctness of the worker and the bridge.
THEOREM TypeCorrect == Spec => []TypeOK
BY TypeInit, TypeStep, PTL DEF Spec

-----------------------------------------------------------------------------
(* Order and refusal.  What was emitted, what waits in the queue and what   *)
(* the channel still holds are three stretches of one ascending sequence    *)
(* (Order); it holds only what was asked, and the next request is above it  *)
(* (Known); a connected worker holds nothing back (Idle), so that the       *)
(* direct path cannot overtake; and nothing refused is anywhere on it       *)
(* (Final).                                                                 *)

Asks(i) == toWorker[i].type = "request"
Called == {toWorker[i].req : i \in {j \in DOMAIN toWorker : Asks(j)}}
CallsSorted ==
    \A i, j \in DOMAIN toWorker :
        i < j /\ Asks(i) /\ Asks(j) => toWorker[i].req < toWorker[j].req

Refused == {r \in Requests : outcome[r] = "unavailable" \/ Ack(r, "unavailable") \in Range(toMain)}
OnTheWay == Range(emitted) \cup Range(queue) \cup Called

Idle == socket = "connected" => queue = <<>>

Order ==
    /\ Sorted(emitted) /\ Sorted(queue) /\ CallsSorted
    /\ Before(Range(emitted), Range(queue))
    /\ Before(Range(emitted) \cup Range(queue), Called)

Known ==
    session = "active" =>
        /\ OnTheWay \cup Refused \subseteq Asked
        /\ \A x \in Asked, q \in Requests : q < x => q \in Asked

Final == Refused \cap OnTheWay = {}

IInv == TypeOK /\ Idle /\ Order /\ Known /\ Final

\* The sequences of a typed state are sequences of numbers.
LEMMA Numbers ==
    ASSUME TypeOK
    PROVE  /\ emitted \in Seq(Nat) /\ queue \in Seq(Nat) /\ queue \in Seq(Requests)
           /\ OnTheWay \subseteq Requests /\ Called \subseteq Requests
           /\ Range(emitted) \subseteq Requests /\ Range(queue) \subseteq Requests
<1> USE WorkerAssumption
<1>1. emitted \in Seq(Requests) /\ queue \in Seq(Sends) /\ queue \in Seq(Requests)
  BY SeqMonotone DEF TypeOK
<1>2. emitted \in Seq(Nat) /\ queue \in Seq(Nat)
  BY <1>1, SeqMonotone
<1>3. Range(emitted) \subseteq Requests /\ Range(queue) \subseteq Requests
  BY <1>1 DEF Range
<1>4. Called \subseteq Requests
  <2> SUFFICES ASSUME NEW i \in DOMAIN toWorker, Asks(i)
               PROVE  toWorker[i].req \in Requests
    BY DEF Called
  <2> QED
    BY DEF TypeOK, Asks, MainToWorkerMessage
<1> QED
  BY <1>1, <1>2, <1>3, <1>4 DEF OnTheWay

\* Posting to the worker and handling what it was posted.
LEMMA CalledAppend ==
    ASSUME TypeOK, CallsSorted, NEW m \in MainToWorkerMessage, toWorker' = Append(toWorker, m),
           m.type = "request" => \A x \in Called : x < m.req
    PROVE  /\ CallsSorted'
           /\ Called' \subseteq Called \cup {x \in {m.req} : m.type = "request"}
<1>1. /\ toWorker \in Seq(MainToWorkerMessage) /\ DOMAIN toWorker' = 1..(Len(toWorker) + 1)
      /\ DOMAIN toWorker = 1..Len(toWorker)
      /\ toWorker'[Len(toWorker) + 1] = m
      /\ \A i \in 1..Len(toWorker) : toWorker'[i] = toWorker[i]
  BY DEF TypeOK
<1>2. Called' \subseteq Called \cup {x \in {m.req} : m.type = "request"}
  BY <1>1 DEF Called, Asks
<1>3. ASSUME NEW i \in DOMAIN toWorker', NEW j \in DOMAIN toWorker', i < j, Asks(i)', Asks(j)'
      PROVE  toWorker'[i].req < toWorker'[j].req
  <2>1. i \in DOMAIN toWorker /\ Asks(i) /\ toWorker[i].req \in Called /\ toWorker'[i] = toWorker[i]
    BY <1>1, <1>3 DEF Asks, Called
  <2>2. CASE j \in DOMAIN toWorker
    BY <1>1, <1>3, <2>1, <2>2 DEF CallsSorted, Asks
  <2>3. CASE j = Len(toWorker) + 1
    BY <1>1, <1>3, <2>1, <2>3 DEF Asks
  <2> QED
    BY <1>1, <2>2, <2>3
<1> QED
  BY <1>2, <1>3 DEF CallsSorted

\* Handling a message from the bridge leaves the later ones.
LEMMA CalledTail ==
    ASSUME TypeOK, CallsSorted, toWorker # <<>>, toWorker' = Tail(toWorker)
    PROVE  /\ CallsSorted'
           /\ Called' \subseteq Called
           /\ Head(toWorker).type = "request" =>
                 /\ Head(toWorker).req \in Called
                 /\ \A x \in Called' : Head(toWorker).req < x
<1>1. /\ toWorker \in Seq(MainToWorkerMessage) /\ DOMAIN toWorker = 1..Len(toWorker) /\ 1 \in DOMAIN toWorker
      /\ DOMAIN toWorker' = 1..(Len(toWorker) - 1) /\ Head(toWorker) = toWorker[1]
      /\ \A i \in DOMAIN toWorker' : i + 1 \in DOMAIN toWorker /\ toWorker'[i] = toWorker[i + 1]
  BY DEF TypeOK
<1>2. CallsSorted'
  BY <1>1 DEF CallsSorted, Asks
<1>3. Called' \subseteq Called
  BY <1>1 DEF Called, Asks
<1>4. ASSUME Head(toWorker).type = "request", NEW i \in DOMAIN toWorker', Asks(i)'
      PROVE  Head(toWorker).req < toWorker'[i].req
  <2>1. Asks(1) /\ Asks(i + 1) /\ 1 < i + 1
    BY <1>1, <1>4 DEF Asks
  <2> QED
    BY <1>1, <2>1 DEF CallsSorted
<1>5. Head(toWorker).type = "request" => Head(toWorker).req \in Called
  BY <1>1 DEF Called, Asks
<1> QED
  BY <1>2, <1>3, <1>4, <1>5 DEF Called

\* A message to the main thread refuses the request it says is unavailable.
LEMMA RefusedPost ==
    ASSUME TypeOK, NEW m \in WorkerToMainMessage, post(<<m>>), outcome' = outcome
    PROVE  Refused' \subseteq Refused \cup {r \in Requests : m = Ack(r, "unavailable")}
<1>1. Range(toMain') = Range(toMain) \cup {m}
  BY PostOne
<1> QED
  BY <1>1 DEF Refused

\* The same for several messages.
LEMMA RefusedPosts ==
    ASSUME TypeOK, NEW ms \in Seq(WorkerToMainMessage), post(ms), outcome' = outcome
    PROVE  Refused' \subseteq Refused \cup {r \in Requests : Ack(r, "unavailable") \in Range(ms)}
<1>1. Range(toMain') = Range(toMain) \cup Range(ms)
  BY PostFacts
<1> QED
  BY <1>1 DEF Refused

\* A replaced client refuses nothing; a disconnect refuses what is queued.
LEMMA ReplacedRefusesNothing ==
    ASSUME NEW r \in Requests
    PROVE  Ack(r, "unavailable") \notin Range(Replaced)
BY DEF Replaced, Ack, Signal, Range

\* A disconnect refuses queued sends only.
LEMMA RefusalsAreQueued ==
    ASSUME TypeOK, NEW r \in Requests,
           Ack(r, "unavailable") \in Range([i \in DOMAIN queue |-> Ack(queue[i], "unavailable")]
                                           \o <<Signal("disconnected")>>)
    PROVE  r \in Range(queue)
<1> DEFINE a == [i \in DOMAIN queue |-> Ack(queue[i], "unavailable")]
           b == <<Signal("disconnected")>>
<1>1. a \in Seq(WorkerToMainMessage) /\ b \in Seq(WorkerToMainMessage) /\ Range(b) = {Signal("disconnected")}
  BY RefusalType, SignalTypes, Singleton
<1>2. Range(a \o b) = Range(a) \cup Range(b)
  <2> HIDE DEF a, b
  <2> QED
    BY <1>1, RangeConcat
<1>3. Ack(r, "unavailable") # Signal("disconnected")
  BY DEF Ack, Signal
<1>4. Ack(r, "unavailable") \in Range(a)
  BY <1>1, <1>2, <1>3
<1>5. PICK i \in DOMAIN queue : Ack(r, "unavailable") = Ack(queue[i], "unavailable")
  BY <1>4 DEF Range
<1>6. r = queue[i]
  <2>1. Ack(r, "unavailable").req = r /\ Ack(queue[i], "unavailable").req = queue[i]
    BY DEF Ack
  <2> QED
    BY <1>5, <2>1
<1> QED
  BY <1>6 DEF Range

\* A step that puts nothing new on the way and refuses only what it takes off.
LEMMA Shrink ==
    ASSUME IInv, TypeOK', Idle', Order',
           OnTheWay' \subseteq OnTheWay,
           Refused' \subseteq Refused \cup (OnTheWay \ OnTheWay'),
           session' = "active" => session = "active" /\ Asked' = Asked
    PROVE  IInv'
<1>1. Final'
  BY DEF IInv, Final
<1>2. Known'
  BY DEF IInv, Known
<1> QED
  BY <1>1, <1>2 DEF IInv

\* Every step keeps the invariant: where it puts something on the way, that is
\* the next request; where it moves something, it goes to the stretch before.
LEMMA InvStep == IInv /\ [Next]_vars => IInv'
<1> SUFFICES ASSUME IInv, [Next]_vars
             PROVE  IInv'
    OBVIOUS
<1> USE WorkerAssumption
<1>0. TypeOK /\ TypeOK' /\ Idle /\ Order /\ Known /\ Final
  BY TypeStep DEF IInv
<1>0a. /\ emitted \in Seq(Nat) /\ queue \in Seq(Nat) /\ queue \in Seq(Requests)
       /\ OnTheWay \subseteq Requests /\ Called \subseteq Requests
       /\ Range(emitted) \subseteq Requests /\ Range(queue) \subseteq Requests
  BY <1>0, Numbers
<1>1. ASSUME NEW r \in Requests, Request(r)
      PROVE  IInv'
  <2>1. /\ session = "active" /\ session' = session /\ r \notin Asked
        /\ Asked' = Asked \cup {r}
        /\ \A q \in Requests : q < r => q \in Asked
    BY <1>1 DEF Request, Asked
  <2>2. \A x \in OnTheWay : x < r
    BY <1>0, <1>0a, <2>1 DEF Known
  <2>3. Called \subseteq OnTheWay
    BY DEF OnTheWay
  <2>4. CallsSorted' /\ Called' \subseteq Called \cup {r}
    <3>1. toWorker' = Append(toWorker, Call(r)) /\ Call(r).req = r
      BY <1>1 DEF Request, Call
    <3> QED
      BY <1>0, <2>2, <2>3, <3>1, CallType, CalledAppend DEF Order
  <2>5. UNCHANGED <<emitted, queue, toMain, outcome, socket>>
    BY <1>1 DEF Request
  <2>6. Order' /\ Idle'
    BY <1>0, <2>2, <2>4, <2>5 DEF Order, Idle, Sorted, Before, OnTheWay
  <2>7. Refused' = Refused /\ OnTheWay' \subseteq OnTheWay \cup {r}
    BY <2>4, <2>5 DEF Refused, OnTheWay
  <2>8. Final'
    BY <1>0, <2>1, <2>7 DEF Final, Known
  <2>9. Known'
    BY <1>0, <2>1, <2>7 DEF Known
  <2> QED
    BY <1>0, <2>6, <2>8, <2>9 DEF IInv
<1>2. ASSUME NEW r \in Requests, Timeout(r)
      PROVE  IInv'
  <2>1. PICK i \in DOMAIN queue : queue[i] = r /\ queue' = RemoveAt(queue, i)
    BY <1>2 DEF Timeout, Expires, Unqueued, Range
  <2>2. UNCHANGED <<toWorker, pending, outcome, session, emitted, socket>> /\ post(<<Ack(r, "unavailable")>>)
    BY <1>2 DEF Timeout, mainVars
  <2>3. Sorted(queue') /\ Range(queue') \subseteq Range(queue) \ {r}
    BY <1>0, <1>0a, <2>1, SortedRemoveAt DEF Order
  <2>4. Called' = Called /\ CallsSorted' = CallsSorted
    BY <2>2 DEF Called, CallsSorted, Asks
  <2>5. Order'
    BY <1>0, <2>2, <2>3, <2>4 DEF Order, Sorted, Before
  <2>6. Idle'
    BY <1>0, <2>1, <2>2 DEF Idle
  <2>7. r \in OnTheWay /\ r \notin OnTheWay' /\ OnTheWay' \subseteq OnTheWay
    <3>1. r \in Range(queue)
      BY <2>1 DEF Range
    <3>2. r \notin Range(emitted) /\ r \notin Called
      BY <1>0, <1>0a, <3>1 DEF Order, Before
    <3> QED
      BY <2>2, <2>3, <2>4, <3>1, <3>2 DEF OnTheWay
  <2>8. Refused' \subseteq Refused \cup {r}
    BY <1>0, <2>2, AckType, RefusedPost DEF Ack
  <2>9. Asked' = Asked
    BY <2>2 DEF Asked
  <2> QED
    BY <1>0, <2>2, <2>5, <2>6, <2>7, <2>8, <2>9, Shrink
<1>3. ASSUME UNCHANGED <<toWorker, pending, outcome, session, emitted, queue>>,
             socket' = "connected" => socket = "connected",
             Refused' \subseteq Refused
      PROVE  IInv'
  <2>1. Called' = Called /\ CallsSorted' = CallsSorted /\ OnTheWay' = OnTheWay /\ Asked' = Asked
    BY <1>3 DEF Called, CallsSorted, Asks, OnTheWay, Asked
  <2>2. Order' /\ Idle'
    BY <1>0, <1>3, <2>1 DEF Order, Idle, Sorted, Before
  <2> QED
    BY <1>0, <1>3, <2>1, <2>2, Shrink
<1>4. ASSUME NEW r \in Requests, Answer(r) \/ Unheard(r)
      PROVE  IInv'
  <2>1. UNCHANGED <<toWorker, pending, outcome, session, emitted, queue, socket>>
    BY <1>4 DEF Answer, Unheard, mainVars
  <2>2. CASE Answer(r)
    <3>1. Refused' \subseteq Refused
      BY <1>0, <2>1, <2>2, AckType, RefusedPost DEF Answer, Ack
    <3> QED
      BY <1>3, <2>1, <3>1
  <2>3. CASE Unheard(r)
    <3>1. Refused' \subseteq Refused
      BY <2>1, <2>3 DEF Unheard, Refused
    <3> QED
      BY <1>3, <2>1, <3>1
  <2> QED
    BY <1>4, <2>2, <2>3
<1>5. ASSUME Lost \/ Attempt \/ ConnectError
      PROVE  IInv'
  <2>1. /\ UNCHANGED <<toWorker, pending, outcome, session, emitted, queue>>
        /\ socket' # "connected"
    BY <1>5 DEF Lost, Attempt, ConnectError, mainVars
  <2>2. PICK t \in {"disconnected", "connecting", "error"} : post(<<Signal(t)>>)
    BY <1>5 DEF Lost, Attempt, ConnectError
  <2>3. Refused' \subseteq Refused
    BY <1>0, <2>1, <2>2, SignalTypes, RefusedPost DEF Signal, Ack
  <2> QED
    BY <1>3, <2>1, <2>3
<1>6. ASSUME ConnectAgain \/ SignOut
      PROVE  IInv'
  <2>1. PICK t \in {"connect", "disconnect"} : toWorker' = Append(toWorker, Signal(t))
    BY <1>6 DEF ConnectAgain, SignOut
  <2>2. UNCHANGED <<outcome, emitted, queue, socket, toMain>>
    BY <1>6 DEF ConnectAgain, SignOut, mainVars
  <2>3. session' = "active" => session = "active" /\ pending' = pending
    BY <1>6 DEF ConnectAgain, SignOut, mainVars
  <2>4. CallsSorted' /\ Called' \subseteq Called
    <3>1. Signal(t) \in MainToWorkerMessage /\ Signal(t).type # "request"
      BY SignalTypes DEF Signal
    <3> QED
      BY <1>0, <2>1, <3>1, CalledAppend DEF Order
  <2>5. Order' /\ Idle' /\ OnTheWay' \subseteq OnTheWay
    BY <1>0, <2>2, <2>4 DEF Order, Idle, Sorted, Before, OnTheWay
  <2>6. Refused' = Refused
    BY <2>2 DEF Refused
  <2>7. session' = "active" => session = "active" /\ Asked' = Asked
    BY <2>2, <2>3 DEF Asked
  <2> QED
    BY <1>0, <2>5, <2>6, <2>7, Shrink
<1>7. ASSUME Terminate
      PROVE  IInv'
  <2>1. /\ toWorker' = <<>> /\ toMain' = <<>> /\ queue' = <<>> /\ socket' = "none"
        /\ session' = "terminated" /\ emitted' = emitted /\ outcome' = outcome
    BY <1>7 DEF Terminate
  <2>2. Called' = {} /\ CallsSorted' /\ Range(queue') = {}
    BY <2>1 DEF Called, CallsSorted, Range
  <2>3. Order' /\ Idle' /\ OnTheWay' \subseteq OnTheWay
    BY <1>0, <2>1, <2>2 DEF Order, Idle, Sorted, Before, OnTheWay
  <2>4. Refused' \subseteq Refused
    BY <2>1 DEF Refused, Range
  <2> QED
    BY <1>0, <2>1, <2>3, <2>4, Shrink
<1>8. ASSUME OnMessage
      PROVE  IInv'
  <2> DEFINE m == Head(toMain)
  <2>1. /\ toMain \in Seq(WorkerToMainMessage) /\ toMain # <<>> /\ toMain' = Tail(toMain)
        /\ UNCHANGED <<toWorker, session, emitted, queue, socket>>
        /\ outcome \in [Requests -> {"none", "answer", "unavailable"}]
    BY <1>0, <1>8 DEF OnMessage, TypeOK
  <2>2. m \in WorkerToMainMessage /\ m \in Range(toMain) /\ Range(toMain') \subseteq Range(toMain)
    BY <2>1, RangeTail
  <2>3. /\ \A r \in Requests : outcome'[r] = outcome[r] \/ (m.type = "ack" /\ r = m.req /\ outcome'[r] = m.ack)
        /\ pending' \subseteq pending
        /\ \A r \in pending : r \in pending' \/ (m.type = "ack" /\ r = m.req /\ outcome'[r] = m.ack)
    <3>1. CASE m.type = "ack"
      BY <1>0, <1>8, <2>1, <3>1 DEF OnMessage, TypeOK
    <3>2. CASE m.type # "ack"
      BY <1>8, <3>2 DEF OnMessage
    <3> QED
      BY <3>1, <3>2
  <2>4. m.type = "ack" => m.ack \in {"answer", "unavailable"}
    BY <2>2 DEF WorkerToMainMessage
  <2>5. ASSUME NEW r \in Refused'
        PROVE  r \in Refused
    <3>1. CASE outcome'[r] = outcome[r]
      BY <2>2, <2>5, <3>1 DEF Refused
    <3>2. CASE m.type = "ack" /\ r = m.req /\ m.ack = "unavailable"
      <4>1. m = Ack(r, "unavailable")
        BY <2>2, <3>2 DEF WorkerToMainMessage, Ack
      <4> QED
        BY <2>2, <2>5, <4>1 DEF Refused
    <3> QED
      BY <2>2, <2>3, <2>5, <3>1, <3>2 DEF Refused
  <2>6. Asked' = Asked
    <3>1. \A r \in Requests : outcome[r] # "none" => outcome'[r] # "none"
      BY <2>3, <2>4
    <3>2. \A r \in pending : r \in Asked'
      BY <1>0, <2>3, <2>4 DEF Asked, TypeOK
    <3>3. Asked \subseteq Asked'
      BY <3>1, <3>2 DEF Asked
    <3>4. ASSUME NEW r \in Requests, outcome'[r] # "none", outcome[r] = "none"
          PROVE  r \in pending
      BY <1>0, <1>8, <3>4 DEF OnMessage, TypeOK
    <3>5. Asked' \subseteq Asked
      BY <2>3, <3>4 DEF Asked
    <3> QED
      BY <3>3, <3>5
  <2>7. Called' = Called /\ CallsSorted' = CallsSorted /\ OnTheWay' = OnTheWay
    BY <2>1 DEF Called, CallsSorted, Asks, OnTheWay
  <2>8. Order' /\ Idle'
    BY <1>0, <2>1, <2>7 DEF Order, Idle, Sorted, Before
  <2> QED
    BY <1>0, <2>1, <2>5, <2>6, <2>7, <2>8, Shrink
<1>9. ASSUME Connected
      PROVE  IInv'
  <2>1. /\ UNCHANGED <<toWorker, pending, outcome, session>>
        /\ emit(queue) /\ queue' = <<>> /\ socket' = "connected" /\ post(<<Signal("connected")>>)
    BY <1>9 DEF Connected, Flushed, mainVars
  <2>2. Range(emitted') = Range(emitted) \cup Range(queue) /\ Range(queue') = {}
    <3>1. Range(queue') = {}
      BY <2>1 DEF Range
    <3>2. emit(queue)
      BY <2>1
    <3> QED
      BY <1>0, <1>0a, <3>1, <3>2, EmitFacts
  <2>3. Sorted(emitted') /\ Sorted(queue')
    BY <1>0, <1>0a, <2>1, SortedConcat, SMTT(30) DEF emit, Order, Sorted
  <2>4. Called' = Called /\ CallsSorted' = CallsSorted /\ Asked' = Asked
    BY <2>1 DEF Called, CallsSorted, Asks, Asked
  <2>5. Order' /\ Idle' /\ OnTheWay' = OnTheWay
    BY <1>0, <2>1, <2>2, <2>3, <2>4 DEF Order, Before, Idle, OnTheWay
  <2>6. Refused' \subseteq Refused
    BY <1>0, <2>1, SignalTypes, RefusedPost DEF Signal, Ack
  <2> QED
    BY <1>0, <2>1, <2>4, <2>5, <2>6, Shrink
<1>10. ASSUME HandleMessage
       PROVE  IInv'
  <2> DEFINE m == Head(toWorker)
  <2>1. /\ toWorker # <<>> /\ toWorker' = Tail(toWorker)
        /\ UNCHANGED <<pending, outcome, session>>
    BY <1>10 DEF HandleMessage, mainVars
  <2>2. Asked' = Asked
    BY <2>1 DEF Asked
  <2>3. /\ CallsSorted' /\ Called' \subseteq Called
        /\ m.type = "request" => m.req \in Called /\ \A x \in Called' : m.req < x
    BY <1>0, <2>1, CalledTail DEF Order
  <2>4. CASE connectSocket
    <3>1. post(Replaced) /\ UNCHANGED <<queue, emitted>> /\ socket' = "connecting"
      BY <2>4 DEF connectSocket
    <3>2. Refused' \subseteq Refused
      BY <1>0, <2>1, <3>1, ReplacedType, RefusedPosts, ReplacedRefusesNothing
    <3>3. Order' /\ Idle' /\ OnTheWay' \subseteq OnTheWay
      BY <1>0, <2>3, <3>1 DEF Order, Idle, Sorted, Before, OnTheWay
    <3> QED
      BY <1>0, <2>1, <2>2, <3>2, <3>3, Shrink
  <2>5. CASE disconnectSocket
    <3> DEFINE ms == [i \in DOMAIN queue |-> Ack(queue[i], "unavailable")] \o <<Signal("disconnected")>>
    <3>1. post(ms) /\ queue' = <<>> /\ emitted' = emitted /\ socket' = "none"
      BY <2>5 DEF disconnectSocket
    <3>2. ms \in Seq(WorkerToMainMessage)
      BY <1>0, RefusalType, SignalTypes
    <3>3. Refused' \subseteq Refused \cup Range(queue)
      <4>1. \A r \in Requests : Ack(r, "unavailable") \in Range(ms) => r \in Range(queue)
        BY <1>0, RefusalsAreQueued
      <4> HIDE DEF ms
      <4> QED
        BY <1>0, <2>1, <3>1, <3>2, <4>1, RefusedPosts
    <3>4. Range(queue') = {}
      BY <3>1 DEF Range
    <3>5. Order' /\ Idle' /\ OnTheWay' \subseteq OnTheWay
      BY <1>0, <2>3, <3>1, <3>4 DEF Order, Idle, Sorted, Before, OnTheWay
    <3>6. Range(queue) \subseteq OnTheWay \ OnTheWay'
      <4> SUFFICES ASSUME NEW x \in Range(queue)
                   PROVE  x \notin Range(emitted) /\ x \notin Called
        BY <2>3, <3>1, <3>4 DEF OnTheWay
      <4>1. x \in Nat /\ ~(x < x)
        <5>1. x \in Requests
          BY <1>0a
        <5> QED
          BY <5>1
      <4>2. Before(Range(emitted), Range(queue)) /\ Before(Range(emitted) \cup Range(queue), Called)
        BY <1>0 DEF Order
      <4> QED
        BY <4>1, <4>2 DEF Before
    <3> QED
      BY <1>0, <2>1, <2>2, <3>3, <3>5, <3>6, Shrink
  <2>6. ASSUME m.type = "request"
        PROVE  /\ m.req \in Requests /\ m.req \in OnTheWay /\ m.req \notin Called'
               /\ m.req \notin Range(emitted) \cup Range(queue)
               /\ \A y \in Range(emitted) \cup Range(queue) : y < m.req
               /\ \A x \in Called' : m.req < x
    <3>1. m.req \in Called /\ \A x \in Called' : m.req < x
      BY <2>3, <2>6
    <3>2. \A y \in Range(emitted) \cup Range(queue) : y < m.req
      BY <1>0, <3>1 DEF Order, Before
    <3>3. m.req \in Nat
      BY <1>0a, <3>1
    <3> HIDE DEF m
    <3> QED
      BY <1>0a, <3>1, <3>2, <3>3 DEF OnTheWay
  <2>7. ASSUME m.type = "request", emit(<<m.req>>), queue' = queue, socket = "connected",
               socket' = socket, toMain' = toMain
        PROVE  IInv'
    <3>1. emitted' = Append(emitted, m.req)
      BY <1>0, <2>7 DEF emit, TypeOK
    <3>2. Range(emitted') = Range(emitted) \cup {m.req} /\ Sorted(emitted')
      BY <1>0, <1>0a, <2>6, <2>7, <3>1, EmitOne, SortedAppend DEF Order
    <3>3. queue = <<>> /\ Range(queue') = {}
      BY <1>0, <2>7 DEF Idle, Range
    <3> HIDE DEF m
    <3>4. Order' /\ Idle'
      BY <1>0, <2>3, <2>6, <2>7, <3>2, <3>3 DEF Order, Idle, Sorted, Before
    <3>5. OnTheWay' \subseteq OnTheWay
      BY <2>3, <2>6, <2>7, <3>2 DEF OnTheWay
    <3>6. Refused' = Refused
      BY <2>1, <2>7 DEF Refused
    <3> QED
      BY <1>0, <2>1, <2>2, <3>4, <3>5, <3>6, Shrink
  <2>8. CASE m.type = "request" /\ tryMessageSendOrQueue(m.req)
    <3>1. CASE socket = "connected"
      BY <2>7, <2>8, <3>1 DEF tryMessageSendOrQueue
    <3>2. CASE socket # "connected"
      <4>1. /\ queue' = Append(queue, m.req) /\ emitted' = emitted
            /\ socket' = socket /\ toMain' = toMain
        BY <2>8, <3>2 DEF tryMessageSendOrQueue
      <4> HIDE DEF m
      <4>2. Range(queue') = Range(queue) \cup {m.req} /\ Sorted(queue')
        <5>1. m.req \in Requests /\ m.req \in Nat /\ \A y \in Range(queue) : y < m.req
          BY <2>6, <2>8
        <5>2. Sorted(queue)
          BY <1>0 DEF Order
        <5>3. Sorted(Append(queue, m.req))
          BY <1>0a, <5>1, <5>2, SortedAppend
        <5>4. Range(Append(queue, m.req)) = Range(queue) \cup {m.req}
          BY <1>0a, <5>1, RangeAppend
        <5> QED
          BY <4>1, <5>3, <5>4
      <4>3. Order' /\ Idle'
        BY <1>0, <2>3, <2>6, <2>8, <3>2, <4>1, <4>2 DEF Order, Idle, Sorted, Before
      <4>4. OnTheWay' \subseteq OnTheWay
        BY <2>3, <2>6, <2>8, <4>1, <4>2 DEF OnTheWay
      <4>5. Refused' = Refused
        BY <2>1, <4>1 DEF Refused
      <4> QED
        BY <1>0, <2>1, <2>2, <4>3, <4>4, <4>5, Shrink
    <3> QED
      BY <3>1, <3>2
  <2>9. CASE m.type = "request" /\ emitOrRefuse(m.req)
    <3>1. CASE socket = "connected"
      BY <2>7, <2>9, <3>1 DEF emitOrRefuse
    <3>2. CASE socket # "connected"
      <4>1. post(<<Ack(m.req, "unavailable")>>) /\ UNCHANGED <<emitted, queue, socket>>
        BY <2>9, <3>2 DEF emitOrRefuse
      <4> HIDE DEF m
      <4>2. Refused' \subseteq Refused \cup {m.req}
        BY <1>0, <2>1, <2>6, <2>9, <4>1, AckType, RefusedPost DEF Ack
      <4>3. Order' /\ Idle' /\ OnTheWay' \subseteq OnTheWay
        BY <1>0, <2>3, <4>1 DEF Order, Idle, Sorted, Before, OnTheWay
      <4>4. m.req \in OnTheWay \ OnTheWay'
        BY <2>6, <2>9, <4>1 DEF OnTheWay
      <4> QED
        BY <1>0, <2>1, <2>2, <4>2, <4>3, <4>4, Shrink
    <3> QED
      BY <3>1, <3>2
  <2> QED
    BY <1>10, <2>4, <2>5, <2>8, <2>9 DEF HandleMessage
<1>11. ASSUME UNCHANGED vars
       PROVE  IInv'
  <2>1. /\ UNCHANGED <<toWorker, pending, outcome, session, emitted, queue, socket>>
        /\ Refused' = Refused
    BY <1>11 DEF vars, mainVars, Refused
  <2> QED
    BY <1>3, <2>1
<1> QED
  BY <1>1, <1>2, <1>4, <1>5, <1>6, <1>7, <1>8, <1>9, <1>10, <1>11 DEF Next

\* Nothing is on its way at first.
LEMMA InvInit == Init => IInv
<1> SUFFICES ASSUME Init
             PROVE  IInv
    OBVIOUS
<1>1. Called = {} /\ CallsSorted
  BY DEF Init, Called, CallsSorted, Asks, Signal
<1>2. Range(emitted) = {} /\ Range(queue) = {} /\ Range(toMain) = {}
  BY DEF Init, Range
<1>3. Refused = {} /\ OnTheWay = {} /\ Asked = {}
  BY <1>1, <1>2 DEF Init, Refused, OnTheWay, Asked
<1>4. Order /\ Idle
  BY <1>1, <1>2 DEF Init, Order, Sorted, Before, Idle
<1> QED
  BY <1>3, <1>4, TypeInit DEF IInv, Known, Final

\* emitMessageSend and the emits of receipts leave in the order in which the
\* bridge was asked, each once: the held queue and the direct path never overtake.
THEOREM EmittedInOrder == Spec => []SentInOrder
<1>1. IInv => SentInOrder
  BY DEF IInv, Order, Sorted, SentInOrder
<1> QED
  BY <1>1, InvInit, InvStep, PTL DEF Spec

\* A request answered UNAVAILABLE (timer, disconnect or not connected) has not
\* been emitted and never will be.
THEOREM RefusalIsFinal == Spec => []UnavailableNotSent
<1>1. IInv => UnavailableNotSent
  BY DEF IInv, Final, Refused, OnTheWay, UnavailableNotSent
<1> QED
  BY <1>1, InvInit, InvStep, PTL DEF Spec

-----------------------------------------------------------------------------
(* Open promises.  The bridge keeps a promise in a map and forgets about    *)
(* it: what settles it is somewhere between the two threads and the server, *)
(* in the channel to the worker, the held queue, the emitted event or the   *)
(* channel back, and every handler passes it on before it lets go of it.    *)

\* What the channel back says was decided, whatever the answer.
Answered == {r \in Requests : \E a \in {"answer", "unavailable"} : Ack(r, a) \in Range(toMain)}

\* Every open promise is at some station of its way, or nobody will answer it.
Held == pending \subseteq Called \cup Range(queue) \cup unacked \cup Answered \cup deaf

\* A session that is over has no promise to keep.
PromiseInv == Held /\ (session # "active" => pending = {})

\* A post to the worker keeps the calls before it.
LEMMA CalledGrows ==
    ASSUME TypeOK, NEW m \in MainToWorkerMessage, toWorker' = Append(toWorker, m)
    PROVE  Called \subseteq Called' /\ (m.type = "request" => m.req \in Called')
<1>1. /\ DOMAIN toWorker' = 1..(Len(toWorker) + 1) /\ DOMAIN toWorker = 1..Len(toWorker)
      /\ Len(toWorker) \in Nat /\ toWorker'[Len(toWorker) + 1] = m
      /\ \A i \in 1..Len(toWorker) : toWorker'[i] = toWorker[i]
  BY DEF TypeOK
<1> QED
  BY <1>1 DEF Called, Asks

\* The worker takes one message and leaves the other calls.
LEMMA CalledPopped ==
    ASSUME TypeOK, toWorker # <<>>, toWorker' = Tail(toWorker), NEW r \in Called
    PROVE  r \in Called' \/ (Head(toWorker).type = "request" /\ r = Head(toWorker).req)
<1>1. /\ DOMAIN toWorker = 1..Len(toWorker) /\ Len(toWorker) \in Nat
      /\ DOMAIN toWorker' = 1..(Len(toWorker) - 1) /\ Head(toWorker) = toWorker[1]
      /\ \A i \in DOMAIN toWorker' : toWorker'[i] = toWorker[i + 1]
  BY DEF TypeOK
<1>2. PICK i \in DOMAIN toWorker : Asks(i) /\ toWorker[i].req = r
  BY DEF Called
<1>3. CASE i = 1
  BY <1>1, <1>2, <1>3 DEF Asks
<1>4. CASE i # 1
  <2>1. i - 1 \in DOMAIN toWorker' /\ toWorker'[i - 1] = toWorker[i]
    <3>1. i \in 2..Len(toWorker)
      BY <1>1, <1>4
    <3>2. i - 1 \in 1..(Len(toWorker) - 1) /\ (i - 1) + 1 = i
      BY <1>1, <3>1
    <3> QED
      BY <1>1, <3>2
  <2>2. Asks(i - 1)' /\ toWorker'[i - 1].req = r
    BY <1>2, <2>1 DEF Asks
  <2> QED
    BY <2>1, <2>2 DEF Called
<1> QED
  BY <1>3, <1>4

\* A post to the bridge keeps the answers before it and adds its own.
LEMMA AnsweredPosts ==
    ASSUME TypeOK, NEW ms \in Seq(WorkerToMainMessage), post(ms)
    PROVE  /\ Answered \subseteq Answered'
           /\ \A r \in Requests : Ack(r, "unavailable") \in Range(ms) => r \in Answered'
           /\ \A r \in Requests : Ack(r, "answer") \in Range(ms) => r \in Answered'
<1>1. Range(toMain') = Range(toMain) \cup Range(ms)
  BY PostFacts
<1> QED
  BY <1>1 DEF Answered

\* The same for one message.
LEMMA AnsweredPost ==
    ASSUME TypeOK, NEW m \in WorkerToMainMessage, post(<<m>>)
    PROVE  /\ Answered \subseteq Answered'
           /\ \A r \in Requests : m = Ack(r, "unavailable") \/ m = Ack(r, "answer") => r \in Answered'
BY Singleton, AnsweredPosts

\* The timer of one queued send leaves the others in the queue.
LEMMA RemoveAtKeeps ==
    ASSUME NEW S, NEW s \in Seq(S), NEW i \in DOMAIN s
    PROVE  Range(s) \subseteq Range(RemoveAt(s, i)) \cup {s[i]}
<1> DEFINE t == RemoveAt(s, i)
<1>1. /\ t \in Seq(S) /\ Len(t) = Len(s) - 1
      /\ \A j \in 1..(Len(s) - 1) : t[j] = IF j < i THEN s[j] ELSE s[j + 1]
  BY RemoveAtFacts
<1> HIDE DEF t
<1>2. DOMAIN s = 1..Len(s) /\ DOMAIN t = 1..(Len(s) - 1) /\ Len(s) \in Nat
  BY <1>1
<1> SUFFICES ASSUME NEW k \in DOMAIN s, k # i
             PROVE  s[k] \in Range(t)
    BY DEF Range, t
<1>3. CASE k < i
  <2>1. k \in DOMAIN t /\ t[k] = s[k]
    BY <1>1, <1>2, <1>3
  <2> QED
    BY <2>1 DEF Range
<1>4. CASE k > i
  <2>1. k - 1 \in 1..(Len(s) - 1) /\ ~(k - 1 < i) /\ (k - 1) + 1 = k
    BY <1>2, <1>4
  <2>2. k - 1 \in DOMAIN t /\ t[k - 1] = s[k]
    BY <1>1, <1>2, <2>1
  <2> QED
    BY <2>2 DEF Range
<1> QED
  BY <1>2, <1>3, <1>4

\* A disconnect answers everything that is queued.
LEMMA QueueIsRefused ==
    ASSUME TypeOK, NEW r \in Range(queue)
    PROVE  Ack(r, "unavailable") \in Range([i \in DOMAIN queue |-> Ack(queue[i], "unavailable")]
                                           \o <<Signal("disconnected")>>)
<1> DEFINE a == [i \in DOMAIN queue |-> Ack(queue[i], "unavailable")]
           b == <<Signal("disconnected")>>
<1>1. a \in Seq(WorkerToMainMessage) /\ b \in Seq(WorkerToMainMessage)
  BY RefusalType, SignalTypes
<1>2. Ack(r, "unavailable") \in Range(a)
  BY DEF Range
<1> HIDE DEF a, b
<1>3. Range(a \o b) = Range(a) \cup Range(b)
  BY <1>1, RangeConcat
<1> QED
  BY <1>2, <1>3 DEF a, b

\* The event loop of the worker passes every request on: it emits it, keeps it,
\* answers it, or loses the connection it was emitted on.
LEMMA HandledIsHeld ==
    ASSUME TypeOK, Held, HandleMessage
    PROVE  Held'
<1> DEFINE m == Head(toWorker)
<1> USE WorkerAssumption
<1>1. toWorker # <<>> /\ toWorker' = Tail(toWorker) /\ pending' = pending /\ m \in MainToWorkerMessage
  BY DEF HandleMessage, mainVars, TypeOK
<1>2. \A r \in Called : r \in Called' \/ (m.type = "request" /\ r = m.req)
  BY <1>1, CalledPopped
<1>3. m.type = "request" => m.req \in Requests
  BY <1>1 DEF MainToWorkerMessage
<1>4. CASE m.type = "connect" /\ connectSocket
  <2>1. post(Replaced) /\ queue' = queue /\ unacked' = {} /\ deaf' = deaf \cup unacked
    BY <1>4 DEF connectSocket, Abandon
  <2>2. Answered \subseteq Answered'
    BY <2>1, ReplacedType, AnsweredPosts
  <2> QED
    BY <1>1, <1>2, <1>4, <2>1, <2>2 DEF Held
<1>5. CASE m.type = "disconnect" /\ disconnectSocket
  <2> DEFINE ms == [i \in DOMAIN queue |-> Ack(queue[i], "unavailable")] \o <<Signal("disconnected")>>
  <2>1. post(ms) /\ unacked' = {} /\ deaf' = deaf \cup unacked
    BY <1>5 DEF disconnectSocket, Abandon
  <2>2. ms \in Seq(WorkerToMainMessage)
    BY RefusalType, SignalTypes
  <2>3. \A r \in Range(queue) : r \in Requests /\ Ack(r, "unavailable") \in Range(ms)
    BY Numbers, QueueIsRefused
  <2> HIDE DEF ms
  <2>4. Answered \subseteq Answered' /\ Range(queue) \subseteq Answered'
    BY <2>1, <2>2, <2>3, AnsweredPosts
  <2> QED
    BY <1>1, <1>2, <1>5, <2>1, <2>4 DEF Held
<1>6. CASE m.type = "request" /\ emit(<<m.req>>) /\ queue' = queue /\ toMain' = toMain /\ deaf' = deaf
  <2>1. unacked' = unacked \cup {m.req}
    <3> HIDE DEF m
    <3>1. Range(<<m.req>>) = {m.req}
      BY <1>3, <1>6, Singleton
    <3> QED
      BY <1>6, <3>1 DEF emit
  <2>2. Answered' = Answered
    BY <1>6 DEF Answered
  <2> HIDE DEF m
  <2> QED
    BY <1>1, <1>2, <1>6, <2>1, <2>2 DEF Held
<1>7. CASE m.type = "request" /\ tryMessageSendOrQueue(m.req) /\ socket # "connected"
  <2>1. queue' = Append(queue, m.req) /\ unacked' = unacked /\ toMain' = toMain /\ deaf' = deaf
    BY <1>7 DEF tryMessageSendOrQueue
  <2> HIDE DEF m
  <2>2. Range(queue') = Range(queue) \cup {m.req}
    BY <1>3, <1>7, <2>1, Numbers, RangeAppend
  <2>3. Answered' = Answered
    BY <2>1 DEF Answered
  <2> QED
    BY <1>1, <1>2, <1>7, <2>1, <2>2, <2>3 DEF Held
<1>8. CASE m.type = "request" /\ emitOrRefuse(m.req) /\ socket # "connected"
  <2>1. post(<<Ack(m.req, "unavailable")>>) /\ queue' = queue /\ unacked' = unacked /\ deaf' = deaf
    BY <1>8 DEF emitOrRefuse
  <2> HIDE DEF m
  <2>2. Ack(m.req, "unavailable") \in WorkerToMainMessage
    BY <1>3, <1>8, AckType
  <2>3. Answered \subseteq Answered' /\ m.req \in Answered'
    BY <1>3, <1>8, <2>1, <2>2, AnsweredPost
  <2> QED
    BY <1>1, <1>2, <1>8, <2>1, <2>3 DEF Held
<1>9. CASE m.type = "request" /\ tryMessageSendOrQueue(m.req) /\ socket = "connected"
  BY <1>6, <1>9 DEF tryMessageSendOrQueue
<1>10. CASE m.type = "request" /\ emitOrRefuse(m.req) /\ socket = "connected"
  BY <1>6, <1>10 DEF emitOrRefuse
<1> QED
  BY <1>4, <1>5, <1>7, <1>8, <1>9, <1>10 DEF HandleMessage

\* Every step keeps what will settle a promise somewhere on its way.
LEMMA PromiseStep == TypeOK /\ PromiseInv /\ [Next]_vars => PromiseInv'
<1> SUFFICES ASSUME TypeOK, PromiseInv, [Next]_vars
             PROVE  PromiseInv'
    OBVIOUS
<1> USE WorkerAssumption
<1>0. Held /\ (session # "active" => pending = {}) /\ pending \subseteq Requests
  BY DEF PromiseInv, TypeOK
<1>1. ASSUME NEW r \in Requests, Request(r)
      PROVE  PromiseInv'
  <2>1. /\ toWorker' = Append(toWorker, Call(r)) /\ pending' = pending \cup {r} /\ session' = "active"
        /\ UNCHANGED <<queue, unacked, deaf, toMain>>
    BY <1>1 DEF Request
  <2>2. Called \subseteq Called' /\ r \in Called'
    <3>1. Call(r).type = "request" /\ Call(r).req = r
      BY DEF Call
    <3> QED
      BY <2>1, <3>1, CallType, CalledGrows
  <2>3. Answered' = Answered
    BY <2>1 DEF Answered
  <2> QED
    BY <1>0, <2>1, <2>2, <2>3 DEF PromiseInv, Held
<1>2. ASSUME NEW r \in Requests, Timeout(r)
      PROVE  PromiseInv'
  <2>1. PICK i \in DOMAIN queue : queue[i] = r /\ queue' = RemoveAt(queue, i)
    BY <1>2 DEF Timeout, Expires, Unqueued, Range
  <2>2. UNCHANGED <<toWorker, pending, session, unacked, deaf>> /\ post(<<Ack(r, "unavailable")>>)
    BY <1>2 DEF Timeout, mainVars
  <2>3. Range(queue) \subseteq Range(queue') \cup {r}
    BY <2>1, Numbers, RemoveAtKeeps
  <2>4. Answered \subseteq Answered' /\ r \in Answered'
    BY <2>2, AckType, AnsweredPost
  <2>5. Called' = Called
    BY <2>2 DEF Called, Asks
  <2> QED
    BY <1>0, <2>2, <2>3, <2>4, <2>5 DEF PromiseInv, Held
<1>3. ASSUME NEW r \in Requests, Answer(r) \/ Unheard(r)
      PROVE  PromiseInv'
  <2>1. UNCHANGED <<toWorker, pending, session, queue>> /\ unacked' = unacked \ {r}
    BY <1>3 DEF Answer, Unheard, mainVars
  <2>2. Called' = Called
    BY <2>1 DEF Called, Asks
  <2>3. CASE Answer(r)
    <3>1. Answered \subseteq Answered' /\ r \in Answered'
      BY <2>3, AckType, AnsweredPost DEF Answer
    <3> QED
      BY <1>0, <2>1, <2>2, <2>3, <3>1 DEF PromiseInv, Held, Answer
  <2>4. CASE Unheard(r)
    <3>1. Answered' = Answered /\ deaf' = deaf \cup {r}
      BY <2>4 DEF Answered, Unheard
    <3> QED
      BY <1>0, <2>1, <2>2, <3>1 DEF PromiseInv, Held
  <2> QED
    BY <1>3, <2>3, <2>4
<1>4. ASSUME ConnectAgain
      PROVE  PromiseInv'
  <2>1. toWorker' = Append(toWorker, Signal("connect"))
        /\ UNCHANGED <<toMain, pending, session, queue, unacked, deaf>>
    BY <1>4 DEF ConnectAgain, mainVars
  <2>2. Called \subseteq Called'
    BY <2>1, SignalTypes, CalledGrows
  <2>3. Answered' = Answered
    BY <2>1 DEF Answered
  <2> QED
    BY <1>0, <2>1, <2>2, <2>3 DEF PromiseInv, Held
<1>5. ASSUME SignOut \/ Terminate
      PROVE  PromiseInv'
  BY <1>0, <1>5 DEF SignOut, Terminate, PromiseInv, Held
<1>6. ASSUME OnMessage
      PROVE  PromiseInv'
  <2> DEFINE m == Head(toMain)
  <2>1. /\ session = "active" /\ session' = session /\ toMain # <<>> /\ toMain' = Tail(toMain)
        /\ UNCHANGED <<toWorker, queue, unacked, deaf>>
        /\ toMain \in Seq(WorkerToMainMessage)
    BY <1>6 DEF OnMessage, TypeOK
  <2>2. Called' = Called
    BY <2>1 DEF Called, Asks
  <2>3. Range(toMain) \subseteq {m} \cup Range(toMain')
    BY <2>1, RangeHeadTail
  <2>4. pending' = IF m.type = "ack" THEN pending \ {m.req} ELSE pending
    BY <1>6 DEF OnMessage
  <2>5. ASSUME NEW r \in Answered
        PROVE  r \in Answered' \/ (m.type = "ack" /\ m.req = r)
    BY <2>3, <2>5 DEF Answered, Ack
  <2> HIDE DEF m
  <2>6. Held'
    BY <1>0, <2>1, <2>2, <2>4, <2>5 DEF Held
  <2> QED
    BY <2>1, <2>6 DEF PromiseInv
<1>7. ASSUME HandleMessage
      PROVE  PromiseInv'
  <2>1. UNCHANGED <<pending, session>>
    BY <1>7 DEF HandleMessage, mainVars
  <2> QED
    BY <1>0, <1>7, <2>1, HandledIsHeld DEF PromiseInv
<1>8. ASSUME Connected
      PROVE  PromiseInv'
  <2>1. /\ UNCHANGED <<toWorker, pending, session, deaf>>
        /\ unacked' = unacked \cup Range(queue) /\ post(<<Signal("connected")>>)
    BY <1>8 DEF Connected, Flushed, emit, mainVars
  <2>2. Answered \subseteq Answered'
    BY <2>1, SignalTypes, AnsweredPost
  <2>3. Called' = Called
    BY <2>1 DEF Called, Asks
  <2> QED
    BY <1>0, <2>1, <2>2, <2>3 DEF PromiseInv, Held
<1>9. ASSUME Lost \/ Attempt \/ ConnectError
      PROVE  PromiseInv'
  <2>1. /\ UNCHANGED <<toWorker, pending, session, queue>>
        /\ unacked \cup deaf \subseteq unacked' \cup deaf'
    BY <1>9 DEF Lost, Attempt, ConnectError, Abandon, mainVars
  <2>2. PICK t \in {"disconnected", "connecting", "error"} : post(<<Signal(t)>>)
    BY <1>9 DEF Lost, Attempt, ConnectError
  <2>3. Answered \subseteq Answered'
    BY <2>2, SignalTypes, AnsweredPost
  <2>4. Called' = Called
    BY <2>1 DEF Called, Asks
  <2> QED
    BY <1>0, <2>1, <2>3, <2>4 DEF PromiseInv, Held
<1>10. ASSUME UNCHANGED vars
       PROVE  PromiseInv'
  <2>1. UNCHANGED <<toWorker, toMain, pending, session, queue, unacked, deaf>>
    BY <1>10 DEF vars, mainVars
  <2>2. Called' = Called /\ Answered' = Answered
    BY <2>1 DEF Called, Asks, Answered
  <2> QED
    BY <1>0, <2>1, <2>2 DEF PromiseInv, Held
<1> QED
  BY <1>1, <1>2, <1>3, <1>4, <1>5, <1>6, <1>7, <1>8, <1>9, <1>10 DEF Next

\* The promise of a request is never forgotten while its session lasts: the
\* call is in the channel, held back, emitted or answered, or it was emitted on a
\* connection that went first or to a server that did not listen yet.  This is
\* the safety half of EveryRequestEnds.
THEOREM PromisesAreHeld == Spec => []Held
<1>1. Init => PromiseInv
  BY DEF Init, PromiseInv, Held
<1>2. TypeOK /\ PromiseInv /\ [Next]_vars => PromiseInv'
  BY PromiseStep
<1>3. PromiseInv => Held
  BY DEF PromiseInv
<1> QED
  BY <1>1, <1>2, <1>3, TypeCorrect, PTL DEF Spec
=============================================================================
