------------------------ MODULE MessagePipelineProofs ------------------------
(***************************************************************************)
(* Results about the message pipeline, for any number of replicas, users,  *)
(* connections, requests and faults: its type correctness; whatever the    *)
(* broker carries or a client received is about a message that is in the   *)
(* collection; and no connection misses a message routed to its user.      *)
(* Then the pipeline is shown to implement DirectMessaging: the heart of   *)
(* it is that a connection receives a message at most once although the    *)
(* broker redelivers, because an entry is published once, is on one wire   *)
(* or else in at most one place of each replica, and a copy that still     *)
(* waits at the replica of an open connection was not received by it.      *)
(* Last, sends made one after the other keep their order.                  *)
(***************************************************************************)
EXTENDS MessagePipeline, SequenceLemmas

-----------------------------------------------------------------------------
(* Type correctness.                                                       *)

\* What publishMessage is given is an entry.
LEMMA EntryTypes ==
    ASSUME NEW r \in Requests
    PROVE  RecipientEntry(r) \in Entry /\ EchoEntry(r) \in Entry
BY PipelineAssumption DEF RecipientEntry, EchoEntry, Entry

\* Publishing an entry keeps the type of the wires.
LEMMA PublishType ==
    ASSUME TypeOK, NEW n, NEW e \in Entry, publishMessage(n, e)
    PROVE  wire' \in [Nodes -> Seq(Entry)]
<1>1. wire \in [Nodes -> Seq(Entry)]
  BY DEF TypeOK
<1>2. n \in Nodes => Append(wire[n], e) \in Seq(Entry)
  BY <1>1
<1>3. wire' = [wire EXCEPT ![n] = Append(wire[n], e)]
  BY DEF publishMessage
<1> QED
  BY <1>1, <1>2, <1>3

\* A redelivery puts a sequence of entries in front of another.
LEMMA RequeuedType ==
    ASSUME TypeOK, NEW n \in Nodes
    PROVE  Requeued(n) \in Seq(Entry)
BY DEF TypeOK, Requeued

\* The end of a replica's process keeps the types of all it touches.
LEMMA StopProcessType ==
    ASSUME TypeOK, NEW n \in Nodes, StopProcess(n), faults' \in 0..MaxFaults
    PROVE  TypeOK'
BY RequeuedType DEF TypeOK, StopProcess, Live, Running

\* The bound on faults is kept.
LEMMA FaultType ==
    ASSUME TypeOK, Fault
    PROVE  faults' \in 0..MaxFaults
BY PipelineAssumption DEF TypeOK, Fault

\* Every step of the pipeline keeps the type invariant.
LEMMA TypeStep == TypeOK /\ [Next]_vars => TypeOK'
<1> SUFFICES ASSUME TypeOK, [Next]_vars
             PROVE  TypeOK'
    OBVIOUS
<1> USE PipelineAssumption
<1>1. ASSUME NEW r \in Requests, NEW n \in Nodes, Receive(n, r)
      PROVE  TypeOK'
  BY <1>1 DEF TypeOK, Receive, Running, procVars, brokerVars, sockVars
<1>2. ASSUME NEW r \in Requests, ArriveBeforeHandlers(r)
      PROVE  TypeOK'
  BY <1>2 DEF TypeOK, ArriveBeforeHandlers, Running, procVars, brokerVars, sockVars
<1>3. ASSUME NEW r \in Requests, insertMessage(r)
      PROVE  TypeOK'
  BY <1>3 DEF TypeOK, insertMessage, insertOne, Running, procVars, brokerVars, sockVars
<1>4. ASSUME NEW r \in Requests, PublishToRecipient(r)
      PROVE  TypeOK'
  <2>1. wire' \in [Nodes -> Seq(Entry)]
    BY <1>4, EntryTypes, PublishType DEF PublishToRecipient
  <2> QED
    BY <1>4, <2>1 DEF TypeOK, PublishToRecipient, publishMessage, Running, procVars, sockVars
<1>5. ASSUME NEW r \in Requests, PublishEchoAndAck(r)
      PROVE  TypeOK'
  <2>1. wire' \in [Nodes -> Seq(Entry)]
    BY <1>5, EntryTypes, PublishType DEF PublishEchoAndAck
  <2> QED
    BY <1>5, <2>1 DEF TypeOK, PublishEchoAndAck, publishMessage, Tell, Running, procVars, sockVars
<1>6. ASSUME NEW r \in Requests, Fail(r)
      PROVE  TypeOK'
  BY <1>6 DEF TypeOK, Fail, Tell, Running, procVars, brokerVars, sockVars
<1>7. ASSUME NEW n \in Nodes, Route(n)
      PROVE  TypeOK'
  <2> DEFINE e == Head(wire[n])
  <2>1. e \in Entry /\ Tail(wire[n]) \in Seq(Entry)
    BY <1>7 DEF TypeOK, Route
  <2>2. queue' \in [Nodes -> Seq(Entry)]
    BY <1>7, <2>1 DEF TypeOK, Route, push
  <2>3. owed' \in [Sockets -> SUBSET Requests]
    BY <1>7, <2>1 DEF TypeOK, Route, Entry
  <2> QED
    BY <1>7, <2>1, <2>2, <2>3 DEF TypeOK, Route, procVars, sockVars, sendVars
<1>8. ASSUME NEW n \in Nodes, deliverMessageToSocketIo(n)
      PROVE  TypeOK'
  <2> DEFINE e == Head(queue[n])
  <2>1. e \in Entry /\ Tail(queue[n]) \in Seq(Entry)
    BY <1>8 DEF TypeOK, deliverMessageToSocketIo
  <2>2. inbox' \in [Sockets -> Seq(Requests)]
    BY <1>8, <2>1 DEF TypeOK, deliverMessageToSocketIo, Entry
  <2>3. tasks' \in [Nodes -> Seq(Entry)]
    BY <1>8, <2>1 DEF TypeOK, deliverMessageToSocketIo
  <2> QED
    BY <1>8, <2>1, <2>2, <2>3 DEF TypeOK, deliverMessageToSocketIo, procVars, sendVars
<1>9. ASSUME NEW n \in Nodes, NEW i \in DOMAIN tasks[n], Settle(n, i)
      PROVE  TypeOK'
  <2>1. CASE channel[n]
    <3>1. RemoveAt(tasks[n], i) \in Seq(Entry)
      BY RemoveAtFacts DEF TypeOK
    <3> QED
      BY <1>9, <2>1, <3>1, ZenonT(60) DEF TypeOK, Settle, procVars, sockVars, sendVars
  <2>2. CASE ~channel[n]
    BY <1>9, <2>2, StopProcessType DEF TypeOK, Settle
  <2> QED
    BY <2>1, <2>2
<1>10. ASSUME NEW n \in Nodes, LoseChannel(n)
       PROVE  TypeOK'
  BY <1>10, RequeuedType, FaultType DEF TypeOK, LoseChannel, sockVars, sendVars
<1>11. ASSUME NEW n \in Nodes, connectRabbit(n) \/ Listen(n)
       PROVE  TypeOK'
  BY <1>11, ZenonT(60) DEF TypeOK, connectRabbit, Listen, brokerVars, sockVars, sendVars
<1>12. ASSUME NEW n \in Nodes, Shutdown(n) \/ closeSocketIo(n)
       PROVE  TypeOK'
  <2>1. CASE Shutdown(n)
    BY <2>1, FaultType DEF TypeOK, Shutdown, brokerVars, sockVars, sendVars
  <2>2. CASE closeSocketIo(n)
    BY <2>2 DEF TypeOK, closeSocketIo, Live, brokerVars, sendVars
  <2> QED
    BY <1>12, <2>1, <2>2
<1>13. ASSUME NEW n \in Nodes, Exit(n)
       PROVE  TypeOK'
  BY <1>13, StopProcessType DEF TypeOK, Exit
<1>14. ASSUME NEW n \in Nodes, Crash(n)
       PROVE  TypeOK'
  BY <1>14, StopProcessType, FaultType DEF TypeOK, Crash
<1>15. ASSUME NEW s \in Sockets, NEW n \in Nodes, Connect(s, n)
       PROVE  TypeOK'
  BY <1>15 DEF TypeOK, Connect, procVars, brokerVars, sendVars
<1>16. ASSUME NEW s \in Sockets, Join(s) \/ Disconnect(s)
       PROVE  TypeOK'
  BY <1>16 DEF TypeOK, Join, Disconnect, procVars, brokerVars, sendVars
<1>17. CASE UNCHANGED vars
  BY <1>17 DEF TypeOK, vars, procVars, brokerVars, sockVars, sendVars
<1> QED
  BY <1>1, <1>2, <1>3, <1>4, <1>5, <1>6, <1>7, <1>8, <1>9, <1>10, <1>11, <1>12,
     <1>13, <1>14, <1>15, <1>16, <1>17 DEF Next, Handle

\* The initial state is well typed.
LEMMA TypeInit == Init => TypeOK
BY PipelineAssumption DEF Init, TypeOK, Running

\* Type correctness of the pipeline, for every value of its constants.
THEOREM TypeCorrect == Spec => []TypeOK
BY TypeInit, TypeStep, PTL DEF Spec

-----------------------------------------------------------------------------
(* What is announced is stored.  AnnouncedIsStored is not inductive: that a *)
(* publish finds its message in the collection depends on how far the       *)
(* handler is, which Handled adds.  The rest is stated as a type: sequences *)
(* of sound entries and of stored messages.                                 *)

Sound == {e \in Entry : e.msg \in messages /\ e.to \in {Author[e.msg], Peer[e.msg]}}
Handled == \A r \in Requests : pc[r] \in {"inserted", "announced"} => r \in messages
Carried ==
    /\ wire \in [Nodes -> Seq(Sound)]
    /\ queue \in [Nodes -> Seq(Sound)]
    /\ tasks \in [Nodes -> Seq(Sound)]
    /\ inbox \in [Sockets -> Seq(messages)]
Inv == TypeOK /\ Handled /\ Carried

\* What is sound depends on the collection alone.
LEMMA SoundSame ==
    ASSUME messages' = messages
    PROVE  Sound' = Sound
BY DEF Sound

\* A step that leaves broker, inboxes and collection alone, and takes no
\* handler past its insert, keeps the invariant.
LEMMA Quiet ==
    ASSUME Inv, TypeOK', UNCHANGED <<wire, queue, tasks, inbox, messages>>,
           \A r \in Requests :
               pc'[r] \in {"inserted", "announced"} => pc[r] \in {"inserted", "announced"}
    PROVE  Inv'
BY SoundSame DEF Inv, Handled, Carried

\* A published entry is sound when its message is stored.
LEMMA PublishSound ==
    ASSUME Inv, NEW n, NEW e \in Sound, publishMessage(n, e)
    PROVE  wire' \in [Nodes -> Seq(Sound)]
<1>1. wire \in [Nodes -> Seq(Sound)]
  BY DEF Inv, Carried
<1>2. n \in Nodes => Append(wire[n], e) \in Seq(Sound)
  BY <1>1
<1>3. wire' = [wire EXCEPT ![n] = Append(wire[n], e)]
  BY DEF publishMessage
<1> QED
  BY <1>1, <1>2, <1>3

\* Redelivered entries are sound.
LEMMA RequeuedSound ==
    ASSUME Inv, NEW n \in Nodes
    PROVE  Requeued(n) \in Seq(Sound)
BY DEF Inv, Carried, Requeued

\* The end of a process keeps the invariant.
LEMMA StopProcessSound ==
    ASSUME Inv, TypeOK', NEW n \in Nodes, StopProcess(n)
    PROVE  Inv'
<1>1. Sound' = Sound
  BY SoundSame DEF StopProcess
<1>2. Carried'
  BY <1>1, RequeuedSound DEF Inv, Carried, StopProcess
<1>3. Handled'
  BY DEF Inv, TypeOK, Handled, StopProcess
<1> QED
  BY <1>2, <1>3 DEF Inv

\* Every step keeps the invariant.
LEMMA InvStep == Inv /\ [Next]_vars => Inv'
<1> SUFFICES ASSUME Inv, [Next]_vars
             PROVE  Inv'
    OBVIOUS
<1>0. TypeOK /\ TypeOK'
  BY TypeStep DEF Inv
<1>1. ASSUME NEW r \in Requests, NEW n \in Nodes, Receive(n, r)
      PROVE  Inv'
  BY <1>0, <1>1, Quiet DEF TypeOK, Receive, brokerVars, sockVars
<1>2. ASSUME NEW r \in Requests, ArriveBeforeHandlers(r)
      PROVE  Inv'
  BY <1>0, <1>2, Quiet DEF TypeOK, ArriveBeforeHandlers, brokerVars, sockVars
<1>3. ASSUME NEW r \in Requests, insertMessage(r)
      PROVE  Inv'
  <2>1. messages' = messages \cup {r}
    BY <1>3 DEF insertMessage, insertOne
  <2>2. Sound \subseteq Sound'
    BY <2>1 DEF Sound
  <2>3. Seq(Sound) \subseteq Seq(Sound') /\ Seq(messages) \subseteq Seq(messages')
    BY <2>1, <2>2, SeqMonotone
  <2>4. Carried'
    BY <1>3, <2>3 DEF Inv, Carried, insertMessage, brokerVars, sockVars
  <2>5. Handled'
    BY <1>0, <1>3, <2>1 DEF Inv, TypeOK, Handled, insertMessage
  <2> QED
    BY <1>0, <2>4, <2>5 DEF Inv
<1>4. ASSUME NEW r \in Requests, PublishToRecipient(r)
      PROVE  Inv'
  <2>1. RecipientEntry(r) \in Sound
    BY <1>4, EntryTypes DEF Inv, Handled, Sound, RecipientEntry, PublishToRecipient
  <2>2. wire' \in [Nodes -> Seq(Sound)]
    BY <1>4, <2>1, PublishSound DEF PublishToRecipient
  <2>3. Carried'
    BY <1>4, <2>2, SoundSame DEF Inv, Carried, PublishToRecipient, publishMessage, sockVars
  <2>4. Handled'
    BY <1>0, <1>4 DEF Inv, TypeOK, Handled, PublishToRecipient
  <2> QED
    BY <1>0, <2>3, <2>4 DEF Inv
<1>5. ASSUME NEW r \in Requests, PublishEchoAndAck(r)
      PROVE  Inv'
  <2>1. EchoEntry(r) \in Sound
    BY <1>5, EntryTypes DEF Inv, Handled, Sound, EchoEntry, PublishEchoAndAck
  <2>2. wire' \in [Nodes -> Seq(Sound)]
    BY <1>5, <2>1, PublishSound DEF PublishEchoAndAck
  <2>3. Carried'
    BY <1>5, <2>2, SoundSame DEF Inv, Carried, PublishEchoAndAck, publishMessage, sockVars
  <2>4. Handled'
    BY <1>0, <1>5 DEF Inv, TypeOK, Handled, PublishEchoAndAck
  <2> QED
    BY <1>0, <2>3, <2>4 DEF Inv
<1>6. ASSUME NEW r \in Requests, Fail(r)
      PROVE  Inv'
  BY <1>0, <1>6, Quiet DEF TypeOK, Fail, brokerVars, sockVars
<1>7. ASSUME NEW n \in Nodes, Route(n)
      PROVE  Inv'
  <2>1. Head(wire[n]) \in Sound /\ Tail(wire[n]) \in Seq(Sound)
    BY <1>7 DEF Inv, Carried, Route
  <2>2. queue' \in [Nodes -> Seq(Sound)]
    BY <1>7, <2>1 DEF Inv, Carried, Route, push
  <2>3. Carried'
    BY <1>7, <2>1, <2>2, SoundSame DEF Inv, Carried, Route, sockVars, sendVars
  <2>4. Handled'
    BY <1>7 DEF Inv, Handled, Route, sendVars
  <2> QED
    BY <1>0, <2>3, <2>4 DEF Inv
<1>8. ASSUME NEW n \in Nodes, deliverMessageToSocketIo(n)
      PROVE  Inv'
  <2> DEFINE e == Head(queue[n])
  <2>1. e \in Sound /\ Tail(queue[n]) \in Seq(Sound)
    BY <1>8 DEF Inv, Carried, deliverMessageToSocketIo
  <2>2. e.msg \in messages
    BY <2>1 DEF Sound
  <2>3. inbox' \in [Sockets -> Seq(messages)]
    BY <1>8, <2>2 DEF Inv, Carried, deliverMessageToSocketIo
  <2>4. tasks' \in [Nodes -> Seq(Sound)]
    BY <1>8, <2>1 DEF Inv, Carried, deliverMessageToSocketIo
  <2>5. Carried'
    BY <1>8, <2>1, <2>3, <2>4, SoundSame DEF Inv, Carried, deliverMessageToSocketIo, sendVars
  <2>6. Handled'
    BY <1>8 DEF Inv, Handled, deliverMessageToSocketIo, sendVars
  <2> QED
    BY <1>0, <2>5, <2>6 DEF Inv
<1>9. ASSUME NEW n \in Nodes, NEW i \in DOMAIN tasks[n], Settle(n, i)
      PROVE  Inv'
  <2>1. CASE channel[n]
    <3>1. RemoveAt(tasks[n], i) \in Seq(Sound)
      BY RemoveAtFacts DEF Inv, Carried
    <3>2. Carried'
      BY <1>9, <2>1, <3>1, SoundSame DEF Inv, Carried, Settle, sockVars, sendVars
    <3>3. Handled'
      BY <1>9, <2>1 DEF Inv, Handled, Settle, sendVars
    <3> QED
      BY <1>0, <3>2, <3>3 DEF Inv
  <2>2. CASE ~channel[n]
    BY <1>0, <1>9, <2>2, StopProcessSound DEF Settle
  <2> QED
    BY <2>1, <2>2
<1>10. ASSUME NEW n \in Nodes, LoseChannel(n)
       PROVE  Inv'
  <2>1. Carried'
    BY <1>10, RequeuedSound, SoundSame DEF Inv, Carried, LoseChannel, sockVars, sendVars
  <2>2. Handled'
    BY <1>10 DEF Inv, Handled, LoseChannel, sendVars
  <2> QED
    BY <1>0, <2>1, <2>2 DEF Inv
<1>11. ASSUME NEW n \in Nodes,
              connectRabbit(n) \/ Listen(n) \/ Shutdown(n) \/ closeSocketIo(n)
       PROVE  Inv'
  BY <1>0, <1>11, Quiet
     DEF connectRabbit, Listen, Shutdown, closeSocketIo, brokerVars, sockVars, sendVars
<1>12. ASSUME NEW n \in Nodes, Exit(n) \/ Crash(n)
       PROVE  Inv'
  BY <1>0, <1>12, StopProcessSound DEF Exit, Crash
<1>13. ASSUME NEW s \in Sockets, NEW n \in Nodes, Connect(s, n)
       PROVE  Inv'
  BY <1>0, <1>13, Quiet DEF Connect, brokerVars, sendVars
<1>14. ASSUME NEW s \in Sockets, Join(s) \/ Disconnect(s)
       PROVE  Inv'
  BY <1>0, <1>14, Quiet DEF Join, Disconnect, brokerVars, sendVars
<1>15. CASE UNCHANGED vars
  BY <1>0, <1>15, Quiet DEF vars, brokerVars, sockVars, sendVars
<1> QED
  BY <1>1, <1>2, <1>3, <1>4, <1>5, <1>6, <1>7, <1>8, <1>9, <1>10, <1>11, <1>12,
     <1>13, <1>14, <1>15 DEF Next, Handle

\* Nothing is carried at first.
LEMMA InvInit == Init => Inv
BY TypeInit DEF Init, Inv, Handled, Carried

\* The invariant gives the property.
LEMMA InvImplies == Inv => AnnouncedIsStored
<1> SUFFICES ASSUME Inv
             PROVE  AnnouncedIsStored
    OBVIOUS
<1>1. \A n \in Nodes : /\ Range(wire[n]) \subseteq Sound
                       /\ Range(queue[n]) \subseteq Sound
                       /\ Range(tasks[n]) \subseteq Sound
  BY RangeOfTyped DEF Inv, Carried
<1>2. InTransit \subseteq Sound
  BY <1>1 DEF InTransit, Pending
<1>3. \A s \in Sockets : Range(inbox[s]) \subseteq messages
  BY RangeOfTyped DEF Inv, Carried
<1> QED
  BY <1>2, <1>3 DEF AnnouncedIsStored, Received, Sound

\* A client that hears of a message can rely on its being stored: no entry is
\* published, redelivered or delivered for a message that is not.
THEOREM AnnouncedOnlyIfStored == Spec => []AnnouncedIsStored
BY InvInit, InvStep, InvImplies, PTL DEF Spec

-----------------------------------------------------------------------------
(* No silent loss.  Besides the owed message itself the invariant follows   *)
(* where a connection lives: only on a replica that is up or closing, whose *)
(* queue is bound, and with nothing owed before it joined its room.         *)

Placed ==
    /\ \A n \in Nodes : node[n] # "down" => n \in bound
    /\ \A s \in Sockets : Live(s) => host[s] \in Nodes /\ node[host[s]] \in {"up", "closing"}
    /\ \A s \in Sockets : sock[s] \in {"off", "auth"} => owed[s] = {}
Waits(s, r) ==
    \E e \in Range(queue[host[s]]) : e.msg = r /\ e.to = Owner[s] /\ e.skip # s
Kept ==
    \A s \in Sockets : sock[s] = "joined" /\ node[host[s]] = "up" =>
        \A r \in owed[s] : r \in Range(inbox[s]) \/ Waits(s, r)
LossInv == TypeOK /\ Placed /\ Kept

\* A step that creates no obligation and removes nothing from a queue or an inbox.
LEMMA KeptStep ==
    ASSUME LossInv, Placed', owed' = owed, host' = host,
           \A s \in Sockets : sock'[s] = "joined" => sock[s] = "joined" \/ owed[s] = {},
           \A s \in Sockets : sock[s] = "joined" /\ node'[host[s]] = "up" => node[host[s]] = "up",
           \A s \in Sockets : Range(inbox[s]) \subseteq Range(inbox'[s]),
           \A n \in Nodes : Range(queue[n]) \subseteq Range(queue'[n])
    PROVE  Kept'
<1> SUFFICES ASSUME NEW s \in Sockets, sock'[s] = "joined", node'[host'[s]] = "up",
                    NEW r \in owed'[s]
             PROVE  r \in Range(inbox'[s]) \/ Waits(s, r)'
    BY DEF Kept
<1>1. sock[s] = "joined" /\ node[host[s]] = "up" /\ r \in owed[s]
  OBVIOUS
<1>2. host[s] \in Nodes
  BY <1>1 DEF LossInv, Placed, Live
<1> QED
  BY <1>1, <1>2 DEF LossInv, Kept, Waits

\* Requeueing keeps what was queued.
LEMMA RequeuedKeeps ==
    ASSUME TypeOK, NEW n \in Nodes
    PROVE  Range(queue[n]) \subseteq Range(Requeued(n))
BY RangeConcat DEF TypeOK, Requeued

\* The end of a process keeps what is owed to others.
LEMMA StopProcessKeeps ==
    ASSUME LossInv, TypeOK', NEW n \in Nodes, StopProcess(n)
    PROVE  LossInv'
<1>1. Placed'
  BY DEF LossInv, TypeOK, Placed, StopProcess, Live
<1>2. \A m \in Nodes : Range(queue[m]) \subseteq Range(queue'[m])
  BY RequeuedKeeps DEF LossInv, TypeOK, StopProcess
<1>3. Kept'
  BY <1>1, <1>2, KeptStep DEF LossInv, TypeOK, StopProcess, Live
<1> QED
  BY <1>1, <1>3 DEF LossInv

\* Every step keeps the invariant.
LEMMA LossStep == LossInv /\ [Next]_vars => LossInv'
<1> SUFFICES ASSUME LossInv, [Next]_vars
             PROVE  LossInv'
    OBVIOUS
<1>0. TypeOK /\ TypeOK' /\ Placed
  BY TypeStep DEF LossInv
<1>1. ASSUME UNCHANGED <<node, bound, queue, sock, host, inbox, owed>>
      PROVE  LossInv'
  <2>1. Placed'
    BY <1>0, <1>1 DEF Placed, Live
  <2> QED
    BY <1>0, <1>1, <2>1, KeptStep DEF LossInv
<1>2. ASSUME NEW r \in Requests, NEW n \in Nodes, Receive(n, r)
      PROVE  LossInv'
  BY <1>1, <1>2 DEF Receive, procVars, brokerVars, sockVars
<1>3. ASSUME NEW r \in Requests, ArriveBeforeHandlers(r) \/ insertMessage(r) \/ Fail(r)
      PROVE  LossInv'
  BY <1>1, <1>3 DEF ArriveBeforeHandlers, insertMessage, Fail, procVars, brokerVars, sockVars
<1>4. ASSUME NEW r \in Requests, PublishToRecipient(r) \/ PublishEchoAndAck(r)
      PROVE  LossInv'
  BY <1>1, <1>4 DEF PublishToRecipient, PublishEchoAndAck, publishMessage, procVars, sockVars
<1>5. ASSUME NEW n \in Nodes, Route(n)
      PROVE  LossInv'
  <2> DEFINE e == Head(wire[n])
  <2>1. e \in Entry
    BY <1>0, <1>5 DEF TypeOK, Route
  <2>2. \A m \in Nodes : Range(queue[m]) \subseteq Range(queue'[m])
    BY <1>0, <1>5, <2>1, RangeAppend DEF TypeOK, Route, push
  <2>3. \A m \in bound : e \in Range(queue'[m])
    BY <1>0, <1>5, <2>1, RangeAppend DEF TypeOK, Route, push, Destinations
  <2>4. Placed'
    BY <1>0, <1>5 DEF TypeOK, Placed, Live, Route, procVars, sockVars
  <2>5. ASSUME NEW s \in Sockets, sock'[s] = "joined", node'[host'[s]] = "up",
               NEW r \in owed'[s]
        PROVE  r \in Range(inbox'[s]) \/ Waits(s, r)'
    <3>1. /\ sock[s] = "joined" /\ node[host[s]] = "up" /\ host[s] \in bound
          /\ host[s] \in Nodes /\ host' = host /\ inbox' = inbox
      BY <1>0, <1>5, <2>5 DEF Placed, Live, Route, procVars, sockVars
    <3>2. CASE r \in owed[s]
      BY <3>1, <3>2, <2>2, SMTT(30) DEF LossInv, Kept, Waits
    <3>3. CASE r \notin owed[s]
      <4>1. r = e.msg /\ e.to = Owner[s] /\ e.skip # s
        BY <1>0, <1>5, <2>5, <3>3 DEF TypeOK, Route
      <4> QED
        BY <3>1, <2>3, <4>1 DEF Waits
    <3> QED
      BY <3>2, <3>3
  <2> QED
    BY <1>0, <2>4, <2>5 DEF LossInv, Kept
<1>6. ASSUME NEW n \in Nodes, deliverMessageToSocketIo(n)
      PROVE  LossInv'
  <2> DEFINE e == Head(queue[n])
  <2>1. e \in Entry
    BY <1>0, <1>6 DEF TypeOK, deliverMessageToSocketIo
  <2>2. \A s \in Sockets : Range(inbox[s]) \subseteq Range(inbox'[s])
    BY <1>0, <1>6, <2>1, RangeAppend DEF TypeOK, Entry, deliverMessageToSocketIo
  <2>3. Placed'
    BY <1>0, <1>6 DEF TypeOK, Placed, Live, deliverMessageToSocketIo, procVars
  <2>4. ASSUME NEW s \in Sockets, sock'[s] = "joined", node'[host'[s]] = "up",
               NEW r \in owed'[s]
        PROVE  r \in Range(inbox'[s]) \/ Waits(s, r)'
    <3>1. /\ sock[s] = "joined" /\ node[host[s]] = "up" /\ host[s] \in Nodes
          /\ host' = host /\ r \in owed[s]
      BY <1>0, <1>6, <2>4 DEF Placed, Live, deliverMessageToSocketIo, procVars
    <3>2. r \in Range(inbox[s]) \/ Waits(s, r)
      BY <3>1 DEF LossInv, Kept
    <3>3. CASE r \in Range(inbox[s])
      BY <2>2, <3>3
    <3>4. CASE Waits(s, r)
      <4>1. PICK x \in Range(queue[host[s]]) : x.msg = r /\ x.to = Owner[s] /\ x.skip # s
        BY <3>4 DEF Waits
      <4>2. CASE x \in Range(queue'[host[s]])
        BY <3>1, <4>1, <4>2 DEF Waits
      <4>3. CASE x \notin Range(queue'[host[s]])
        <5>1. host[s] = n /\ x = e
          BY <1>0, <1>6, <3>1, <4>3, RangeHeadTail DEF TypeOK, deliverMessageToSocketIo
        <5>2. s \in RoomOf(n, e.to) \ {e.skip} /\ Wired(n)
          BY <3>1, <4>1, <5>1 DEF RoomOf, Wired
        <5>3. inbox'[s] = Append(inbox[s], r)
          BY <1>6, <4>1, <5>1, <5>2 DEF deliverMessageToSocketIo
        <5> QED
          BY <1>0, <5>3, RangeAppend DEF TypeOK
      <4> QED
        BY <4>2, <4>3
    <3> QED
      BY <3>2, <3>3, <3>4
  <2> QED
    BY <1>0, <2>3, <2>4 DEF LossInv, Kept
<1>7. ASSUME NEW n \in Nodes, NEW i \in DOMAIN tasks[n], Settle(n, i)
      PROVE  LossInv'
  <2>1. CASE channel[n]
    BY <1>1, <1>7, <2>1 DEF Settle, procVars, sockVars
  <2>2. CASE ~channel[n]
    BY <1>0, <1>7, <2>2, StopProcessKeeps DEF Settle
  <2> QED
    BY <2>1, <2>2
<1>8. ASSUME NEW n \in Nodes, LoseChannel(n)
      PROVE  LossInv'
  <2>1. Placed'
    BY <1>0, <1>8 DEF Placed, Live, LoseChannel, sockVars
  <2>2. \A m \in Nodes : Range(queue[m]) \subseteq Range(queue'[m])
    BY <1>0, <1>8, RequeuedKeeps DEF TypeOK, LoseChannel
  <2> QED
    BY <1>0, <1>8, <2>1, <2>2, KeptStep DEF LossInv, LoseChannel, sockVars
<1>9. ASSUME NEW n \in Nodes, connectRabbit(n)
      PROVE  LossInv'
  <2>1. node[n] = "down" /\ \A m \in Nodes : node'[m] = IF m = n THEN "booting" ELSE node[m]
    BY <1>0, <1>9 DEF TypeOK, connectRabbit
  <2>2. UNCHANGED <<queue, sock, host, inbox, owed>> /\ bound' = bound \cup {n}
    BY <1>9 DEF connectRabbit, sockVars
  <2>3. Placed'
    BY <1>0, <2>1, <2>2 DEF Placed, Live
  <2> QED
    BY <1>0, <2>1, <2>2, <2>3, KeptStep DEF LossInv, Placed, Live
<1>10. ASSUME NEW n \in Nodes, Listen(n)
       PROVE  LossInv'
  <2>1. node[n] = "booting" /\ \A m \in Nodes : node'[m] = IF m = n THEN "up" ELSE node[m]
    BY <1>0, <1>10 DEF TypeOK, Listen
  <2>2. UNCHANGED <<bound, queue, sock, host, inbox, owed>>
    BY <1>10 DEF Listen, brokerVars, sockVars
  <2>3. Placed'
    BY <1>0, <2>1, <2>2 DEF Placed, Live
  <2> QED
    BY <1>0, <2>1, <2>2, <2>3, KeptStep DEF LossInv, Placed, Live
<1>11. ASSUME NEW n \in Nodes, Shutdown(n)
       PROVE  LossInv'
  <2>1. node[n] = "up" /\ \A m \in Nodes : node'[m] = IF m = n THEN "closing" ELSE node[m]
    BY <1>0, <1>11 DEF TypeOK, Shutdown
  <2>2. UNCHANGED <<bound, queue, sock, host, inbox, owed>>
    BY <1>11 DEF Shutdown, brokerVars, sockVars
  <2>3. Placed'
    BY <1>0, <2>1, <2>2 DEF Placed, Live
  <2> QED
    BY <1>0, <2>1, <2>2, <2>3, KeptStep DEF LossInv, Placed, Live
<1>12. ASSUME NEW n \in Nodes, closeSocketIo(n)
       PROVE  LossInv'
  <2>1. node[n] = "closing" /\ \A m \in Nodes : node'[m] = IF m = n THEN "draining" ELSE node[m]
    BY <1>0, <1>12 DEF TypeOK, closeSocketIo
  <2>2. UNCHANGED <<bound, queue, host, inbox, owed>>
    BY <1>12 DEF closeSocketIo, brokerVars
  <2>3. \A s \in Sockets : sock'[s] = IF Live(s) /\ host[s] = n THEN "closed" ELSE sock[s]
    BY <1>12 DEF closeSocketIo
  <2>4. Placed'
    BY <1>0, <2>1, <2>2, <2>3 DEF Placed, Live
  <2> QED
    BY <1>0, <2>1, <2>2, <2>3, <2>4, KeptStep DEF LossInv, Placed, Live
<1>13. ASSUME NEW n \in Nodes, Exit(n) \/ Crash(n)
       PROVE  LossInv'
  BY <1>0, <1>13, StopProcessKeeps DEF Exit, Crash
<1>14. ASSUME NEW s \in Sockets, NEW n \in Nodes, Connect(s, n)
       PROVE  LossInv'
  <2>1. Placed'
    BY <1>0, <1>14 DEF TypeOK, Placed, Live, Connect, procVars, brokerVars
  <2>2. Kept'
    BY <1>0, <1>14 DEF TypeOK, LossInv, Kept, Waits, Connect, procVars, brokerVars
  <2> QED
    BY <1>0, <2>1, <2>2 DEF LossInv
<1>15. ASSUME NEW s \in Sockets, Join(s) \/ Disconnect(s)
       PROVE  LossInv'
  <2>1. Placed'
    BY <1>0, <1>15, ZenonT(60) DEF TypeOK, Placed, Live, Join, Disconnect, procVars, brokerVars
  <2> QED
    BY <1>0, <1>15, <2>1, KeptStep
       DEF LossInv, TypeOK, Placed, Join, Disconnect, procVars, brokerVars
<1>16. CASE UNCHANGED vars
  BY <1>1, <1>16 DEF vars, procVars, brokerVars, sockVars
<1> QED
  BY <1>2, <1>3, <1>4, <1>5, <1>6, <1>7, <1>8, <1>9, <1>10, <1>11, <1>12, <1>13,
     <1>14, <1>15, <1>16 DEF Next, Handle

\* Nothing is owed at first.
LEMMA LossInit == Init => LossInv
BY TypeInit DEF Init, LossInv, Placed, Kept, Live

\* A connection in its room receives every message routed to its user, or finds
\* it waiting, as long as its replica is not shutting down.
THEOREM DeliveryNotSkipped == Spec => []NoSilentLoss
<1>1. LossInv => NoSilentLoss
  BY DEF LossInv, Kept, Waits, NoSilentLoss, Received, Pending
<1> QED
  BY LossInit, LossStep, <1>1, PTL DEF Spec

-----------------------------------------------------------------------------
(* The invariant.                                                          *)

\* The two entries of a request are told apart by their addressee.
Shape(e) == e \in Entry /\ (e = RecipientEntry(e.msg) \/ e = EchoEntry(e.msg))
Shaped == \A n \in Nodes :
    \A e \in Range(wire[n]) \cup Range(queue[n]) \cup Range(tasks[n]) : Shape(e)

\* No queue has a copy of e, and no connection it is for has its message.
Fresh(e) ==
    /\ \A n \in Nodes : e \notin Range(queue[n]) /\ e \notin Range(tasks[n])
    /\ \A s \in Sockets : Owner[s] = e.to => e.msg \notin Range(inbox[s])
OffWire(e) == \A n \in Nodes : e \notin Range(wire[n])

Unpublished ==
    \A r \in Requests :
        /\ pc[r] \in {"new", "accepted", "inserted"} =>
              Fresh(RecipientEntry(r)) /\ OffWire(RecipientEntry(r))
        /\ pc[r] \in {"new", "accepted", "inserted", "announced"} =>
              Fresh(EchoEntry(r)) /\ OffWire(EchoEntry(r))
OnOneWire ==
    \A n \in Nodes : /\ Distinct(wire[n])
                     /\ \A e \in Range(wire[n]) : at[e.msg] = n /\ Fresh(e)

\* An unacknowledged delivery is put back only while the channel is open.
OneCopy ==
    \A n \in Nodes : /\ Distinct(queue[n])
                     /\ channel[n] => /\ Distinct(tasks[n])
                                      /\ Range(tasks[n]) \cap Range(queue[n]) = {}
                     /\ node[n] = "down" => tasks[n] = <<>>
Unseen ==
    \A s \in Sockets : Live(s) /\ channel[host[s]] =>
        \A e \in Range(queue[host[s]]) : e.to = Owner[s] => e.msg \notin Range(inbox[s])
Silent == \A s \in Sockets : sock[s] = "off" => inbox[s] = <<>>
Untold ==
    \A r \in Requests : /\ pc[r] \in {"new"} \cup Running => reply[r] = "none"
                        /\ pc[r] \in {"new", "accepted"} => r \notin messages

Once == Shaped /\ Unpublished /\ OnOneWire /\ OneCopy /\ Unseen /\ Silent /\ Untold
OnceInv == Inv /\ LossInv /\ Once

-----------------------------------------------------------------------------
(* Entries.                                                                *)

\* publishMessage is given entries of the right shape.
LEMMA EntryShapes ==
    ASSUME NEW r \in Requests
    PROVE  /\ Shape(RecipientEntry(r)) /\ Shape(EchoEntry(r))
           /\ RecipientEntry(r) # EchoEntry(r)
           /\ RecipientEntry(r).msg = r /\ EchoEntry(r).msg = r
BY EntryTypes, PipelineAssumption DEF Shape, RecipientEntry, EchoEntry

\* Message and addressee determine the entry: nobody writes to themselves.
LEMMA Determined ==
    ASSUME NEW e, NEW f, Shape(e), Shape(f), e.msg = f.msg, e.to = f.to
    PROVE  e = f
BY PipelineAssumption DEF Shape, Entry, RecipientEntry, EchoEntry

\* An entry never goes to the connection its message came from.
LEMMA NotToOrigin ==
    ASSUME NEW e, Shape(e), NEW s \in Sockets, Owner[s] = e.to, s # e.skip
    PROVE  s # Origin[e.msg] /\ e.to \in {Author[e.msg], Peer[e.msg]}
BY PipelineAssumption DEF Shape, Entry, RecipientEntry, EchoEntry

-----------------------------------------------------------------------------
(* The steps.                                                              *)

\* A step that publishes, routes and delivers nothing.
LEMMA OnceQuiet ==
    ASSUME OnceInv, UNCHANGED <<queue, tasks, inbox, channel>>,
           \A n \in Nodes : wire'[n] = wire[n],
           \A n \in Nodes : node'[n] = "down" => node[n] = "down",
           \A r \in Requests : pc[r] # "new" => at'[r] = at[r],
           \A r \in Requests, p \in {"new", "accepted", "inserted", "announced"} :
               /\ pc'[r] = p => pc[r] = p \/ (p = "accepted" /\ pc[r] = "new")
                                          \/ (p = "inserted" /\ pc[r] = "accepted")
               /\ pc'[r] = p => reply'[r] = reply[r]
               /\ pc'[r] \in {"new", "accepted"} /\ r \in messages' => r \in messages,
           \A s \in Sockets : host'[s] = host[s] \/ inbox[s] = <<>>,
           \A s \in Sockets : Live(s)' => Live(s) \/ inbox[s] = <<>>,
           \A s \in Sockets : sock'[s] = "off" => sock[s] = "off"
    PROVE  Once'
<1>1. Once /\ TypeOK
  BY DEF OnceInv, Inv
<1>2. Shaped'
  BY <1>1 DEF Once, Shaped
<1>3. ASSUME NEW e
      PROVE  (Fresh(e) => Fresh(e)') /\ (OffWire(e) => OffWire(e)')
  BY DEF Fresh, OffWire
<1>4. Unpublished'
  BY <1>1, <1>3 DEF Once, Unpublished, RecipientEntry, EchoEntry
<1>5. ASSUME NEW n \in Nodes, NEW e \in Range(wire'[n])
      PROVE  at'[e.msg] = n /\ Fresh(e)'
  <2>1. e \in Range(wire[n]) /\ at[e.msg] = n /\ Fresh(e) /\ Shape(e) /\ e.msg \in Requests
    BY <1>1, <1>5 DEF Once, OnOneWire, Shaped, Shape, Entry
  <2>2. pc[e.msg] # "new"
    BY <1>1, <2>1 DEF Once, Unpublished, OffWire, Shape
  <2> QED
    BY <1>3, <2>1, <2>2
<1>6. OnOneWire'
  BY <1>1, <1>5 DEF Once, OnOneWire
<1>7. OneCopy'
  BY <1>1 DEF Once, OneCopy
<1>8. Unseen'
  <2> SUFFICES ASSUME NEW s \in Sockets, Live(s)', channel'[host'[s]],
                      NEW e \in Range(queue'[host'[s]]), e.to = Owner[s]
               PROVE  e.msg \notin Range(inbox'[s])
      BY DEF Unseen
  <2>1. CASE inbox[s] = <<>>
    BY <2>1 DEF Range
  <2>2. CASE inbox[s] # <<>>
    BY <1>1, <2>2 DEF Once, Unseen
  <2> QED
    BY <2>1, <2>2
<1>9. Silent' /\ Untold'
  BY <1>1 DEF Once, Silent, Untold, Running
<1> QED
  BY <1>2, <1>4, <1>6, <1>7, <1>8, <1>9 DEF Once

\* publishMessage puts one entry, not published before, on one wire.
LEMMA OncePublish ==
    ASSUME OnceInv, NEW e, Shape(e), Fresh(e), OffWire(e), publishMessage(at[e.msg], e),
           UNCHANGED <<procVars, sockVars, at, messages>>
    PROVE  /\ Shaped' /\ OnOneWire' /\ OneCopy' /\ Unseen' /\ Silent'
           /\ \A f : Fresh(f) => Fresh(f)'
           /\ \A f : f # e /\ OffWire(f) => OffWire(f)'
<1>1. Once /\ TypeOK /\ e \in Entry
  BY DEF OnceInv, Inv, Shape
<1>2. UNCHANGED <<node, channel, queue, tasks, sock, host, inbox, at>>
  BY DEF publishMessage, procVars, sockVars
<1> DEFINE k == at[e.msg]
<1>3. wire' = [wire EXCEPT ![k] = Append(wire[k], e)]
  BY DEF publishMessage
<1> HIDE DEF k
<1>4. ASSUME NEW n \in Nodes
      PROVE  /\ wire[n] \in Seq(Entry)
             /\ n # k => wire'[n] = wire[n]
             /\ n = k => /\ wire'[n] = Append(wire[n], e)
                         /\ Range(wire'[n]) = Range(wire[n]) \cup {e}
             /\ Range(wire'[n]) \subseteq Range(wire[n]) \cup {e}
  <2>1. wire[n] \in Seq(Entry)
    BY <1>1 DEF TypeOK
  <2>2. n # k => wire'[n] = wire[n]
    BY <1>1, <1>3 DEF TypeOK
  <2>3. n = k => wire'[n] = Append(wire[n], e)
    BY <1>1, <1>3 DEF TypeOK
  <2>4. Range(Append(wire[n], e)) = Range(wire[n]) \cup {e}
    BY <1>1, <2>1, RangeAppend
  <2> QED
    BY <2>1, <2>2, <2>3, <2>4
<1>5. ASSUME NEW f
      PROVE  (Fresh(f) => Fresh(f)') /\ (f # e /\ OffWire(f) => OffWire(f)')
  BY <1>2, <1>4 DEF Fresh, OffWire
<1>6. Shaped'
  <2> SUFFICES ASSUME NEW n \in Nodes,
                      NEW f \in Range(wire'[n]) \cup Range(queue'[n]) \cup Range(tasks'[n])
               PROVE  Shape(f)'
      BY DEF Shaped
  <2>1. Shape(f)
    BY <1>1, <1>2, <1>4 DEF Once, Shaped
  <2> QED
    BY <2>1 DEF Shape, RecipientEntry, EchoEntry
<1>7. ASSUME NEW n \in Nodes
      PROVE  Distinct(wire'[n])
  <2>1. Distinct(wire[n]) /\ e \notin Range(wire[n]) /\ wire[n] \in Seq(Entry)
    BY <1>1, <1>4 DEF Once, OnOneWire, OffWire
  <2>2. Distinct(Append(wire[n], e))
    BY <1>1, <2>1, DistinctAppend
  <2> QED
    BY <1>4, <2>1, <2>2
<1>8. OnOneWire'
  BY <1>1, <1>2, <1>4, <1>5, <1>7 DEF Once, OnOneWire, k
<1>9. OneCopy' /\ Unseen' /\ Silent'
  BY <1>1, <1>2 DEF Once, OneCopy, Unseen, Silent, Live
<1> QED
  BY <1>5, <1>6, <1>8, <1>9

\* A handler publishes each of its two entries once.
LEMMA OnceHandlerPublishes ==
    ASSUME OnceInv, NEW r \in Requests, PublishToRecipient(r) \/ PublishEchoAndAck(r)
    PROVE  Once'
<1>1. Once /\ TypeOK /\ Shape(RecipientEntry(r)) /\ Shape(EchoEntry(r))
  BY EntryShapes DEF OnceInv, Inv
<1>2. /\ \A q \in Requests : q # r => /\ RecipientEntry(q) # RecipientEntry(r)
                                      /\ RecipientEntry(q) # EchoEntry(r)
                                      /\ EchoEntry(q) # RecipientEntry(r)
                                      /\ EchoEntry(q) # EchoEntry(r)
      /\ RecipientEntry(r) # EchoEntry(r)
      /\ RecipientEntry(r).msg = r /\ EchoEntry(r).msg = r
  BY EntryShapes
<1>3. \A q \in Requests : RecipientEntry(q)' = RecipientEntry(q) /\ EchoEntry(q)' = EchoEntry(q)
  BY DEF RecipientEntry, EchoEntry
<1>4. CASE PublishToRecipient(r)
  <2>1. /\ pc[r] = "inserted" /\ pc' = [pc EXCEPT ![r] = "announced"]
        /\ UNCHANGED <<procVars, sockVars, at, messages, reply>>
        /\ publishMessage(at[r], RecipientEntry(r))
    BY <1>4 DEF PublishToRecipient
  <2>2. /\ Shaped' /\ OnOneWire' /\ OneCopy' /\ Unseen' /\ Silent'
        /\ \A f : Fresh(f) => Fresh(f)'
        /\ \A f : f # RecipientEntry(r) /\ OffWire(f) => OffWire(f)'
    BY <1>1, <1>2, <2>1, OncePublish DEF Once, Unpublished
  <2>3. \A q \in Requests : pc'[q] = IF q = r THEN "announced" ELSE pc[q]
    BY <1>1, <2>1 DEF TypeOK
  <2>4. Unpublished'
    BY <1>1, <1>2, <1>3, <2>1, <2>2, <2>3 DEF Once, Unpublished
  <2>5. Untold'
    BY <1>1, <2>1, <2>3 DEF Once, Untold, Running
  <2> QED
    BY <2>2, <2>4, <2>5 DEF Once
<1>5. CASE PublishEchoAndAck(r)
  <2>1. /\ pc[r] = "announced" /\ pc' = [pc EXCEPT ![r] = "done"] /\ Tell(r, "ok")
        /\ UNCHANGED <<procVars, sockVars, at, messages>>
        /\ publishMessage(at[r], EchoEntry(r))
    BY <1>5 DEF PublishEchoAndAck
  <2>2. /\ Shaped' /\ OnOneWire' /\ OneCopy' /\ Unseen' /\ Silent'
        /\ \A f : Fresh(f) => Fresh(f)'
        /\ \A f : f # EchoEntry(r) /\ OffWire(f) => OffWire(f)'
    BY <1>1, <1>2, <2>1, OncePublish DEF Once, Unpublished
  <2>3. \A q \in Requests : pc'[q] = IF q = r THEN "done" ELSE pc[q]
    BY <1>1, <2>1 DEF TypeOK
  <2>4. Unpublished'
    BY <1>1, <1>2, <1>3, <2>1, <2>2, <2>3 DEF Once, Unpublished
  <2>5. Untold'
    BY <1>1, <2>1, <2>3 DEF Once, Untold, Running, Tell, TypeOK
  <2> QED
    BY <2>2, <2>4, <2>5 DEF Once
<1> QED
  BY <1>4, <1>5

\* The broker moves an entry from its wire to the queues, none of which has it.
LEMMA OnceRoute ==
    ASSUME OnceInv, NEW n \in Nodes, Route(n)
    PROVE  Once'
<1> DEFINE e == Head(wire[n])
<1>1. /\ Once /\ TypeOK /\ wire[n] \in Seq(Entry) /\ wire[n] # <<>>
      /\ \A m \in Nodes : queue[m] \in Seq(Entry) /\ Distinct(wire[m])
  BY DEF OnceInv, Inv, TypeOK, Once, OnOneWire, Route
<1>2. UNCHANGED <<node, channel, tasks, sock, host, inbox, pc, at, messages, reply>>
  BY DEF Route, procVars, sockVars, sendVars
<1>3. /\ e \in Range(wire[n]) /\ e \in Entry /\ Shape(e) /\ at[e.msg] = n /\ Fresh(e)
      /\ Distinct(Tail(wire[n])) /\ e \notin Range(Tail(wire[n]))
      /\ Range(Tail(wire[n])) \subseteq Range(wire[n])
  BY <1>1, DistinctTail DEF Once, OnOneWire, Shaped, Shape
<1>4. \A m \in Nodes : wire'[m] = IF m = n THEN Tail(wire[n]) ELSE wire[m]
  BY <1>1 DEF Route, TypeOK
<1>5. \A m \in Nodes : queue'[m] = queue[m] \/ queue'[m] = Append(queue[m], e)
  BY DEF Route, push
<1>6. ASSUME NEW m \in Nodes
      PROVE  Range(queue'[m]) \subseteq Range(queue[m]) \cup {e} /\ Distinct(queue'[m])
  <2>1. queue[m] \in Seq(Entry) /\ Distinct(queue[m]) /\ e \notin Range(queue[m])
    BY <1>1, <1>3 DEF Once, OneCopy, Fresh
  <2>2. /\ Range(Append(queue[m], e)) = Range(queue[m]) \cup {e}
        /\ Distinct(Append(queue[m], e))
    BY <1>3, <2>1, RangeAppend, DistinctAppend
  <2> QED
    BY <1>5, <2>1, <2>2
<1>7. \A m \in Nodes : e \notin Range(wire'[m]) /\ Range(wire'[m]) \subseteq Range(wire[m])
  BY <1>1, <1>3, <1>4 DEF Once, OnOneWire
<1> HIDE DEF e
<1>8. \A f : (f # e /\ Fresh(f) => Fresh(f)') /\ (OffWire(f) => OffWire(f)' /\ f # e)
  BY <1>2, <1>3, <1>6, <1>7 DEF Fresh, OffWire
<1>9. Shaped'
  BY <1>1, <1>2, <1>3, <1>6, <1>7 DEF Once, Shaped
<1>10. Unpublished'
  BY <1>1, <1>2, <1>8 DEF Once, Unpublished, RecipientEntry, EchoEntry
<1>11. OnOneWire'
  BY <1>1, <1>2, <1>3, <1>4, <1>7, <1>8 DEF Once, OnOneWire
<1>12. OneCopy'
  BY <1>1, <1>2, <1>3, <1>6 DEF Once, OneCopy, Fresh
<1>13. Unseen'
  <2> SUFFICES ASSUME NEW s \in Sockets, Live(s)', channel'[host'[s]],
                      NEW f \in Range(queue'[host'[s]]), f.to = Owner[s]
               PROVE  f.msg \notin Range(inbox'[s])
      BY DEF Unseen
  <2>1. Live(s) /\ host[s] \in Nodes
    BY <1>2 DEF OnceInv, LossInv, Placed, Live
  <2> QED
    BY <1>1, <1>2, <1>3, <1>6, <2>1 DEF Once, Unseen, Fresh
<1>14. Silent' /\ Untold'
  BY <1>1, <1>2 DEF Once, Silent, Untold
<1> QED
  BY <1>9, <1>10, <1>11, <1>12, <1>13, <1>14 DEF Once
\* A consumer takes the only copy its queue has and emits it once to each
\* connection of the room, none of which has the message yet.
LEMMA OnceDeliver ==
    ASSUME OnceInv, NEW n \in Nodes, deliverMessageToSocketIo(n)
    PROVE  Once'
<1> DEFINE e == Head(queue[n])
           S == IF Wired(n) THEN RoomOf(n, e.to) \ {e.skip} ELSE {}
<1>1. /\ Once /\ TypeOK /\ queue[n] \in Seq(Entry) /\ queue[n] # <<>> /\ Distinct(queue[n])
      /\ tasks[n] \in Seq(Entry) /\ Distinct(tasks[n]) /\ Range(tasks[n]) \cap Range(queue[n]) = {}
      /\ channel[n] /\ node[n] # "down"
  BY DEF OnceInv, Inv, TypeOK, Once, OneCopy, deliverMessageToSocketIo
<1>2. UNCHANGED <<node, channel, wire, sock, host, pc, at, messages, reply>>
  BY DEF deliverMessageToSocketIo, procVars, sendVars
<1>3. /\ e \in Range(queue[n]) /\ e \in Entry /\ Shape(e)
      /\ Distinct(Tail(queue[n])) /\ e \notin Range(Tail(queue[n]))
      /\ Range(Tail(queue[n])) \subseteq Range(queue[n])
  BY <1>1, DistinctTail DEF Once, Shaped, Shape
<1>4. /\ \A m \in Nodes : queue'[m] = IF m = n THEN Tail(queue[n]) ELSE queue[m]
      /\ \A m \in Nodes : m # n => tasks'[m] = tasks[m]
      /\ tasks'[n] = tasks[n] \/ tasks'[n] = Append(tasks[n], e)
      /\ \A s \in Sockets : s \in S \/ inbox'[s] = inbox[s]
      /\ \A s \in Sockets : s \in S => inbox'[s] = Append(inbox[s], e.msg)
  BY <1>1 DEF TypeOK, deliverMessageToSocketIo
<1>5. \A s \in S : sock[s] = "joined" /\ host[s] = n /\ Owner[s] = e.to
  BY DEF RoomOf
<1> HIDE DEF e, S
<1>6. ASSUME NEW m \in Nodes
      PROVE  /\ Range(queue'[m]) \subseteq Range(queue[m]) /\ Distinct(queue'[m])
             /\ m = n => e \notin Range(queue'[m])
  BY <1>1, <1>3, <1>4 DEF Once, OneCopy
<1>7. /\ Range(tasks'[n]) \subseteq Range(tasks[n]) \cup {e} /\ Distinct(tasks'[n])
  <2>1. e \notin Range(tasks[n])
    BY <1>1, <1>3
  <2>2. /\ Range(Append(tasks[n], e)) = Range(tasks[n]) \cup {e}
        /\ Distinct(Append(tasks[n], e))
    BY <1>1, <1>3, <2>1, RangeAppend, DistinctAppend
  <2> QED
    BY <1>1, <1>4, <2>2
<1>8. ASSUME NEW s \in Sockets, NEW x \in Range(inbox'[s])
      PROVE  x \in Range(inbox[s]) \/ (s \in S /\ x = e.msg)
  <2>1. inbox[s] \in Seq(Requests) /\ e.msg \in Requests
    BY <1>1, <1>3 DEF TypeOK, Entry
  <2>2. Range(Append(inbox[s], e.msg)) = Range(inbox[s]) \cup {e.msg}
    BY <2>1, RangeAppend
  <2> QED
    BY <1>4, <1>8, <2>2
<1>9. ASSUME NEW f, Shape(f), Fresh(f)
      PROVE  Fresh(f)'
  <2>1. f # e
    BY <1>3, <1>9 DEF Fresh
  <2>2. \A m \in Nodes : f \notin Range(queue'[m]) /\ f \notin Range(tasks'[m])
    BY <1>4, <1>6, <1>7, <1>9, <2>1 DEF Fresh
  <2>3. ASSUME NEW s \in Sockets, Owner[s] = f.to, f.msg \in Range(inbox'[s])
        PROVE  FALSE
    <3>1. s \in S /\ f.msg = e.msg
      BY <1>8, <1>9, <2>3 DEF Fresh
    <3> QED
      BY <1>3, <1>5, <1>9, <2>1, <2>3, <3>1, Determined
  <2> QED
    BY <2>2, <2>3 DEF Fresh
<1>10. Shaped'
  <2> SUFFICES ASSUME NEW m \in Nodes,
                      NEW f \in Range(wire'[m]) \cup Range(queue'[m]) \cup Range(tasks'[m])
               PROVE  Shape(f)
      BY DEF Shaped, Shape, RecipientEntry, EchoEntry
  <2> QED
    BY <1>1, <1>2, <1>3, <1>4, <1>6, <1>7 DEF Once, Shaped
<1>11. Unpublished'
  BY <1>1, <1>2, <1>9, EntryShapes DEF Once, Unpublished, OffWire, RecipientEntry, EchoEntry
<1>12. OnOneWire'
  BY <1>1, <1>2, <1>9 DEF Once, OnOneWire, Shaped
<1>13. OneCopy'
  <2> SUFFICES ASSUME NEW m \in Nodes
               PROVE  /\ Distinct(queue'[m])
                      /\ channel[m] => /\ Distinct(tasks'[m])
                                       /\ Range(tasks'[m]) \cap Range(queue'[m]) = {}
                      /\ node[m] = "down" => tasks'[m] = <<>>
      BY <1>2 DEF OneCopy
  <2>1. CASE m = n
    BY <1>1, <1>6, <1>7, <2>1
  <2>2. CASE m # n
    BY <1>1, <1>4, <2>2 DEF Once, OneCopy
  <2> QED
    BY <2>1, <2>2
<1>14. Unseen'
  <2> SUFFICES ASSUME NEW s \in Sockets, Live(s), channel[host[s]],
                      NEW f \in Range(queue'[host[s]]), f.to = Owner[s],
                      f.msg \in Range(inbox'[s])
               PROVE  FALSE
      BY <1>2 DEF Unseen, Live
  <2>1. host[s] \in Nodes
    BY DEF OnceInv, LossInv, Placed
  <2>2. f \in Range(queue[host[s]]) /\ f.msg \notin Range(inbox[s]) /\ Shape(f)
    BY <1>1, <1>6, <2>1 DEF Once, Unseen, Shaped
  <2>3. s \in S /\ f.msg = e.msg
    BY <1>8, <2>2
  <2>4. host[s] = n /\ f = e
    BY <1>3, <1>5, <2>2, <2>3, Determined
  <2> QED
    BY <1>6, <2>4
<1>15. Silent' /\ Untold'
  BY <1>1, <1>2, <1>4, <1>5 DEF Once, Silent, Untold
<1> QED
  BY <1>10, <1>11, <1>12, <1>13, <1>14, <1>15 DEF Once

\* What is put back in the queue was not in it.
LEMMA RequeuedOnce ==
    ASSUME OnceInv, NEW n \in Nodes
    PROVE  /\ Distinct(Requeued(n))
           /\ Range(Requeued(n)) \subseteq Range(tasks[n]) \cup Range(queue[n])
<1>1. tasks[n] \in Seq(Entry) /\ queue[n] \in Seq(Entry) /\ OneCopy
  BY DEF OnceInv, Inv, TypeOK, Once
<1>2. CASE channel[n]
  <2>1. Requeued(n) = tasks[n] \o queue[n]
    BY <1>2 DEF Requeued
  <2>2. /\ Distinct(tasks[n]) /\ Distinct(queue[n])
        /\ Range(tasks[n]) \cap Range(queue[n]) = {}
    BY <1>1, <1>2 DEF OneCopy
  <2>3. /\ Distinct(tasks[n] \o queue[n])
        /\ Range(tasks[n] \o queue[n]) = Range(tasks[n]) \cup Range(queue[n])
    BY <1>1, <2>2, DistinctConcat
  <2> QED
    BY <2>1, <2>3
<1>3. CASE ~channel[n]
  BY <1>1, <1>3 DEF OneCopy, Requeued
<1> QED
  BY <1>2, <1>3

\* The empty sequence.
LEMMA NothingTwice == Distinct(<<>>) /\ Range(<<>>) = {}
BY DEF Distinct, Range

\* A replica that loses its channel or ends: what was not acknowledged goes
\* back, what was not flushed is gone, and connections only close.
LEMMA OnceRequeue ==
    ASSUME OnceInv, NEW n \in Nodes, UNCHANGED <<host, inbox, at, messages, reply>>,
           queue' = [queue EXCEPT ![n] = Requeued(n)],
           channel' = [channel EXCEPT ![n] = FALSE],
           wire' = [wire EXCEPT ![n] = <<>>],
           \A m \in Nodes : tasks'[m] = tasks[m] \/ (m = n /\ tasks'[m] = <<>>),
           \A m \in Nodes : node'[m] = node[m] \/ (m = n /\ tasks'[m] = <<>>),
           \A s \in Sockets : sock'[s] = sock[s] \/ sock'[s] = "closed",
           \A r \in Requests : pc'[r] = pc[r] \/ pc'[r] = "dead"
    PROVE  Once'
<1>1. Once /\ TypeOK
  BY DEF OnceInv, Inv
<1>2. ASSUME NEW m \in Nodes
      PROVE  /\ m # n => queue'[m] = queue[m] /\ channel'[m] = channel[m] /\ wire'[m] = wire[m]
             /\ m = n => queue'[m] = Requeued(n) /\ ~channel'[m] /\ wire'[m] = <<>>
  BY <1>1 DEF TypeOK
<1>3. ASSUME NEW m \in Nodes
      PROVE  /\ Distinct(queue'[m])
             /\ Range(queue'[m]) \subseteq Range(tasks[m]) \cup Range(queue[m])
             /\ Range(tasks'[m]) \subseteq Range(tasks[m])
             /\ Range(wire'[m]) \subseteq Range(wire[m]) /\ Distinct(wire'[m])
  <2>1. Distinct(queue[m]) /\ Distinct(wire[m])
    BY <1>1 DEF Once, OneCopy, OnOneWire
  <2> QED
    BY <1>2, <2>1, RequeuedOnce, NothingTwice
<1>4. ASSUME NEW f
      PROVE  (Fresh(f) => Fresh(f)') /\ (OffWire(f) => OffWire(f)')
  BY <1>3 DEF Fresh, OffWire
<1>5. Shaped'
  <2> SUFFICES ASSUME NEW m \in Nodes,
                      NEW f \in Range(wire'[m]) \cup Range(queue'[m]) \cup Range(tasks'[m])
               PROVE  Shape(f)
      BY DEF Shaped, Shape, RecipientEntry, EchoEntry
  <2> QED
    BY <1>1, <1>3 DEF Once, Shaped
<1>6. Unpublished'
  BY <1>1, <1>4 DEF Once, Unpublished, RecipientEntry, EchoEntry
<1>7. OnOneWire'
  BY <1>1, <1>3, <1>4 DEF Once, OnOneWire
<1>8. OneCopy'
  BY <1>1, <1>2, <1>3, ZenonT(60) DEF Once, OneCopy
<1>9. Unseen'
  <2> SUFFICES ASSUME NEW s \in Sockets, Live(s)', channel'[host[s]],
                      NEW f \in Range(queue'[host[s]]), f.to = Owner[s]
               PROVE  f.msg \notin Range(inbox[s])
      BY DEF Unseen
  <2>1. Live(s) /\ host[s] \in Nodes
    BY DEF OnceInv, LossInv, Placed, Live
  <2>2. host[s] # n
    BY <1>2, <2>1
  <2> QED
    BY <1>1, <1>2, <2>1, <2>2 DEF Once, Unseen
<1>10. Silent' /\ Untold'
  BY <1>1 DEF Once, Silent, Untold, Running
<1> QED
  BY <1>5, <1>6, <1>7, <1>8, <1>9, <1>10 DEF Once

\* The end of a process.
LEMMA OnceStopProcess ==
    ASSUME OnceInv, NEW n \in Nodes, StopProcess(n)
    PROVE  Once'
<1>1. TypeOK
  BY DEF OnceInv, Inv
<1> QED
  BY <1>1, OnceRequeue DEF StopProcess, TypeOK
\* Every step keeps the invariant.
LEMMA OnceStep == OnceInv /\ [Next]_vars => OnceInv'
<1> SUFFICES ASSUME OnceInv, [Next]_vars
             PROVE  Once'
    BY InvStep, LossStep DEF OnceInv
<1>0. Once /\ TypeOK /\ Placed
  BY DEF OnceInv, Inv, LossInv
<1>1. ASSUME NEW r \in Requests, NEW n \in Nodes, Receive(n, r)
      PROVE  Once'
  BY <1>0, <1>1, OnceQuiet DEF Receive, TypeOK, Live, procVars, brokerVars, sockVars
<1>2. ASSUME NEW r \in Requests, ArriveBeforeHandlers(r)
      PROVE  Once'
  BY <1>0, <1>2, OnceQuiet DEF ArriveBeforeHandlers, TypeOK, Live, procVars, brokerVars, sockVars
<1>3. ASSUME NEW r \in Requests, insertMessage(r)
      PROVE  Once'
  BY <1>0, <1>3, OnceQuiet DEF insertMessage, insertOne, TypeOK, Live, procVars, brokerVars, sockVars
<1>4. ASSUME NEW r \in Requests, Fail(r)
      PROVE  Once'
  BY <1>0, <1>4, OnceQuiet DEF Fail, Tell, TypeOK, Live, procVars, brokerVars, sockVars
<1>5. ASSUME NEW r \in Requests, PublishToRecipient(r) \/ PublishEchoAndAck(r)
      PROVE  Once'
  BY <1>5, OnceHandlerPublishes
<1>6. ASSUME NEW n \in Nodes, Route(n) \/ deliverMessageToSocketIo(n)
      PROVE  Once'
  BY <1>6, OnceRoute, OnceDeliver
<1>7. ASSUME NEW n \in Nodes, NEW i \in DOMAIN tasks[n], Settle(n, i)
      PROVE  Once'
  <2>1. CASE channel[n]
    <3>1. /\ tasks' = [tasks EXCEPT ![n] = RemoveAt(tasks[n], i)]
          /\ UNCHANGED <<procVars, wire, bound, queue, sockVars, sendVars>>
      BY <1>7, <2>1 DEF Settle
    <3>2. UNCHANGED <<node, channel, wire, queue, sock, host, inbox, pc, at, messages, reply>>
      BY <3>1 DEF procVars, sockVars, sendVars
    <3>3. /\ Distinct(tasks[n]) /\ tasks[n] \in Seq(Entry) /\ tasks[n] # <<>>
      BY <1>0, <2>1 DEF TypeOK, Once, OneCopy
    <3>4. Distinct(RemoveAt(tasks[n], i)) /\ Range(RemoveAt(tasks[n], i)) \subseteq Range(tasks[n])
      BY <3>3, DistinctRemoveAt
    <3>5. ASSUME NEW m \in Nodes
          PROVE  /\ Range(tasks'[m]) \subseteq Range(tasks[m])
                 /\ m # n => tasks'[m] = tasks[m]
                 /\ m = n => Distinct(tasks'[m])
      BY <1>0, <3>1, <3>4 DEF TypeOK
    <3>6. ASSUME NEW f
          PROVE  (Fresh(f) => Fresh(f)') /\ (OffWire(f) => OffWire(f)')
      BY <3>2, <3>5 DEF Fresh, OffWire
    <3>7. Shaped'
      BY <1>0, <3>2, <3>5 DEF Once, Shaped, Shape, RecipientEntry, EchoEntry
    <3>8. Unpublished' /\ OnOneWire'
      BY <1>0, <3>2, <3>6 DEF Once, Unpublished, OnOneWire, RecipientEntry, EchoEntry
    <3>9. OneCopy'
      BY <1>0, <3>2, <3>3, <3>5 DEF Once, OneCopy
    <3>10. Unseen' /\ Silent' /\ Untold'
      BY <1>0, <3>2 DEF Once, Unseen, Silent, Untold, Live
    <3> QED
      BY <3>7, <3>8, <3>9, <3>10 DEF Once
  <2>2. CASE ~channel[n]
    BY <1>7, <2>2, OnceStopProcess DEF Settle
  <2> QED
    BY <2>1, <2>2
<1>8. ASSUME NEW n \in Nodes, LoseChannel(n)
      PROVE  Once'
  BY <1>8, OnceRequeue DEF LoseChannel, sockVars, sendVars
<1>9. ASSUME NEW n \in Nodes, connectRabbit(n)
      PROVE  Once'
  <2>1. /\ node[n] = "down"
        /\ UNCHANGED <<wire, queue, tasks, sock, host, inbox, pc, at, messages, reply>>
        /\ \A m \in Nodes : m # n => node'[m] = node[m]
        /\ \A m \in Nodes : channel'[m] = IF m = n THEN TRUE ELSE channel[m]
        /\ node'[n] = "booting"
    BY <1>0, <1>9 DEF TypeOK, connectRabbit, sockVars, sendVars
  <2>2. tasks[n] = <<>>
    BY <1>0, <2>1 DEF Once, OneCopy
  <2>3. ASSUME NEW f
        PROVE  (Fresh(f) => Fresh(f)') /\ (OffWire(f) => OffWire(f)')
    BY <2>1 DEF Fresh, OffWire
  <2>4. Shaped'
    BY <1>0, <2>1 DEF Once, Shaped, Shape, RecipientEntry, EchoEntry
  <2>5. Unpublished' /\ OnOneWire'
    BY <1>0, <2>1, <2>3 DEF Once, Unpublished, OnOneWire, RecipientEntry, EchoEntry
  <2>6. OneCopy'
    BY <1>0, <2>1, <2>2, NothingTwice DEF Once, OneCopy
  <2>7. \A s \in Sockets : Live(s) => host[s] \in Nodes /\ host[s] # n
    BY <1>0, <2>1 DEF Placed
  <2>8. Unseen'
    BY <1>0, <2>1, <2>7 DEF Once, Unseen, Live
  <2>9. Silent' /\ Untold'
    BY <1>0, <2>1 DEF Once, Silent, Untold
  <2> QED
    BY <2>4, <2>5, <2>6, <2>8, <2>9 DEF Once
<1>10. ASSUME NEW n \in Nodes, Listen(n) \/ Shutdown(n) \/ closeSocketIo(n)
       PROVE  Once'
  <2>1. /\ UNCHANGED <<channel, wire, queue, tasks, host, inbox, pc, at, messages, reply>>
        /\ \A m \in Nodes : node'[m] = "down" => node[m] = "down"
        /\ \A s \in Sockets : sock'[s] = sock[s] \/ sock'[s] = "closed"
    BY <1>0, <1>10 DEF TypeOK, Listen, Shutdown, closeSocketIo, brokerVars, sockVars, sendVars
  <2> QED
    BY <2>1, OnceQuiet DEF Live
<1>11. ASSUME NEW n \in Nodes, Exit(n) \/ Crash(n)
       PROVE  Once'
  BY <1>11, OnceStopProcess DEF Exit, Crash
<1>12. ASSUME NEW s \in Sockets, NEW n \in Nodes, Connect(s, n)
       PROVE  Once'
  <2>1. inbox[s] = <<>>
    BY <1>0, <1>12 DEF Once, Silent, Connect
  <2>2. /\ UNCHANGED <<node, channel, wire, queue, tasks, inbox, pc, at, messages, reply>>
        /\ \A t \in Sockets : t # s => sock'[t] = sock[t] /\ host'[t] = host[t]
        /\ sock'[s] = "auth"
    BY <1>0, <1>12 DEF TypeOK, Connect, procVars, brokerVars, sendVars
  <2> QED
    BY <2>1, <2>2, OnceQuiet DEF Live
<1>13. ASSUME NEW s \in Sockets, Join(s) \/ Disconnect(s)
       PROVE  Once'
  <2>1. /\ UNCHANGED <<node, channel, wire, queue, tasks, host, inbox, pc, at, messages, reply>>
        /\ \A t \in Sockets : t # s => sock'[t] = sock[t]
        /\ Live(s) /\ sock'[s] # "off"
    BY <1>0, <1>13 DEF TypeOK, Join, Disconnect, Live, procVars, brokerVars, sendVars
  <2> QED
    BY <2>1, OnceQuiet DEF Live
<1>14. CASE UNCHANGED vars
  BY <1>14, OnceQuiet DEF vars, procVars, brokerVars, sockVars, sendVars, Live
<1> QED
  BY <1>1, <1>2, <1>3, <1>4, <1>5, <1>6, <1>7, <1>8, <1>9, <1>10, <1>11, <1>12,
     <1>13, <1>14 DEF Next, Handle

\* Nothing is published at first.
LEMMA OnceInit == Init => OnceInv
<1> SUFFICES ASSUME Init
             PROVE  Once
    BY InvInit, LossInit DEF OnceInv
<1>1. /\ \A n \in Nodes : /\ wire[n] = <<>> /\ queue[n] = <<>> /\ tasks[n] = <<>>
                          /\ Range(wire[n]) = {} /\ Range(queue[n]) = {} /\ Range(tasks[n]) = {}
      /\ \A s \in Sockets : sock[s] = "off" /\ inbox[s] = <<>> /\ Range(inbox[s]) = {}
      /\ \A r \in Requests : pc[r] = "new" /\ reply[r] = "none"
      /\ messages = {}
  BY NothingTwice DEF Init
<1>2. \A f : Fresh(f) /\ OffWire(f)
  BY <1>1 DEF Fresh, OffWire
<1> QED
  BY <1>1, <1>2, NothingTwice
     DEF Once, Shaped, Unpublished, OnOneWire, OneCopy, Unseen, Silent, Untold, Live
-----------------------------------------------------------------------------
(* The refinement.                                                         *)

Open == {s \in Sockets : Live(s)}

\* Nothing is promised at first.
LEMMA PromiseInit == Init => Promise!Init
BY DEF Init, Promise!Init, Live

\* A step that touches neither the collection, nor an answer, a connection or
\* an inbox is not seen.
LEMMA PromiseStutter ==
    ASSUME UNCHANGED <<messages, reply, sock, inbox>>
    PROVE  UNCHANGED Promise!vars
BY DEF Promise!vars, Live

\* What the caller is told is an answer, if it is told anything.
LEMMA PromiseAnswer ==
    ASSUME OnceInv, NEW r \in Requests, pc[r] \in Running, NEW v \in {"ok", "error"},
           Tell(r, v), v = "ok" => r \in messages, UNCHANGED <<messages, sockVars>>
    PROVE  [Promise!Next]_(Promise!vars)
<1>1. UNCHANGED <<messages, sock, inbox>> /\ reply[r] = "none"
  BY DEF OnceInv, Once, Untold, sockVars
<1>2. CASE reply' = reply
  BY <1>1, <1>2, PromiseStutter
<1>3. CASE reply' = [reply EXCEPT ![r] = v]
  <2>1. Promise!Answer(r)
    BY <1>1, <1>3 DEF Promise!Answer, Live
  <2> QED
    BY <2>1 DEF Promise!Next
<1> QED
  BY <1>2, <1>3 DEF Tell

\* Connections that close, and nothing else that is seen.
LEMMA PromiseDrop ==
    ASSUME UNCHANGED <<messages, reply, inbox>>,
           \A s \in Sockets : sock'[s] = sock[s] \/ sock'[s] = "closed"
    PROVE  [Promise!Next]_(Promise!vars)
<1> DEFINE S == Open \ Open'
<1>1. Open' = Open \ S /\ S \in SUBSET Sockets
  BY DEF Open, Live
<1>2. Promise!Drop(S)
  BY <1>1 DEF Promise!Drop, Open
<1> QED
  BY <1>1, <1>2 DEF Promise!Next

\* A connection opens with an empty inbox.
LEMMA PromiseOpen ==
    ASSUME OnceInv, NEW s \in Sockets, NEW n \in Nodes, Connect(s, n)
    PROVE  [Promise!Next]_(Promise!vars)
<1>1. /\ inbox[s] = <<>> /\ UNCHANGED <<messages, reply, inbox>>
      /\ \A t \in Sockets : sock'[t] = IF t = s THEN "auth" ELSE sock[t]
  BY DEF OnceInv, Inv, TypeOK, Once, Silent, Connect, sendVars
<1>2. Open' = Open \cup {s}
  BY <1>1 DEF Open, Live
<1>3. Promise!Open(s)
  BY <1>1, <1>2 DEF Promise!Open, Open
<1> QED
  BY <1>3 DEF Promise!Next

\* What a consumer emits was stored, goes to open connections of the two
\* participants that have not received it, and not to the one it came from.
LEMMA PromiseDeliver ==
    ASSUME OnceInv, NEW n \in Nodes, deliverMessageToSocketIo(n)
    PROVE  [Promise!Next]_(Promise!vars)
<1> DEFINE e == Head(queue[n])
           S == IF Wired(n) THEN RoomOf(n, e.to) \ {e.skip} ELSE {}
<1>1. Once /\ TypeOK /\ Carried /\ queue[n] \in Seq(Sound) /\ queue[n] # <<>> /\ channel[n]
  BY DEF OnceInv, Inv, Carried, deliverMessageToSocketIo
<1>2. e \in Range(queue[n]) /\ e \in Sound
  BY <1>1, RangeTail
<1>3. Shape(e) /\ e.msg \in messages /\ e.msg \in Requests
  BY <1>1, <1>2 DEF Once, Shaped, Sound, Entry
<1>4. /\ UNCHANGED <<messages, reply, sock>>
      /\ inbox' = [s \in Sockets |-> IF s \in S THEN Append(inbox[s], e.msg) ELSE inbox[s]]
  BY DEF deliverMessageToSocketIo, sendVars
<1>5. S \in SUBSET Sockets
  BY DEF RoomOf
<1>6. ASSUME NEW s \in S
      PROVE  /\ Live(s) /\ Owner[s] \in {Author[e.msg], Peer[e.msg]} /\ s # Origin[e.msg]
             /\ e.msg \notin Range(inbox[s])
  <2>1. /\ s \in Sockets /\ sock[s] = "joined" /\ host[s] = n
        /\ Owner[s] = e.to /\ s # e.skip
    BY DEF RoomOf
  <2>2. Live(s)
    BY <2>1 DEF Live
  <2> QED
    BY <1>1, <1>2, <1>3, <2>1, <2>2, NotToOrigin DEF Once, Unseen
<1> HIDE DEF e, S
<1>7. Promise!Deliver(e.msg, S)
  <2>1. e.msg \in messages
    BY <1>3
  <2>2. \A s \in S : /\ s \in {t \in Sockets : Live(t)}
                     /\ Owner[s] \in [r \in Requests |-> {Author[r], Peer[r]}][e.msg]
                     /\ s # Origin[e.msg]
                     /\ e.msg \notin Range(inbox[s])
    BY <1>3, <1>5, <1>6
  <2>3. UNCHANGED <<messages, reply, {t \in Sockets : Live(t)}>>
    BY <1>4 DEF Live
  <2> QED
    BY <1>4, <2>1, <2>2, <2>3 DEF Promise!Deliver, Promise!Received, Promise!Range, Range
<1> QED
  BY <1>3, <1>5, <1>7 DEF Promise!Next

\* Every step of the pipeline is a step of the promise or is not seen.
LEMMA PromiseStep == OnceInv /\ [Next]_vars => [Promise!Next]_(Promise!vars)
<1> SUFFICES ASSUME OnceInv, [Next]_vars
             PROVE  [Promise!Next]_(Promise!vars)
    OBVIOUS
<1>0. TypeOK /\ Handled /\ Once
  BY DEF OnceInv, Inv
<1>1. ASSUME UNCHANGED <<messages, reply, sock, inbox>>
      PROVE  [Promise!Next]_(Promise!vars)
  BY <1>1, PromiseStutter
<1>2. ASSUME NEW r \in Requests, ArriveBeforeHandlers(r) \/ PublishToRecipient(r)
      PROVE  [Promise!Next]_(Promise!vars)
  BY <1>1, <1>2 DEF ArriveBeforeHandlers, PublishToRecipient, sockVars
<1>3. ASSUME NEW r \in Requests, NEW n \in Nodes, Receive(n, r)
      PROVE  [Promise!Next]_(Promise!vars)
  BY <1>1, <1>3 DEF Receive, sockVars
<1>4. ASSUME NEW r \in Requests, insertMessage(r)
      PROVE  [Promise!Next]_(Promise!vars)
  <2>1. r \notin messages /\ messages' = messages \cup {r} /\ UNCHANGED <<reply, sock, inbox>>
    BY <1>0, <1>4 DEF Once, Untold, insertMessage, insertOne, sockVars
  <2>2. Promise!Store(r)
    BY <2>1 DEF Promise!Store, Live
  <2> QED
    BY <2>2 DEF Promise!Next
<1>5. ASSUME NEW r \in Requests, PublishEchoAndAck(r)
      PROVE  [Promise!Next]_(Promise!vars)
  <2>1. /\ pc[r] \in Running /\ Tell(r, "ok") /\ r \in messages
        /\ UNCHANGED <<messages, sockVars>>
    BY <1>0, <1>5 DEF Handled, PublishEchoAndAck, Running
  <2> QED
    BY <2>1, PromiseAnswer
<1>6. ASSUME NEW r \in Requests, Fail(r)
      PROVE  [Promise!Next]_(Promise!vars)
  <2>1. pc[r] \in Running /\ Tell(r, "error") /\ UNCHANGED <<messages, sockVars>>
    BY <1>6 DEF Fail, MayFail
  <2> QED
    BY <2>1, PromiseAnswer
<1>7. ASSUME NEW n \in Nodes, Route(n)
      PROVE  [Promise!Next]_(Promise!vars)
  BY <1>1, <1>7 DEF Route, sockVars, sendVars
<1>8. ASSUME NEW n \in Nodes, deliverMessageToSocketIo(n)
      PROVE  [Promise!Next]_(Promise!vars)
  BY <1>8, PromiseDeliver
<1>9. ASSUME NEW n \in Nodes, StopProcess(n) \/ closeSocketIo(n)
      PROVE  [Promise!Next]_(Promise!vars)
  BY <1>0, <1>9, PromiseDrop DEF StopProcess, closeSocketIo, TypeOK, sendVars
<1>10. ASSUME NEW n \in Nodes, NEW i \in DOMAIN tasks[n], Settle(n, i)
       PROVE  [Promise!Next]_(Promise!vars)
  BY <1>1, <1>9, <1>10 DEF Settle, sockVars, sendVars
<1>11. ASSUME NEW n \in Nodes,
              LoseChannel(n) \/ connectRabbit(n) \/ Listen(n) \/ Shutdown(n)
       PROVE  [Promise!Next]_(Promise!vars)
  BY <1>1, <1>11 DEF LoseChannel, connectRabbit, Listen, Shutdown, sockVars, sendVars
<1>12. ASSUME NEW n \in Nodes, Exit(n) \/ Crash(n)
       PROVE  [Promise!Next]_(Promise!vars)
  BY <1>9, <1>12 DEF Exit, Crash
<1>13. ASSUME NEW s \in Sockets, NEW n \in Nodes, Connect(s, n)
       PROVE  [Promise!Next]_(Promise!vars)
  BY <1>13, PromiseOpen
<1>14. ASSUME NEW s \in Sockets, Join(s)
       PROVE  [Promise!Next]_(Promise!vars)
  <2>1. /\ UNCHANGED <<messages, reply, inbox>>
        /\ \A t \in Sockets : Live(t)' <=> Live(t)
    BY <1>0, <1>14 DEF TypeOK, Join, Live, sendVars
  <2>2. UNCHANGED {t \in Sockets : Live(t)}
    BY <2>1
  <2> QED
    BY <2>1, <2>2 DEF Promise!vars
<1>15. ASSUME NEW s \in Sockets, Disconnect(s)
       PROVE  [Promise!Next]_(Promise!vars)
  BY <1>0, <1>15, PromiseDrop DEF Disconnect, TypeOK, sendVars
<1>16. CASE UNCHANGED vars
  BY <1>1, <1>16 DEF vars, sockVars, sendVars
<1> QED
  BY <1>2, <1>3, <1>4, <1>5, <1>6, <1>7, <1>8, <1>9, <1>10, <1>11, <1>12, <1>13,
     <1>14, <1>15, <1>16 DEF Next, Handle

\* The service keeps its promise with any number of replicas and whatever
\* crashes, shutdowns, redeliveries and lost channels: at most one message:new
\* per connection and message, only stored messages, only to the participants,
\* never to the socket of the sender, and one truthful answer per request.
THEOREM PromiseKept == Spec => ImplementsPromise
BY OnceInit, OnceStep, PromiseInit, PromiseStep, PTL DEF Spec, ImplementsPromise, Promise!Spec

-----------------------------------------------------------------------------
(* Order.  A send that follows the answer to another one through the same   *)
(* replica is behind it wherever both are: on the wire, in a queue, among   *)
(* the unacknowledged deliveries, which go back in front, and in an inbox.  *)

Early == {p \in precedes : at[p[1]] = at[p[2]]}
Ahead == {p \in Entry \X Entry : <<p[1].msg, p[2].msg>> \in Early /\ p[1].to = p[2].to}

After ==
    /\ \A p \in precedes : pc[p[1]] = "done" /\ pc[p[2]] # "new" /\ p[1] # p[2]
    /\ \A r \in Requests : reply[r] = "ok" => pc[r] = "done"
WireOrder ==
    \A n \in Nodes :
        /\ OrderedBy(Ahead, wire[n])
        /\ \A e \in Range(wire[n]) :
              /\ \A m \in Nodes : \A f \in Range(queue[m]) \cup Range(tasks[m]) : <<e, f>> \notin Ahead
              /\ \A s \in Sockets : \A r \in Range(inbox[s]) :
                    Owner[s] = e.to => <<e.msg, r>> \notin Early
QueueOrder ==
    \A n \in Nodes :
        /\ OrderedBy(Ahead, queue[n])
        /\ channel[n] => /\ OrderedBy(Ahead, tasks[n])
                         /\ \A f \in Range(tasks[n]), e \in Range(queue[n]) : <<e, f>> \notin Ahead
Unpassed ==
    \A s \in Sockets : Live(s) /\ channel[host[s]] =>
        \A e \in Range(queue[host[s]]), r \in Range(inbox[s]) :
            Owner[s] = e.to => <<e.msg, r>> \notin Early
InboxOrder == \A s \in Sockets : OrderedBy(Early, inbox[s])

Order == After /\ WireOrder /\ QueueOrder /\ Unpassed /\ InboxOrder
OrderInv == OnceInv /\ Order

\* What comes first was answered, and nothing comes before itself.
LEMMA EarlyFacts ==
    ASSUME OrderInv
    PROVE  /\ \A q, r : <<q, r>> \in Early => pc[q] = "done" /\ at[q] = at[r] /\ q # r
           /\ \A e, f : <<e, f>> \in Ahead <=>
                 e \in Entry /\ f \in Entry /\ <<e.msg, f.msg>> \in Early /\ e.to = f.to
BY DEF OrderInv, Order, After, Early, Ahead

\* A step that moves no entry and creates no precedence.
LEMMA OrderQuiet ==
    ASSUME OrderInv, UNCHANGED <<wire, queue, tasks, inbox, channel, at, precedes>>,
           \A r \in Requests : /\ pc[r] = "done" => pc'[r] = "done"
                               /\ pc[r] # "new" => pc'[r] # "new"
                               /\ reply'[r] = "ok" => reply[r] = "ok" \/ pc'[r] = "done",
           \A s \in Sockets : host'[s] = host[s] \/ inbox[s] = <<>>,
           \A s \in Sockets : Live(s)' => Live(s) \/ inbox[s] = <<>>
    PROVE  Order'
<1>1. Order /\ TypeOK
  BY DEF OrderInv, OnceInv, Inv
<1>2. Early' = Early /\ Ahead' = Ahead
  BY DEF Early, Ahead
<1>3. After'
  BY <1>1 DEF Order, After, TypeOK
<1>4. WireOrder' /\ QueueOrder' /\ InboxOrder'
  BY <1>1, <1>2 DEF Order, WireOrder, QueueOrder, InboxOrder
<1>5. Unpassed'
  <2> SUFFICES ASSUME NEW s \in Sockets, Live(s)', channel[host'[s]],
                      NEW e \in Range(queue[host'[s]]), NEW r \in Range(inbox[s]),
                      Owner[s] = e.to
               PROVE  <<e.msg, r>> \notin Early
      BY <1>2 DEF Unpassed
  <2>1. inbox[s] # <<>>
    BY NothingTwice
  <2> QED
    BY <1>1, <2>1 DEF Order, Unpassed
<1> QED
  BY <1>3, <1>4, <1>5 DEF Order

\* A new request comes after those answered so far, and is nowhere yet.
LEMMA OrderReceive ==
    ASSUME OrderInv, NEW r \in Requests, NEW n \in Nodes, Receive(n, r)
    PROVE  Order'
<1>1. /\ Order /\ TypeOK /\ Once /\ Carried /\ pc[r] = "new"
      /\ UNCHANGED <<wire, queue, tasks, inbox, channel, sock, host, reply>>
      /\ pc' = [pc EXCEPT ![r] = "accepted"] /\ at' = [at EXCEPT ![r] = n]
      /\ precedes' = precedes \cup {<<q, r>> : q \in {q \in Requests : reply[q] = "ok"}}
  BY DEF OrderInv, OnceInv, Inv, Receive, procVars, brokerVars, sockVars
<1>2. After'
  BY <1>1 DEF Order, After, TypeOK
<1>3. ASSUME NEW q, NEW x, <<q, x>> \in Early', x # r
      PROVE  <<q, x>> \in Early
  <2>1. <<q, x>> \in precedes /\ at'[q] = at'[x]
    BY <1>1, <1>3 DEF Early
  <2>2. q # r /\ q \in Requests /\ x \in Requests
    BY <1>1, <2>1 DEF Order, After, TypeOK
  <2>3. at[q] = at[x]
    BY <1>1, <1>3, <2>1, <2>2 DEF TypeOK
  <2> QED
    BY <2>1, <2>3 DEF Early
<1>4. \A s \in Sockets : r \notin Range(inbox[s])
  <2>1. r \notin messages
    BY <1>1 DEF Once, Untold
  <2> QED
    BY <1>1, <2>1, RangeOfTyped DEF Carried
<1>5. ASSUME NEW m \in Nodes, NEW e \in Range(wire[m]) \cup Range(queue[m]) \cup Range(tasks[m])
      PROVE  e.msg # r
  <2>1. e = RecipientEntry(e.msg) \/ e = EchoEntry(e.msg)
    BY <1>1, <1>5 DEF Once, Shaped, Shape
  <2> QED
    BY <1>1, <2>1 DEF Once, Unpublished, Fresh, OffWire
<1>6. ASSUME NEW e, NEW m \in Nodes,
             NEW f \in Range(wire[m]) \cup Range(queue[m]) \cup Range(tasks[m]),
             <<e, f>> \in Ahead'
      PROVE  <<e, f>> \in Ahead
  BY <1>3, <1>5, <1>6 DEF Ahead
<1>7. WireOrder'
  <2>1. ASSUME NEW m \in Nodes
        PROVE  OrderedBy(Ahead', wire[m])
    <3>1. \A i \in DOMAIN wire[m] : wire[m][i] \in Range(wire[m])
      BY DEF Range
    <3>2. OrderedBy(Ahead, wire[m])
      BY <1>1 DEF Order, WireOrder
    <3> QED
      BY <1>6, <3>1, <3>2 DEF OrderedBy
  <2>2. ASSUME NEW m \in Nodes, NEW e \in Range(wire[m])
        PROVE  /\ \A k \in Nodes : \A f \in Range(queue[k]) \cup Range(tasks[k]) : <<e, f>> \notin Ahead'
               /\ \A s \in Sockets : \A x \in Range(inbox[s]) :
                     Owner[s] = e.to => <<e.msg, x>> \notin Early'
    <3>1. \A k \in Nodes : \A f \in Range(queue[k]) \cup Range(tasks[k]) : <<e, f>> \notin Ahead'
      BY <1>1, <1>6 DEF Order, WireOrder
    <3>2. \A s \in Sockets : \A x \in Range(inbox[s]) : Owner[s] = e.to => <<e.msg, x>> \notin Early'
      BY <1>1, <1>3, <1>4 DEF Order, WireOrder
    <3> QED
      BY <3>1, <3>2
  <2> QED
    BY <1>1, <2>1, <2>2 DEF WireOrder
<1>8. QueueOrder'
  <2>1. ASSUME NEW m \in Nodes
        PROVE  /\ OrderedBy(Ahead, queue[m]) => OrderedBy(Ahead', queue[m])
               /\ OrderedBy(Ahead, tasks[m]) => OrderedBy(Ahead', tasks[m])
    <3>1. /\ \A i \in DOMAIN queue[m] : queue[m][i] \in Range(queue[m])
          /\ \A i \in DOMAIN tasks[m] : tasks[m][i] \in Range(tasks[m])
      BY DEF Range
    <3> QED
      BY <1>6, <3>1 DEF OrderedBy
  <2> QED
    BY <1>1, <1>6, <2>1 DEF Order, QueueOrder
<1>9. Unpassed'
  <2> SUFFICES ASSUME NEW s \in Sockets, Live(s), channel[host[s]],
                      NEW e \in Range(queue[host[s]]), NEW x \in Range(inbox[s]),
                      Owner[s] = e.to
               PROVE  <<e.msg, x>> \notin Early'
      BY <1>1 DEF Unpassed, Live
  <2> QED
    BY <1>1, <1>3, <1>4 DEF Order, Unpassed
<1>10. InboxOrder'
  <2> SUFFICES ASSUME NEW s \in Sockets
               PROVE  OrderedBy(Early', inbox[s])
      BY <1>1 DEF InboxOrder
  <2>1. \A i \in DOMAIN inbox[s] : inbox[s][i] \in Range(inbox[s])
    BY DEF Range
  <2> QED
    BY <1>1, <1>3, <1>4, <2>1 DEF Order, InboxOrder, OrderedBy
<1> QED
  BY <1>2, <1>7, <1>8, <1>9, <1>10 DEF Order

\* What is published precedes nothing yet: its request is not answered.
LEMMA OrderPublish ==
    ASSUME OrderInv, NEW r \in Requests, PublishToRecipient(r) \/ PublishEchoAndAck(r)
    PROVE  Order'
<1>1. /\ Order /\ TypeOK /\ pc[r] \in {"inserted", "announced"}
      /\ UNCHANGED <<queue, tasks, inbox, channel, sock, host, at, precedes>>
  BY DEF OrderInv, OnceInv, Inv, PublishToRecipient, PublishEchoAndAck, publishMessage,
         procVars, sockVars
<1>2. PICK e \in Entry : e.msg = r /\ publishMessage(at[r], e)
  BY EntryTypes, EntryShapes DEF PublishToRecipient, PublishEchoAndAck
<1>3. Early' = Early /\ Ahead' = Ahead
  BY <1>1 DEF Early, Ahead
<1>4. /\ \A x : <<r, x>> \notin Early
      /\ \A f : <<e, f>> \notin Ahead
  BY <1>1, <1>2, EarlyFacts
<1>5. After'
  <2>1. \A q \in Requests : q # r => pc'[q] = pc[q] /\ reply'[q] = reply[q]
    BY <1>1 DEF TypeOK, PublishToRecipient, PublishEchoAndAck, Tell
  <2>2. pc'[r] \in {"announced", "done"} /\ (reply'[r] = reply[r] \/ pc'[r] = "done")
    BY <1>1 DEF TypeOK, PublishToRecipient, PublishEchoAndAck
  <2>3. ASSUME NEW p \in precedes
        PROVE  pc'[p[1]] = "done" /\ pc'[p[2]] # "new" /\ p[1] # p[2]
    <3>1. /\ p[1] \in Requests /\ p[2] \in Requests
          /\ pc[p[1]] = "done" /\ pc[p[2]] # "new" /\ p[1] # p[2]
      BY <1>1 DEF Order, After, TypeOK
    <3> QED
      BY <1>1, <2>1, <2>2, <3>1
  <2>4. ASSUME NEW q \in Requests, reply'[q] = "ok"
        PROVE  pc'[q] = "done"
    BY <1>1, <2>1, <2>2, <2>4 DEF Order, After
  <2> QED
    BY <1>1, <2>3, <2>4 DEF After
<1>6. ASSUME NEW n \in Nodes
      PROVE  /\ OrderedBy(Ahead, wire'[n])
             /\ Range(wire'[n]) \subseteq Range(wire[n]) \cup {e}
  <2>1. wire[n] \in Seq(Entry) /\ OrderedBy(Ahead, wire[n])
    BY <1>1 DEF TypeOK, Order, WireOrder
  <2>2. wire'[n] = wire[n] \/ wire'[n] = Append(wire[n], e)
    BY <1>1, <1>2 DEF TypeOK, publishMessage
  <2>3. OrderedBy(Ahead, Append(wire[n], e))
    BY <1>2, <1>4, <2>1, OrderedAppend
  <2>4. Range(Append(wire[n], e)) = Range(wire[n]) \cup {e}
    BY <1>2, <2>1, RangeAppend
  <2> QED
    BY <2>1, <2>2, <2>3, <2>4
<1>7. WireOrder'
  <2> SUFFICES ASSUME NEW n \in Nodes, NEW x \in Range(wire'[n])
               PROVE  /\ \A m \in Nodes : \A f \in Range(queue[m]) \cup Range(tasks[m]) :
                            <<x, f>> \notin Ahead
                      /\ \A s \in Sockets : \A q \in Range(inbox[s]) :
                            Owner[s] = x.to => <<x.msg, q>> \notin Early
      BY <1>1, <1>3, <1>6 DEF WireOrder
  <2>1. CASE x = e
    BY <1>2, <1>4, <2>1
  <2>2. CASE x # e
    BY <1>1, <1>6, <2>2 DEF Order, WireOrder
  <2> QED
    BY <2>1, <2>2
<1>8. QueueOrder' /\ Unpassed' /\ InboxOrder'
  BY <1>1, <1>3 DEF Order, QueueOrder, Unpassed, InboxOrder, Live
<1> QED
  BY <1>5, <1>7, <1>8 DEF Order

\* What is routed is ahead of nothing the queues hold, and what must come before
\* it is not on the wire any more.
LEMMA OrderRoute ==
    ASSUME OrderInv, NEW n \in Nodes, Route(n)
    PROVE  Order'
<1> DEFINE e == Head(wire[n])
<1>1. /\ Order /\ TypeOK /\ Once /\ wire[n] \in Seq(Entry) /\ wire[n] # <<>>
      /\ UNCHANGED <<tasks, inbox, channel, sock, host, at, pc, reply, precedes>>
      /\ OrderedBy(Ahead, wire[n])
  BY DEF OrderInv, OnceInv, Inv, TypeOK, Order, WireOrder, Route, procVars, sockVars, sendVars
<1>2. Early' = Early /\ Ahead' = Ahead
  BY <1>1 DEF Early, Ahead
<1>3. /\ e \in Range(wire[n]) /\ e \in Entry /\ at[e.msg] = n
      /\ OrderedBy(Ahead, Tail(wire[n])) /\ Range(Tail(wire[n])) \subseteq Range(wire[n])
      /\ \A x \in Range(Tail(wire[n])) : <<x, e>> \notin Ahead
  BY <1>1, RangeTail, OrderedTail DEF Once, OnOneWire
<1>4. \A m \in Nodes : wire'[m] = IF m = n THEN Tail(wire[n]) ELSE wire[m]
  BY <1>1 DEF Route, TypeOK
<1>5. \A m \in Nodes : queue'[m] = queue[m] \/ queue'[m] = Append(queue[m], e)
  BY DEF Route, push
<1> HIDE DEF e
<1>6. /\ \A m \in Nodes : \A f \in Range(queue[m]) \cup Range(tasks[m]) : <<e, f>> \notin Ahead
      /\ \A s \in Sockets : \A r \in Range(inbox[s]) : Owner[s] = e.to => <<e.msg, r>> \notin Early
      /\ <<e, e>> \notin Ahead
  BY <1>1, <1>3, EarlyFacts DEF Order, WireOrder
<1>7. ASSUME NEW m \in Nodes
      PROVE  /\ Range(queue'[m]) \subseteq Range(queue[m]) \cup {e}
             /\ OrderedBy(Ahead, queue'[m])
  <2>1. queue[m] \in Seq(Entry) /\ OrderedBy(Ahead, queue[m])
    BY <1>1 DEF TypeOK, Order, QueueOrder
  <2>2. Range(Append(queue[m], e)) = Range(queue[m]) \cup {e}
    BY <1>3, <2>1, RangeAppend
  <2>3. OrderedBy(Ahead, Append(queue[m], e))
    BY <1>3, <1>6, <2>1, OrderedAppend
  <2> QED
    BY <1>5, <2>1, <2>2, <2>3
<1>8. ASSUME NEW m \in Nodes, NEW x \in Range(wire'[m])
      PROVE  x \in Range(wire[m]) /\ <<x, e>> \notin Ahead
  <2>1. CASE m = n
    BY <1>3, <1>4, <1>8, <2>1
  <2>2. CASE m # n
    <3>1. x \in Range(wire[m]) /\ at[x.msg] = m
      BY <1>1, <1>4, <1>8, <2>2 DEF Once, OnOneWire
    <3>2. <<x.msg, e.msg>> \notin Early
      BY <1>3, <2>2, <3>1, EarlyFacts
    <3> QED
      BY <3>1, <3>2, EarlyFacts
  <2> QED
    BY <2>1, <2>2
<1>9. WireOrder'
  <2>1. ASSUME NEW m \in Nodes
        PROVE  OrderedBy(Ahead, wire'[m])
    BY <1>1, <1>3, <1>4 DEF Order, WireOrder
  <2>2. ASSUME NEW m \in Nodes, NEW x \in Range(wire'[m])
        PROVE  /\ \A k \in Nodes : \A f \in Range(queue'[k]) \cup Range(tasks[k]) :
                     <<x, f>> \notin Ahead
               /\ \A s \in Sockets : \A r \in Range(inbox[s]) :
                     Owner[s] = x.to => <<x.msg, r>> \notin Early
    BY <1>1, <1>7, <1>8, <2>2 DEF Order, WireOrder
  <2> QED
    BY <1>1, <1>2, <2>1, <2>2 DEF WireOrder
<1>10. QueueOrder'
  BY <1>1, <1>2, <1>6, <1>7 DEF Order, QueueOrder
<1>11. Unpassed'
  <2> SUFFICES ASSUME NEW s \in Sockets, Live(s), channel[host[s]],
                      NEW x \in Range(queue'[host[s]]), NEW r \in Range(inbox[s]),
                      Owner[s] = x.to
               PROVE  <<x.msg, r>> \notin Early
      BY <1>1, <1>2 DEF Unpassed, Live
  <2>1. host[s] \in Nodes
    BY DEF OrderInv, OnceInv, LossInv, Placed
  <2> QED
    BY <1>1, <1>6, <1>7, <2>1 DEF Order, Unpassed
<1>12. After' /\ InboxOrder'
  BY <1>1, <1>2 DEF Order, After, InboxOrder
<1> QED
  BY <1>9, <1>10, <1>11, <1>12 DEF Order

\* The head of a queue is delivered before what it is ahead of.
LEMMA OrderDeliver ==
    ASSUME OrderInv, NEW n \in Nodes, deliverMessageToSocketIo(n)
    PROVE  Order'
<1> DEFINE e == Head(queue[n])
           S == IF Wired(n) THEN RoomOf(n, e.to) \ {e.skip} ELSE {}
<1>1. /\ Order /\ TypeOK /\ queue[n] \in Seq(Entry) /\ queue[n] # <<>> /\ channel[n]
      /\ OrderedBy(Ahead, queue[n]) /\ OrderedBy(Ahead, tasks[n]) /\ tasks[n] \in Seq(Entry)
      /\ UNCHANGED <<wire, channel, sock, host, at, pc, reply, precedes>>
  BY DEF OrderInv, OnceInv, Inv, TypeOK, Order, QueueOrder, deliverMessageToSocketIo,
         procVars, sendVars
<1>2. Early' = Early /\ Ahead' = Ahead
  BY <1>1 DEF Early, Ahead
<1>3. /\ e \in Range(queue[n]) /\ e \in Entry /\ e.msg \in Requests
      /\ OrderedBy(Ahead, Tail(queue[n])) /\ Range(Tail(queue[n])) \subseteq Range(queue[n])
      /\ \A x \in Range(Tail(queue[n])) : <<x, e>> \notin Ahead
  <2>1. e \in Range(queue[n]) /\ e \in Entry /\ Range(Tail(queue[n])) \subseteq Range(queue[n])
    BY <1>1, RangeTail
  <2>2. /\ OrderedBy(Ahead, Tail(queue[n]))
        /\ \A x \in Range(Tail(queue[n])) : <<x, e>> \notin Ahead
    BY <1>1, OrderedTail
  <2> QED
    BY <2>1, <2>2 DEF Entry
<1>4. /\ \A m \in Nodes : queue'[m] = IF m = n THEN Tail(queue[n]) ELSE queue[m]
      /\ \A m \in Nodes : m # n => tasks'[m] = tasks[m]
      /\ tasks'[n] = tasks[n] \/ tasks'[n] = Append(tasks[n], e)
      /\ \A s \in Sockets : s \in S \/ inbox'[s] = inbox[s]
      /\ \A s \in Sockets : s \in S => inbox'[s] = Append(inbox[s], e.msg)
  BY <1>1 DEF TypeOK, deliverMessageToSocketIo
<1>5. \A s \in S : /\ s \in Sockets /\ sock[s] = "joined" /\ host[s] = n /\ Owner[s] = e.to
                   /\ Live(s)
  BY DEF RoomOf, Live
<1> HIDE DEF e, S
<1>6. <<e.msg, e.msg>> \notin Early /\ <<e, e>> \notin Ahead
  BY EarlyFacts
<1>7. \A m \in Nodes : Range(queue'[m]) \subseteq Range(queue[m])
  BY <1>3, <1>4
<1>8. ASSUME NEW m \in Nodes
      PROVE  Range(tasks'[m]) \subseteq Range(tasks[m]) \cup Range(queue[m])
  <2>1. Range(Append(tasks[n], e)) = Range(tasks[n]) \cup {e}
    BY <1>1, <1>3, RangeAppend
  <2> QED
    BY <1>3, <1>4, <2>1
<1>9. ASSUME NEW s \in Sockets, NEW x \in Range(inbox'[s])
      PROVE  x \in Range(inbox[s]) \/ (s \in S /\ x = e.msg)
  <2>1. inbox[s] \in Seq(Requests)
    BY <1>1 DEF TypeOK
  <2>2. Range(Append(inbox[s], e.msg)) = Range(inbox[s]) \cup {e.msg}
    BY <1>3, <2>1, RangeAppend
  <2> QED
    BY <1>4, <1>9, <2>2
<1>10. ASSUME NEW x \in Entry, x.to = e.to, <<x.msg, e.msg>> \in Early
       PROVE  <<x, e>> \in Ahead
  BY <1>3, <1>10, EarlyFacts
<1>11. WireOrder'
  <2> SUFFICES ASSUME NEW m \in Nodes, NEW x \in Range(wire[m])
               PROVE  /\ \A k \in Nodes : \A f \in Range(queue'[k]) \cup Range(tasks'[k]) :
                            <<x, f>> \notin Ahead
                      /\ \A s \in Sockets : \A r \in Range(inbox'[s]) :
                            Owner[s] = x.to => <<x.msg, r>> \notin Early
      BY <1>1, <1>2 DEF Order, WireOrder
  <2>1. \A k \in Nodes : \A f \in Range(queue'[k]) \cup Range(tasks'[k]) : <<x, f>> \notin Ahead
    BY <1>1, <1>7, <1>8 DEF Order, WireOrder
  <2>2. ASSUME NEW s \in Sockets, NEW r \in Range(inbox'[s]), Owner[s] = x.to,
               <<x.msg, r>> \in Early
        PROVE  FALSE
    <3>1. s \in S /\ r = e.msg
      BY <1>1, <1>9, <2>2 DEF Order, WireOrder
    <3>2. x \in Entry
      BY <1>1, RangeOfTyped DEF TypeOK
    <3>3. <<x, e>> \in Ahead
      BY <1>5, <1>10, <2>2, <3>1, <3>2
    <3> QED
      BY <1>1, <1>3, <3>3 DEF Order, WireOrder
  <2> QED
    BY <2>1, <2>2
<1>12. QueueOrder'
  <2> SUFFICES ASSUME NEW m \in Nodes
               PROVE  /\ OrderedBy(Ahead, queue'[m])
                      /\ channel[m] => /\ OrderedBy(Ahead, tasks'[m])
                                       /\ \A f \in Range(tasks'[m]), x \in Range(queue'[m]) :
                                             <<x, f>> \notin Ahead
      BY <1>1, <1>2 DEF QueueOrder
  <2>1. CASE m # n
    BY <1>1, <1>4, <2>1 DEF Order, QueueOrder
  <2>2. CASE m = n
    <3>1. \A f \in Range(tasks[n]), x \in Range(queue[n]) : <<x, f>> \notin Ahead
      BY <1>1 DEF Order, QueueOrder
    <3>2. \A f \in Range(tasks[n]) : <<e, f>> \notin Ahead
      BY <1>3, <3>1
    <3>3. OrderedBy(Ahead, Append(tasks[n], e)) /\ Range(Append(tasks[n], e)) = Range(tasks[n]) \cup {e}
      BY <1>1, <1>3, <1>6, <3>2, OrderedAppend, RangeAppend
    <3> QED
      BY <1>1, <1>3, <1>4, <2>2, <3>1, <3>3
  <2> QED
    BY <2>1, <2>2
<1>13. Unpassed'
  <2> SUFFICES ASSUME NEW s \in Sockets, Live(s), channel[host[s]],
                      NEW x \in Range(queue'[host[s]]), NEW r \in Range(inbox'[s]),
                      Owner[s] = x.to, <<x.msg, r>> \in Early
               PROVE  FALSE
      BY <1>1, <1>2 DEF Unpassed, Live
  <2>1. host[s] \in Nodes
    BY DEF OrderInv, OnceInv, LossInv, Placed
  <2>2. x \in Range(queue[host[s]]) /\ x \in Entry
    BY <1>1, <1>7, <2>1, RangeOfTyped DEF TypeOK
  <2>3. s \in S /\ r = e.msg
    BY <1>1, <1>9, <2>2 DEF Order, Unpassed
  <2>4. host[s] = n /\ <<x, e>> \in Ahead
    BY <1>5, <1>10, <2>2, <2>3
  <2> QED
    BY <1>3, <1>4, <2>4
<1>14. InboxOrder'
  <2> SUFFICES ASSUME NEW s \in Sockets
               PROVE  OrderedBy(Early, inbox'[s])
      BY <1>2 DEF InboxOrder
  <2>1. inbox[s] \in Seq(Requests) /\ OrderedBy(Early, inbox[s])
    BY <1>1 DEF TypeOK, Order, InboxOrder
  <2>2. CASE s \in S
    <3>1. \A r \in Range(inbox[s]) : <<e.msg, r>> \notin Early
      BY <1>1, <1>3, <1>5, <2>2 DEF Order, Unpassed
    <3>2. OrderedBy(Early, Append(inbox[s], e.msg))
      BY <1>3, <1>6, <2>1, <3>1, OrderedAppend
    <3> QED
      BY <1>4, <2>2, <3>2
  <2>3. CASE s \notin S
    BY <1>4, <2>1, <2>3
  <2> QED
    BY <2>2, <2>3
<1>15. After'
  BY <1>1 DEF Order, After
<1> QED
  BY <1>11, <1>12, <1>13, <1>14, <1>15 DEF Order

\* Deliveries that go back in front of the queue were taken from its front, and
\* a settled one only leaves the others.
LEMMA OrderRequeue ==
    ASSUME OrderInv, NEW n \in Nodes, UNCHANGED <<host, inbox, at, reply, precedes>>,
           queue' = [queue EXCEPT ![n] = Requeued(n)],
           channel' = [channel EXCEPT ![n] = FALSE],
           wire' = [wire EXCEPT ![n] = <<>>],
           \A m \in Nodes : tasks'[m] = tasks[m] \/ (m = n /\ tasks'[m] = <<>>),
           \A s \in Sockets : sock'[s] = sock[s] \/ sock'[s] = "closed",
           \A r \in Requests : pc'[r] = pc[r] \/ (pc[r] \in Running /\ pc'[r] = "dead")
    PROVE  Order'
<1>1. Order /\ TypeOK /\ OnceInv
  BY DEF OrderInv, OnceInv, Inv
<1>2. Early' = Early /\ Ahead' = Ahead
  BY DEF Early, Ahead
<1>3. ASSUME NEW m \in Nodes
      PROVE  /\ m # n => queue'[m] = queue[m] /\ channel'[m] = channel[m] /\ wire'[m] = wire[m]
             /\ m = n => queue'[m] = Requeued(n) /\ ~channel'[m] /\ wire'[m] = <<>>
  BY <1>1 DEF TypeOK
<1>4. OrderedBy(Ahead, Requeued(n))
  <2>1. /\ tasks[n] \in Seq(Entry) /\ queue[n] \in Seq(Entry) /\ OrderedBy(Ahead, queue[n])
        /\ channel[n] => /\ OrderedBy(Ahead, tasks[n])
                         /\ \A f \in Range(tasks[n]), e \in Range(queue[n]) : <<e, f>> \notin Ahead
    BY <1>1 DEF TypeOK, Order, QueueOrder
  <2>2. CASE channel[n]
    <3>1. OrderedBy(Ahead, tasks[n] \o queue[n])
      BY <2>1, <2>2, OrderedConcat
    <3> QED
      BY <2>2, <3>1 DEF Requeued
  <2>3. CASE ~channel[n]
    BY <2>1, <2>3 DEF Requeued
  <2> QED
    BY <2>2, <2>3
<1>5. ASSUME NEW m \in Nodes
      PROVE  /\ Range(queue'[m]) \subseteq Range(tasks[m]) \cup Range(queue[m])
             /\ Range(tasks'[m]) \subseteq Range(tasks[m])
             /\ Range(wire'[m]) \subseteq Range(wire[m])
             /\ OrderedBy(Ahead, queue'[m]) /\ OrderedBy(Ahead, wire'[m])
  <2>1. OrderedBy(Ahead, queue[m]) /\ OrderedBy(Ahead, wire[m]) /\ OrderedBy(Ahead, <<>>)
    BY <1>1 DEF Order, QueueOrder, WireOrder, OrderedBy
  <2> QED
    BY <1>1, <1>3, <1>4, <2>1, RequeuedOnce, NothingTwice
<1>6. After'
  <2>1. \A r \in Requests : /\ pc[r] = "done" => pc'[r] = "done"
                            /\ pc[r] # "new" => pc'[r] # "new"
    BY DEF Running
  <2>2. \A p \in precedes : p[1] \in Requests /\ p[2] \in Requests
    BY <1>1 DEF TypeOK
  <2> QED
    BY <1>1, <2>1, <2>2 DEF Order, After
<1>7. WireOrder'
  BY <1>1, <1>2, <1>5 DEF Order, WireOrder
<1>8. QueueOrder'
  BY <1>1, <1>2, <1>3, <1>5 DEF Order, QueueOrder
<1>9. Unpassed'
  <2> SUFFICES ASSUME NEW s \in Sockets, Live(s)', channel'[host[s]],
                      NEW e \in Range(queue'[host[s]]), NEW r \in Range(inbox[s]),
                      Owner[s] = e.to
               PROVE  <<e.msg, r>> \notin Early
      BY <1>2 DEF Unpassed
  <2>1. Live(s) /\ host[s] \in Nodes
    BY <1>1 DEF OnceInv, LossInv, Placed, Live
  <2>2. host[s] # n
    BY <1>3, <2>1
  <2> QED
    BY <1>1, <1>3, <2>1, <2>2 DEF Order, Unpassed
<1>10. InboxOrder'
  BY <1>1, <1>2 DEF Order, InboxOrder
<1> QED
  BY <1>6, <1>7, <1>8, <1>9, <1>10 DEF Order

\* The end of a process.
LEMMA OrderStopProcess ==
    ASSUME OrderInv, NEW n \in Nodes, StopProcess(n)
    PROVE  Order'
<1>1. TypeOK
  BY DEF OrderInv, OnceInv, Inv
<1> QED
  BY <1>1, OrderRequeue DEF StopProcess, TypeOK

\* Every step keeps the order.
LEMMA OrderStep == OrderInv /\ [Next]_vars => OrderInv'
<1> SUFFICES ASSUME OrderInv, [Next]_vars
             PROVE  Order'
    BY OnceStep DEF OrderInv
<1>0. Order /\ TypeOK /\ Placed /\ Once
  BY DEF OrderInv, OnceInv, Inv, LossInv
<1>1. ASSUME NEW r \in Requests, NEW n \in Nodes, Receive(n, r)
      PROVE  Order'
  BY <1>1, OrderReceive
<1>2. ASSUME NEW r \in Requests, ArriveBeforeHandlers(r) \/ insertMessage(r)
      PROVE  Order'
  BY <1>0, <1>2, OrderQuiet
     DEF ArriveBeforeHandlers, insertMessage, TypeOK, Live, procVars, brokerVars, sockVars
<1>3. ASSUME NEW r \in Requests, Fail(r)
      PROVE  Order'
  BY <1>0, <1>3, OrderQuiet DEF Fail, Tell, TypeOK, Live, procVars, brokerVars, sockVars
<1>4. ASSUME NEW r \in Requests, PublishToRecipient(r) \/ PublishEchoAndAck(r)
      PROVE  Order'
  BY <1>4, OrderPublish
<1>5. ASSUME NEW n \in Nodes, Route(n) \/ deliverMessageToSocketIo(n)
      PROVE  Order'
  BY <1>5, OrderRoute, OrderDeliver
<1>6. ASSUME NEW n \in Nodes, NEW i \in DOMAIN tasks[n], Settle(n, i)
      PROVE  Order'
  <2>1. CASE channel[n]
    <3>1. /\ tasks' = [tasks EXCEPT ![n] = RemoveAt(tasks[n], i)]
          /\ UNCHANGED <<procVars, wire, bound, queue, sockVars, sendVars, precedes>>
      BY <1>6, <2>1 DEF Settle
    <3>2. UNCHANGED <<node, channel, wire, queue, sock, host, inbox, pc, at, reply, precedes>>
      BY <3>1 DEF procVars, sockVars, sendVars
    <3>3. /\ OrderedBy(Ahead, tasks[n]) /\ Distinct(tasks[n]) /\ tasks[n] \in Seq(Entry)
      BY <1>0, <2>1 DEF TypeOK, Order, QueueOrder, Once, OneCopy
    <3>4. /\ OrderedBy(Ahead, RemoveAt(tasks[n], i))
          /\ Range(RemoveAt(tasks[n], i)) \subseteq Range(tasks[n])
      BY <3>3, OrderedRemoveAt, DistinctRemoveAt
    <3>5. ASSUME NEW m \in Nodes
          PROVE  /\ Range(tasks'[m]) \subseteq Range(tasks[m])
                 /\ m # n => tasks'[m] = tasks[m]
                 /\ m = n => OrderedBy(Ahead, tasks'[m])
      BY <1>0, <3>1, <3>4 DEF TypeOK
    <3>6. Early' = Early /\ Ahead' = Ahead
      BY <3>2 DEF Early, Ahead
    <3>7. After' /\ Unpassed' /\ InboxOrder'
      BY <1>0, <3>2, <3>6 DEF Order, After, Unpassed, InboxOrder, Live
    <3>8. WireOrder'
      BY <1>0, <3>2, <3>5, <3>6 DEF Order, WireOrder
    <3>9. QueueOrder'
      BY <1>0, <3>2, <3>5, <3>6 DEF Order, QueueOrder
    <3> QED
      BY <3>7, <3>8, <3>9 DEF Order
  <2>2. CASE ~channel[n]
    BY <1>6, <2>2, OrderStopProcess DEF Settle
  <2> QED
    BY <2>1, <2>2
<1>7. ASSUME NEW n \in Nodes, LoseChannel(n)
      PROVE  Order'
  BY <1>7, OrderRequeue DEF LoseChannel, sockVars, sendVars
<1>8. ASSUME NEW n \in Nodes, connectRabbit(n)
      PROVE  Order'
  <2>1. /\ node[n] = "down"
        /\ UNCHANGED <<wire, queue, tasks, sock, host, inbox, pc, at, reply, precedes>>
        /\ \A m \in Nodes : channel'[m] = IF m = n THEN TRUE ELSE channel[m]
    BY <1>0, <1>8 DEF TypeOK, connectRabbit, sockVars, sendVars
  <2>2. Early' = Early /\ Ahead' = Ahead
    BY <2>1 DEF Early, Ahead
  <2>3. Range(tasks[n]) = {} /\ OrderedBy(Ahead, tasks[n])
    BY <1>0, <2>1, NothingTwice DEF Once, OneCopy, OrderedBy
  <2>4. \A s \in Sockets : Live(s) => host[s] \in Nodes /\ host[s] # n
    BY <1>0, <2>1 DEF Placed
  <2>5. Unpassed'
    BY <1>0, <2>1, <2>2, <2>4 DEF Order, Unpassed, Live
  <2>6. QueueOrder'
    BY <1>0, <2>1, <2>2, <2>3 DEF Order, QueueOrder
  <2>7. After' /\ WireOrder' /\ InboxOrder'
    BY <1>0, <2>1, <2>2 DEF Order, After, WireOrder, InboxOrder
  <2> QED
    BY <2>5, <2>6, <2>7 DEF Order
<1>9. ASSUME NEW n \in Nodes, Listen(n) \/ Shutdown(n) \/ closeSocketIo(n)
      PROVE  Order'
  <2>1. /\ UNCHANGED <<channel, wire, queue, tasks, host, inbox, pc, at, reply, precedes>>
        /\ \A s \in Sockets : sock'[s] = sock[s] \/ sock'[s] = "closed"
    BY <1>0, <1>9 DEF TypeOK, Listen, Shutdown, closeSocketIo, brokerVars, sockVars, sendVars
  <2> QED
    BY <2>1, OrderQuiet DEF Live
<1>10. ASSUME NEW n \in Nodes, Exit(n) \/ Crash(n)
       PROVE  Order'
  BY <1>10, OrderStopProcess DEF Exit, Crash
<1>11. ASSUME NEW s \in Sockets, NEW n \in Nodes, Connect(s, n)
       PROVE  Order'
  <2>1. inbox[s] = <<>>
    BY <1>0, <1>11 DEF Once, Silent, Connect
  <2>2. /\ UNCHANGED <<channel, wire, queue, tasks, inbox, pc, at, reply, precedes>>
        /\ \A t \in Sockets : t # s => sock'[t] = sock[t] /\ host'[t] = host[t]
    BY <1>0, <1>11 DEF TypeOK, Connect, procVars, brokerVars, sendVars
  <2> QED
    BY <2>1, <2>2, OrderQuiet DEF Live
<1>12. ASSUME NEW s \in Sockets, Join(s) \/ Disconnect(s)
       PROVE  Order'
  <2>1. /\ UNCHANGED <<channel, wire, queue, tasks, host, inbox, pc, at, reply, precedes>>
        /\ \A t \in Sockets : t # s => sock'[t] = sock[t]
        /\ Live(s)
    BY <1>0, <1>12 DEF TypeOK, Join, Disconnect, Live, procVars, brokerVars, sendVars
  <2> QED
    BY <2>1, OrderQuiet DEF Live
<1>13. CASE UNCHANGED vars
  BY <1>13, OrderQuiet DEF vars, procVars, brokerVars, sockVars, sendVars, Live
<1> QED
  BY <1>1, <1>2, <1>3, <1>4, <1>5, <1>6, <1>7, <1>8, <1>9, <1>10, <1>11, <1>12,
     <1>13 DEF Next, Handle

\* Nothing has an order at first.
LEMMA OrderInit == Init => OrderInv
<1> SUFFICES ASSUME Init
             PROVE  Order
    BY OnceInit DEF OrderInv
<1>1. /\ \A n \in Nodes : wire[n] = <<>> /\ queue[n] = <<>> /\ tasks[n] = <<>>
      /\ \A s \in Sockets : inbox[s] = <<>>
      /\ \A r \in Requests : reply[r] = "none"
      /\ precedes = {}
  BY DEF Init
<1> QED
  BY <1>1, NothingTwice
     DEF Order, After, WireOrder, QueueOrder, Unpassed, InboxOrder, OrderedBy

\* Two messages sent one after the other through the same replica reach every
\* connection in that order, through redeliveries, restarts and lost channels.
THEOREM ArriveInOrder == Spec => []SameReplicaOrder
<1>1. ASSUME OrderInv
      PROVE  SameReplicaOrder
  <2> SUFFICES ASSUME NEW p \in precedes, NEW s \in Sockets, at[p[1]] = at[p[2]],
                      NEW i \in DOMAIN inbox[s], NEW j \in DOMAIN inbox[s],
                      inbox[s][i] = p[1], inbox[s][j] = p[2]
               PROVE  i < j
      BY DEF SameReplicaOrder
  <2>1. p = <<inbox[s][i], inbox[s][j]>> /\ p \in Early
    BY <1>1 DEF OrderInv, OnceInv, Inv, TypeOK, Early
  <2> QED
    BY <1>1, <2>1 DEF OrderInv, Order, InboxOrder, OrderedBy
<1> QED
  BY OrderInit, OrderStep, <1>1, PTL DEF Spec
=============================================================================
