---------------------------- MODULE CallSession ----------------------------
(***************************************************************************)
(* 1:1 calls: the call slice, useWebRtcCallSession and CallSessionDock of  *)
(* every device, and the relay of webrtc:offer, answer, candidate and      *)
(* hangup by the messaging service.                                        *)
(*                                                                         *)
(* A call is named by its callId, in the order of the calls; one offer,    *)
(* answer and candidate of a device for a call stand for their contents.   *)
(* A dispatch and the effects React runs for it are one step: the store    *)
(* notifies synchronously, before the next task of the page.               *)
(***************************************************************************)
EXTENDS Naturals, Sequences

CONSTANTS
  Devices,
  UserOf,      \* the person signed in on each device
  FirstView,   \* the peer of the thread each device shows at first
  Starters,    \* bound: the devices that may start each call
  Faulty,      \* bound: the devices that meet a fault
  Trickle,     \* bound: the devices whose ICE candidates are followed
  Replicas,    \* the processes of the messaging service
  MaxCalls,    \* bound: calls ever started
  MaxCallActs,  \* bound: hang-ups and threads opened by the people
  MaxCallFaults \* bound: lost connections, refusals and failures of the browser

Nobody == "nobody"

ASSUME CallAssumption ==
  /\ UserOf \in [Devices -> {UserOf[d] : d \in Devices}]
  /\ \A d \in Devices : UserOf[d] # Nobody
  /\ FirstView \in [Devices -> {UserOf[d] : d \in Devices} \cup {Nobody}]
  /\ MaxCalls \in Nat /\ MaxCallActs \in Nat /\ MaxCallFaults \in Nat
  /\ "none" \notin Replicas

VARIABLES
  client,   \* what the page of each device holds
  starts,   \* negotiations in progress: the async functions of the effects
  sent,     \* signalling requests that a client or the service has yet to finish
  callInbox, \* signalling events on their way to each device
  online,   \* the replica each device is connected to
  callsMade, \* the number of calls
  callTold, \* history: who sent a hang-up for which call
  accepted, \* history: the devices on which a call was answered
  deaf,     \* history: the devices that lost a connection with a hang-up open
  callActs, callFaults

callVars == <<client, starts, sent, callInbox, online, callsMade, callTold, accepted, deaf, callActs, callFaults>>

Users == {UserOf[d] : d \in Devices}
CallIds == 1 .. MaxCalls
NoCall == 0
Events == {"offer", "answer", "candidate", "hangup"}

\* phase to off are the call slice, with the tracks that are switched off; role, negotiated and ice are refs of
\* useWebRtcCallSession; pc is the call the open RTCPeerConnection was made for,
\* and remote whether it has a remote description; view is the peer of the
\* thread on screen.
Client == [phase: {"idle", "incoming_ring", "outgoing_ring", "active"},
           call: CallIds \cup {NoCall}, peer: Users \cup {Nobody}, sdp: BOOLEAN,
           end: {"none", "local", "remote", "system"}, off: SUBSET {"mic", "camera"},
           role: {"none", "caller", "callee"}, negotiated: CallIds \cup {NoCall},
           pc: CallIds \cup {NoCall}, remote: BOOLEAN, ice: SUBSET CallIds,
           view: Users \cup {Nobody}]

callInitialState ==
  [phase |-> "idle", call |-> NoCall, peer |-> Nobody, sdp |-> FALSE, end |-> "none",
   off |-> {}, role |-> "none", negotiated |-> NoCall, pc |-> NoCall, remote |-> FALSE,
   ice |-> {}, view |-> Nobody]

Start == [dev: Devices, call: CallIds, peer: Users, as: {"offer", "answer"},
          step: {"media", "sdp"}]

\* via is the replica of the sender's socket; hears says that the sender waits
\* for the acknowledgement and still can get it.
Request == [from: Devices, to: Users, ev: Events, call: CallIds,
            via: Replicas \cup {"none"}, state: {"sent", "ok", "refused"}, hears: BOOLEAN]

CallTypeOK ==
  /\ client \in [Devices -> Client]
  /\ starts \subseteq Start /\ sent \subseteq Request
  /\ callInbox \in [Devices -> Seq([ev: Events, from: Users, call: CallIds])]
  /\ online \in [Devices -> Replicas \cup {"none"}]
  /\ callsMade \in 0 .. MaxCalls
  /\ callTold \subseteq Devices \X CallIds
  /\ accepted \subseteq Devices \X CallIds /\ deaf \subseteq Devices
  /\ callActs \in 0 .. MaxCallActs /\ callFaults \in 0 .. MaxCallFaults

CallInit ==
  /\ client = [d \in Devices |-> [callInitialState EXCEPT !.view = FirstView[d]]]
  /\ starts = {} /\ sent = {} /\ callTold = {} /\ accepted = {} /\ deaf = {}
  /\ callInbox = [d \in Devices |-> <<>>]
  /\ online \in [Devices -> Replicas]
  /\ callsMade = 0 /\ callActs = 0 /\ callFaults = 0

-----------------------------------------------------------------------------
(* What the steps are made of.                                             *)

CallActs == callActs < MaxCallActs /\ callActs' = callActs + 1
CallFault(d) == d \in Faulty /\ callFaults < MaxCallFaults /\ callFaults' = callFaults + 1

\* emitWebRtcSignaling: the worker refuses it at once while it is not connected.
\* Nothing depends on the acknowledgement of a candidate.
emitWebRtcSignaling(d, to, ev, call) ==
  [from |-> d, to |-> to, ev |-> ev, call |-> call, via |-> online[d],
   state |-> IF online[d] = "none" THEN "refused" ELSE "sent", hears |-> ev # "candidate"]

CallPost(requests) ==
  /\ sent' = {r \in requests : r.hears \/ r.state = "sent"}
  /\ callTold' = callTold \cup {<<r.from, r.call>> : r \in {q \in requests : q.ev = "hangup"}}

hangupCall(q, why) ==
  [q EXCEPT !.phase = "idle", !.call = NoCall, !.peer = Nobody, !.sdp = FALSE, !.end = why, !.off = {}]

\* Mutant: the peer connection and the role outlive the session.
M_Cleanup(q) == IF q.phase = "idle" THEN [q EXCEPT !.ice = {}] ELSE q

\* The effect of phase idle: hardware, connection and refs are released.
Cleanup(q) ==
  IF q.phase = "idle"
  THEN [q EXCEPT !.role = "none", !.negotiated = NoCall, !.pc = NoCall,
                 !.remote = FALSE, !.ice = {}]
  ELSE q

\* When the effect of phase active begins to negotiate the offer.
Negotiates(q) ==
  /\ q.phase = "active" /\ q.sdp
  /\ q.role # "caller" /\ q.negotiated # q.call /\ q.pc = NoCall

\* The new state q of the page of d with the effects that follow: a negotiation
\* begins, and the dock ends a call whose peer is not the one on screen.
Commit(d, q, running, requests) ==
  LET p == client[d]
      moved == <<p.phase, p.call, p.peer>> # <<q.phase, q.call, q.peer>>
      begins == moved /\ (q.phase = "outgoing_ring" \/ Negotiates(q))
      new == [dev |-> d, call |-> q.call, peer |-> q.peer, step |-> "media",
              as |-> IF q.phase = "active" THEN "answer" ELSE "offer"]
      leaves == /\ q.phase \in {"outgoing_ring", "active"} /\ q.view # q.peer
                /\ moved \/ p.view # q.view
  IN
  /\ client' = [client EXCEPT ![d] =
       IF ~begins THEN Cleanup(q)
       ELSE IF new.as = "offer" THEN [q EXCEPT !.role = "caller"]
       ELSE [q EXCEPT !.role = "callee", !.negotiated = q.call]]
  /\ starts' = running \cup (IF begins THEN {new} ELSE {})
  /\ CallPost(requests \cup
          IF leaves THEN {emitWebRtcSignaling(d, q.peer, "hangup", q.call)} ELSE {})

-----------------------------------------------------------------------------
(* The people at the devices.                                              *)

\* Somebody opens the thread of u, or none.
OpenThread(d, u) ==
  /\ CallActs
  /\ u # client[d].view /\ u # UserOf[d]
  /\ Commit(d, [client[d] EXCEPT !.view = u], starts, sent)
  /\ UNCHANGED <<callInbox, online, callsMade, accepted, deaf, callFaults>>

\* The call button of the thread header; without a conversation on screen it
\* calls the peer picked for a new one.
startOutgoingCall(d, u) ==
  /\ callsMade < MaxCalls /\ d \in Starters[callsMade + 1]
  /\ client[d].phase = "idle" /\ online[d] # "none"
  /\ u # UserOf[d] /\ client[d].view \in {u, Nobody}
  /\ callsMade' = callsMade + 1
  /\ Commit(d, [client[d] EXCEPT !.phase = "outgoing_ring", !.call = callsMade + 1, !.peer = u,
                                 !.sdp = FALSE, !.end = "none", !.off = {}], starts, sent)
  /\ UNCHANGED <<callInbox, online, accepted, deaf, callActs, callFaults>>

answerCall(d) ==
  /\ client[d].phase = "incoming_ring"
  /\ accepted' = accepted \cup {<<d, client[d].call>>}
  /\ Commit(d, [client[d] EXCEPT !.phase = "active"], starts, sent)
  /\ UNCHANGED <<callInbox, online, callsMade, deaf, callActs, callFaults>>

\* toggleCallMic and toggleCallVideo.
Toggle(d, track) ==
  /\ client[d].phase = "active" /\ CallActs
  /\ client' = [client EXCEPT ![d].off = IF track \in @ THEN @ \ {track} ELSE @ \cup {track}]
  /\ UNCHANGED <<starts, sent, callInbox, online, callsMade, callTold, accepted, deaf, callFaults>>

\* RemoteCallEndedToast goes away after a while.
clearCallSessionEndReason(d) ==
  /\ client[d].end = "remote"
  /\ client' = [client EXCEPT ![d].end = "none"]
  /\ UNCHANGED <<starts, sent, callInbox, online, callsMade, callTold, accepted, deaf, callActs, callFaults>>

\* Reject, cancel and hang up: the session ends when the request is settled.
requestLocalEndCall(d) ==
  LET r == emitWebRtcSignaling(d, client[d].peer, "hangup", client[d].call) IN
  /\ client[d].phase # "idle"
  /\ CallActs
  /\ CallPost(sent \cup {r})
  /\ UNCHANGED <<client, starts, callInbox, online, callsMade, accepted, deaf, callFaults>>

-----------------------------------------------------------------------------
(* Negotiations.                                                           *)

\* The cleanup of an effect cancels its negotiation when phase, call or peer
\* change; they never change back.
Cancelled(d, call, as) ==
  LET q == client[d] IN
  q.call # call \/ q.phase # (IF as = "offer" THEN "outgoing_ring" ELSE "active")

\* getUserMedia: a cancelled negotiation stops the tracks, another one opens
\* its peer connection.
GotMedia(s) ==
  /\ s.step = "media"
  /\ IF Cancelled(s.dev, s.call, s.as)
     THEN starts' = starts \ {s} /\ UNCHANGED client
     ELSE /\ starts' = (starts \ {s}) \cup {[s EXCEPT !.step = "sdp"]}
          /\ client' = [client EXCEPT ![s.dev].pc = s.call, ![s.dev].remote = FALSE]
  /\ UNCHANGED <<sent, callInbox, online, callsMade, callTold, accepted, deaf, callActs, callFaults>>

\* The peer connection of s has been closed: its operations reject.
Closed(s) == client[s.dev].pc # s.call

\* createOffer or createAnswer: the callee applies the offer and the candidates
\* that came before, then the offer or answer goes out, and a candidate.
Described(s) ==
  LET q == client[s.dev]
      events == {s.as} \cup (IF s.dev \in Trickle THEN {"candidate"} ELSE {})
  IN
  /\ s.step = "sdp" /\ ~Closed(s)
  /\ client' = [client EXCEPT ![s.dev] =
                  IF s.as = "answer" THEN [q EXCEPT !.remote = TRUE, !.ice = {}] ELSE q]
  /\ starts' = starts \ {s}
  /\ CallPost(sent \cup {emitWebRtcSignaling(s.dev, s.peer, ev, s.call) : ev \in events})
  /\ UNCHANGED <<callInbox, online, callsMade, accepted, deaf, callActs, callFaults>>

\* An error ends the session, unless the negotiation was cancelled.
Failed(d, call, as) ==
  IF Cancelled(d, call, as) THEN client[d] ELSE hangupCall(client[d], "system")

\* The camera is refused, the browser fails, or the connection is closed.
NegotiationFails(s) ==
  /\ \/ CallFault(s.dev)
     \/ s.step = "sdp" /\ Closed(s) /\ UNCHANGED callFaults
  /\ Commit(s.dev, Failed(s.dev, s.call, s.as), starts \ {s}, sent)
  /\ UNCHANGED <<callInbox, online, callsMade, accepted, deaf, callActs>>

\* An offer or answer is refused.
SignalRefused(r) ==
  /\ r.ev \in {"offer", "answer"} /\ r.state = "refused"
  /\ Commit(r.from, Failed(r.from, r.call, r.ev), starts, sent \ {r})
  /\ UNCHANGED <<callInbox, online, callsMade, accepted, deaf, callActs, callFaults>>

\* Mutant: a hang-up that failed leaves the session on.
M_HangupSettled(r) ==
  /\ r.ev = "hangup" /\ r.state # "sent"
  /\ IF r.state = "ok"
     THEN Commit(r.from, hangupCall(client[r.from], "local"), starts, sent \ {r})
     ELSE CallPost(sent \ {r}) /\ UNCHANGED <<client, starts>>
  /\ UNCHANGED <<callInbox, online, callsMade, accepted, deaf, callActs, callFaults>>

\* finally: whatever became of the hang-up, the session of the moment ends.
HangupSettled(r) ==
  /\ r.ev = "hangup" /\ r.state # "sent"
  /\ Commit(r.from, hangupCall(client[r.from], "local"), starts, sent \ {r})
  /\ UNCHANGED <<callInbox, online, callsMade, accepted, deaf, callActs, callFaults>>

-----------------------------------------------------------------------------
(* Inbound events.                                                         *)

\* Mutant: any event of the peer is taken for the call of the moment.
M_Concerns(d, m) == client[d].call # NoCall /\ m.from = client[d].peer

\* The handler drops what is not about the call and the peer of the moment.
Concerns(d, m) ==
  client[d].call # NoCall /\ m.call = client[d].call /\ m.from = client[d].peer

Taken(d) == callInbox' = [callInbox EXCEPT ![d] = Tail(@)]
Arrives(d, ev) == callInbox[d] # <<>> /\ Head(callInbox[d]).ev = ev

\* incomingCallRinging asks for no phase: it replaces whatever is there.
incomingCallRinging(d) ==
  LET m == Head(callInbox[d]) IN
  /\ Arrives(d, "offer") /\ Taken(d)
  /\ Commit(d, [client[d] EXCEPT !.phase = "incoming_ring", !.call = m.call, !.peer = m.from,
                                 !.sdp = TRUE, !.end = "none", !.off = {}], starts, sent)
  /\ UNCHANGED <<online, callsMade, accepted, deaf, callActs, callFaults>>

RemoteHangup(d) ==
  /\ Arrives(d, "hangup") /\ Taken(d)
  /\ Commit(d, IF Concerns(d, Head(callInbox[d])) THEN hangupCall(client[d], "remote") ELSE client[d],
            starts, sent)
  /\ UNCHANGED <<online, callsMade, accepted, deaf, callActs, callFaults>>

\* Mutant: the candidates that came early are not applied with the answer.
M_Answered(q) ==
  IF q.remote THEN hangupCall(q, "system")
  ELSE [q EXCEPT !.remote = TRUE, !.phase = IF @ = "outgoing_ring" THEN "active" ELSE @]

\* setRemoteDescription, the candidates that came early, peerAnsweredOutgoing;
\* a connection that has its answer rejects another one, which ends the session.
Answered(q) ==
  IF q.remote THEN hangupCall(q, "system")
  ELSE [q EXCEPT !.remote = TRUE, !.ice = {},
                 !.phase = IF @ = "outgoing_ring" THEN "active" ELSE @]

\* Mutant: an answer is taken without comparing its call.
M_RemoteAnswer(d) ==
  LET q == client[d]
      heeded == q.peer = Head(callInbox[d]).from /\ q.pc # NoCall /\ q.role = "caller"
  IN
  /\ Arrives(d, "answer") /\ Taken(d)
  /\ Commit(d, IF heeded THEN Answered(q) ELSE q, starts, sent)
  /\ UNCHANGED <<online, callsMade, accepted, deaf, callActs, callFaults>>

RemoteAnswer(d) ==
  LET q == client[d]
      heeded == Concerns(d, Head(callInbox[d])) /\ q.pc # NoCall /\ q.role = "caller"
  IN
  /\ Arrives(d, "answer") /\ Taken(d)
  /\ Commit(d, IF heeded THEN Answered(q) ELSE q, starts, sent)
  /\ UNCHANGED <<online, callsMade, accepted, deaf, callActs, callFaults>>

\* A candidate waits for the peer connection and its remote description.
RemoteCandidate(d) ==
  LET q == client[d]
      m == Head(callInbox[d])
      waits == Concerns(d, m) /\ (q.pc = NoCall \/ ~q.remote)
  IN
  /\ Arrives(d, "candidate") /\ Taken(d)
  /\ client' = IF waits THEN [client EXCEPT ![d].ice = @ \cup {m.call}] ELSE client
  /\ UNCHANGED <<starts, sent, online, callsMade, callTold, accepted, deaf, callActs, callFaults>>

-----------------------------------------------------------------------------
(* The service and the connections.                                        *)

\* The acknowledgement matters to a hang-up, and to an offer or answer refused.
Settled(r, state) == CallPost((sent \ {r}) \cup
  IF r.hears /\ (r.ev = "hangup" \/ state = "refused") THEN {[r EXCEPT !.state = state]} ELSE {})

\* The handlers emit to the room of the peer on their own replica.  Those of one
\* socket overtake each other: their checks are awaited.
Relay(r) ==
  /\ r.state = "sent"
  /\ callInbox' = [e \in Devices |->
       IF UserOf[e] = r.to /\ online[e] = r.via
       THEN Append(callInbox[e], [ev |-> r.ev, from |-> UserOf[r.from], call |-> r.call])
       ELSE callInbox[e]]
  /\ Settled(r, "ok")
  /\ UNCHANGED <<client, starts, online, callsMade, accepted, deaf, callActs, callFaults>>

webrtcOffer(r) == r.ev = "offer" /\ Relay(r)
webrtcAnswer(r) == r.ev = "answer" /\ Relay(r)
webrtcCandidate(r) == r.ev = "candidate" /\ Relay(r)
webrtcHangup(r) == r.ev = "hangup" /\ Relay(r)

\* The rate limit, the check of the peer or the database says no.
Refuse(r) ==
  /\ r.state = "sent" /\ CallFault(r.from)
  /\ Settled(r, "refused")
  /\ UNCHANGED <<client, starts, callInbox, online, callsMade, accepted, deaf, callActs>>

\* A connection goes with what is on its way to the device; requests the
\* service has may still be relayed, but nobody hears of them.
Disconnect(d) ==
  /\ online[d] # "none" /\ CallFault(d)
  /\ online' = [online EXCEPT ![d] = "none"]
  /\ callInbox' = [callInbox EXCEPT ![d] = <<>>]
  /\ sent' = {IF r.from = d THEN [r EXCEPT !.hears = FALSE] ELSE r :
                r \in {q \in sent : q.from = d => q.state = "sent"}}
  /\ deaf' = IF \E r \in sent : r.from = d /\ r.ev = "hangup" THEN deaf \cup {d} ELSE deaf
  /\ UNCHANGED <<client, starts, callsMade, callTold, accepted, callActs>>

Reconnect(d) ==
  /\ online[d] = "none"
  /\ \E p \in Replicas : online' = [online EXCEPT ![d] = p]
  /\ UNCHANGED <<client, starts, sent, callInbox, callsMade, callTold, accepted, deaf, callActs, callFaults>>

Hears(d) == incomingCallRinging(d) \/ RemoteHangup(d) \/ RemoteAnswer(d) \/ RemoteCandidate(d)
CallNext ==
  \/ \E r \in sent :
       \/ webrtcOffer(r) \/ webrtcAnswer(r) \/ webrtcCandidate(r) \/ webrtcHangup(r)
       \/ Refuse(r) \/ SignalRefused(r) \/ HangupSettled(r)
  \/ \E s \in starts : GotMedia(s) \/ Described(s) \/ NegotiationFails(s)
  \/ \E d \in Devices :
       \/ Hears(d) \/ answerCall(d) \/ requestLocalEndCall(d) \/ Disconnect(d) \/ Reconnect(d)
       \/ clearCallSessionEndReason(d) \/ \E track \in {"mic", "camera"} : Toggle(d, track)
       \/ \E u \in Users : startOutgoingCall(d, u)
       \/ \E u \in Users \cup {Nobody} : OpenThread(d, u)

CallSpec == CallInit /\ [][CallNext]_callVars

-----------------------------------------------------------------------------

\* Nobody is in a call that was not answered: on this device, or on one of the
\* peer to which this device's own offer went (answerCall, peerAnsweredOutgoing
\* behind the checks of callId, peer and role, with answers of earlier calls late).
ActiveIsAgreed ==
  \A d \in Devices : client[d].phase = "active" =>
    \E e \in Devices : /\ <<e, client[d].call>> \in accepted
                       /\ e = d \/ UserOf[e] = client[d].peer

\* A device without a session has released its connection and hardware, and a
\* connection serves the session it was made for, unless a ring replaced that
\* session ("Owns one RTCPeerConnection for the current Redux call session").
OneConnection ==
  \A d \in Devices : LET q == client[d] IN
    q.pc # NoCall => q.phase # "idle" /\ (q.pc = q.call \/ q.sdp)

\* ICE candidates that come before the peer connection or its remote
\* description are not forgotten: once it has one, none of its call waits.
EarlyCandidatesApplied ==
  \A d \in Devices : client[d].pc # NoCall /\ client[d].remote => client[d].pc \notin client[d].ice

\* Who has hung up leaves the call: the request is open still, or was open when
\* the connection was lost, or the session has ended, however the request went.
HangUpEnds ==
  \A d \in Devices : client[d].phase # "idle" /\ <<d, client[d].call>> \in callTold =>
    \/ d \in deaf
    \/ \E r \in sent : /\ r.from = d /\ r.ev = "hangup"
                       /\ r.call = client[d].call /\ r.hears

\* A session that ends as ended by the peer was hung up by the peer: a late
\* hang-up of an earlier call does not end the next one.
RemoteEndIsMeant ==
  [][\A d \in Devices :
       client[d].phase # "idle" /\ client'[d].end = "remote" /\ client[d].end # "remote" =>
         \E e \in Devices : UserOf[e] = client[d].peer /\ <<e, client[d].call>> \in callTold]_callVars
=============================================================================
