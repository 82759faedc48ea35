----------------------------- MODULE MC_Pipeline -----------------------------
(* Two replicas and two users.  The ordering instance has one connection per *)
(* user and two sends over a1; the fan-out instance has one send and a       *)
(* second device of the sender; the HTTP instance sends by POST /messages.   *)
EXTENDS MessagePipeline, TLC

CONSTANTS n1, n2, alice, bob, a1, a2, b1, r1, r2, none

MC_Nodes == {n1, n2}
MC_Users == {alice, bob}
MC_Two == {r1, r2}
MC_One == {r1}
MC_Owner == [s \in Sockets |-> IF s = b1 THEN bob ELSE alice]
MC_Author == [r \in Requests |-> alice]
MC_Peer == [r \in Requests |-> bob]
MC_Devices == {a1, b1}
MC_MoreDevices == {a1, a2, b1}
MC_Origin == [r \in Requests |-> a1]
MC_OriginHttp == [r \in Requests |-> none]
MC_Symmetry == Permutations(MC_Nodes) \cup Permutations(MC_Two)

\* One connection closes of itself, before any fault; a replica that goes closes its own.
Closed == {s \in Sockets : sock[s] = "closed"}
OneLeaves == node' = node /\ Closed' # Closed => Closed = {} /\ faults = 0
MC_Spec == Init /\ [][Next /\ OneLeaves]_vars

\* The replicas are alike: the sender's first connection is to n1.
MC_LiveSpec ==
    /\ Init /\ [][Next /\ host'[a1] # n2]_vars
    /\ \A r \in Requests : WF_vars(Handle(r))
    /\ \A n \in Nodes : WF_vars(Route(n)) /\ WF_vars(deliverMessageToSocketIo(n))
=============================================================================
