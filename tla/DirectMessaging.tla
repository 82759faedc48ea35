--------------------------- MODULE DirectMessaging ---------------------------
(***************************************************************************)
(* What the messaging service promises the two users of a direct thread,   *)
(* with no broker, no replica and no failure in sight: a send is stored at *)
(* most once and then answered, and a connection that is open receives a   *)
(* stored message at most once, never on the socket that sent it.          *)
(* MessagePipeline implements this module (see its Promise).               *)
(***************************************************************************)
EXTENDS Sequences, Functions

CONSTANTS
    Requests,   \* the message:send / POST /messages calls of a behaviour
    Sockets,    \* Socket.IO connection ids; an id is never used twice
    Audience,   \* [Requests -> set of users who may see the message]
    Owner,      \* [Sockets -> the user who opened the connection]
    Source      \* [Requests -> the connection the request came from]

VARIABLES
    stored,     \* the requests whose message is in the messages collection
    answer,     \* what the caller of each request was told
    live,       \* the connections that are open
    inbox       \* the message:new events of each connection, oldest first

vars == <<stored, answer, live, inbox>>

Received(s) == Range(inbox[s])

Init ==
    /\ stored = {}
    /\ answer = [r \in Requests |-> "none"]
    /\ live = {}
    /\ inbox = [s \in Sockets |-> <<>>]

Store(r) ==
    /\ r \notin stored
    /\ stored' = stored \cup {r}
    /\ UNCHANGED <<answer, live, inbox>>

\* Only a stored message is confirmed; a caller is told one thing, once. An
\* error may be reported for a message that is stored.
Answer(r) ==
    /\ answer[r] = "none"
    /\ \/ /\ r \in stored
          /\ answer' = [answer EXCEPT ![r] = "ok"]
       \/ answer' = [answer EXCEPT ![r] = "error"]
    /\ UNCHANGED <<stored, live, inbox>>

\* One fan-out reaches some of the open connections of the audience.
Deliver(r, S) ==
    /\ r \in stored
    /\ \A s \in S : /\ s \in live
                    /\ Owner[s] \in Audience[r]
                    /\ s # Source[r]
                    /\ r \notin Received(s)
    /\ inbox' = [s \in Sockets |-> IF s \in S THEN Append(inbox[s], r) ELSE inbox[s]]
    /\ UNCHANGED <<stored, answer, live>>

Open(s) ==
    /\ inbox[s] = <<>>
    /\ live' = live \cup {s}
    /\ UNCHANGED <<stored, answer, inbox>>

Drop(S) ==
    /\ live' = live \ S
    /\ UNCHANGED <<stored, answer, inbox>>

Next ==
    \/ \E r \in Requests : Store(r) \/ Answer(r)
    \/ \E r \in Requests, S \in SUBSET Sockets : Deliver(r, S)
    \/ \E s \in Sockets : Open(s)
    \/ \E S \in SUBSET Sockets : Drop(S)

Spec == Init /\ [][Next]_vars
=============================================================================
