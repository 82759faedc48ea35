--------------------------- MODULE MessagingStore ---------------------------
(***************************************************************************)
(* One browser tab with one conversation open: the messaging slice of the  *)
(* Redux store, fed by the tab's own sends (useSendMessage), by message:new*)
(* events and by the SWR fetch of the thread.  An own send is shown under  *)
(* a client id until its server message arrives, by acknowledgement, by    *)
(* message:new or by a fetch, whichever is first.                          *)
(*                                                                         *)
(* The message that send k stores has id k, its optimistic row Client(k).  *)
(* Bodies are end-to-end encrypted: only the tab that typed a text has it. *)
(***************************************************************************)
EXTENDS Naturals, FiniteSets, SequencesExt

CONSTANTS
    Sends,      \* messages typed in this tab
    Elsewhere,  \* messages typed by the same user on another device
    Theirs,     \* messages of the peer
    None,
    MaxFaults   \* bound on reconnections and failed fetches

ASSUME StoreAssumption == MaxFaults \in Nat

\* The id that newOptimisticId gives the optimistic row of send k.
Client(k) == <<"client", k>>

\* A message is typed once, in one place; the server's ids never look like those
\* of the tab (client:...); and None is no thread.
ASSUME IdsAssumption ==
    /\ Sends \cap (Elsewhere \cup Theirs) = {}
    /\ \A k \in Sends : Client(k) \notin Sends \cup Elsewhere \cup Theirs
    /\ None \notin Seq(Sends \cup Elsewhere \cup Theirs)

VARIABLES
    thread,     \* server: the stored messages, oldest first
    send,       \* useSendMessage: new, waiting, deaf, acked, overtaken, ok, error
    sendPending,\* sendPendingByConversationId: the composer is disabled
    events,     \* message:new events on their way to the tab
    request,    \* SWR: idle, started, answered
    response,   \* what the server read for it
    data,       \* swr.data: the last answer SWR accepted
    cached,     \* data the effect of useConversation has not dispatched yet
    rows,       \* messageIdsByConversationId
    byId,       \* keys of messagesById
    waiting,    \* pendingOutgoingClientIdsByConversationId
    plain,      \* senderPlaintextByMessageId
    faults

serverVars == <<thread, events>>
swrVars == <<request, response, data, cached>>
storeVars == <<rows, byId, waiting, plain>>
vars == <<serverVars, send, sendPending, swrVars, storeVars, faults>>

Messages == Sends \cup Elsewhere \cup Theirs
Own == Sends \cup Elsewhere
Ids == Messages \cup {Client(k) : k \in Sends}

Init ==
    /\ thread = <<>> /\ events = {}
    /\ send = [k \in Sends |-> "new"]
    /\ sendPending = FALSE
    /\ request = "started" /\ response = <<>> /\ data = None /\ cached = {}
    /\ rows = <<>> /\ byId = {} /\ waiting = <<>>
    /\ plain = [m \in Messages |-> None]
    /\ faults = 0

Fault == faults < MaxFaults /\ faults' = faults + 1

-----------------------------------------------------------------------------
(* The server, the socket and SWR, as the tab sees them.                   *)

\* Another device or the peer sends: the tab is told, unless it is between two
\* connections; events of different replicas arrive in any order.
StoreOther(m) ==
    /\ m \notin Range(thread)
    /\ thread' = Append(thread, m)
    /\ \/ events' = events \cup {m} /\ UNCHANGED faults
       \/ Fault /\ UNCHANGED events
    /\ UNCHANGED <<send, sendPending, swrVars, storeVars>>

StoreSend(k) ==
    /\ send[k] \in {"waiting", "deaf"} /\ k \notin Range(thread)
    /\ thread' = Append(thread, k)
    /\ UNCHANGED <<events, send, sendPending, swrVars, storeVars, faults>>

\* The acknowledgement of an emitted send belongs to its connection: a new
\* connection never gets it, but the echo no longer skips it.
Reconnect(k) ==
    /\ Fault
    /\ send[k] = "waiting"
    /\ send' = [send EXCEPT ![k] = "deaf"]
    /\ UNCHANGED <<serverVars, sendPending, swrVars, storeVars>>

Echo(k) ==
    /\ send[k] = "deaf" /\ k \in Range(thread) /\ k \notin byId
    /\ events' = events \cup {k}
    /\ UNCHANGED <<thread, send, sendPending, swrVars, storeVars, faults>>

\* mutate(key): a new request; the answer to an earlier one is discarded.
M_noRevalidation == UNCHANGED <<request, response>>
mutate == request' = "started" /\ response' = <<>>

Answer ==
    /\ request = "started"
    /\ request' = "answered" /\ response' = thread
    /\ UNCHANGED <<serverVars, send, sendPending, data, cached, storeVars, faults>>

\* A failed request is retried; an answer that differs from the data SWR holds
\* replaces it, and the effect of useConversation is scheduled.
Resolve ==
    /\ request = "answered"
    /\ \/ Fault /\ request' = "started" /\ UNCHANGED <<data, cached>>
       \/ /\ request' = "idle" /\ data' = response /\ UNCHANGED faults
          /\ cached' = IF response = data THEN cached ELSE {response}
    /\ response' = <<>>
    /\ UNCHANGED <<serverVars, send, sendPending, storeVars>>

-----------------------------------------------------------------------------
(* The reducers and what dispatches them.                                  *)

\* The rows are replaced: optimistic ones go, and nothing waits any more.
hydrateMessagesFromFetch ==
    /\ cached # {}
    /\ \E page \in cached :
          /\ rows' = page
          /\ byId' = (byId \ Range(rows)) \cup Range(page)
          /\ plain' = [m \in Messages |-> IF m \in Range(rows) \ Range(page) THEN None ELSE plain[m]]
    /\ waiting' = <<>> /\ cached' = {}
    /\ UNCHANGED <<serverVars, send, sendPending, request, response, data, faults>>

\* useSendMessage, up to its await: the composer is enabled.
appendMessageFromSend(k) ==
    /\ send[k] = "new" /\ ~sendPending
    /\ send' = [send EXCEPT ![k] = "waiting"]
    /\ sendPending' = TRUE
    /\ rows' = Append(rows, Client(k)) /\ byId' = byId \cup {Client(k)}
    /\ waiting' = Append(waiting, Client(k))
    /\ UNCHANGED <<serverVars, swrVars, plain, faults>>

\* The queue from its first client id that is still in the store on.
Stripped ==
    LET kept == {i \in DOMAIN waiting : waiting[i] \in byId \cup Range(rows)}
    IN  IF kept = {} THEN <<>> ELSE SubSeq(waiting, Min(kept), Len(waiting))

\* The entries of s at the positions in ix, in their order: what a loop or a
\* filter over an array keeps.
Picked(s, ix) ==
    [n \in 1..Cardinality(ix) |-> s[CHOOSE i \in ix : Cardinality({j \in ix : j <= i}) = n]]

dedupeIdsStable(s) == Picked(s, {i \in DOMAIN s : \A j \in 1..(i - 1) : s[j] # s[i]})
Without(s, id) == Picked(s, {i \in DOMAIN s : s[i] # id})

Place(id, m) == dedupeIdsStable([i \in DOMAIN rows |-> IF rows[i] = id THEN m ELSE rows[i]])
Added(m) == IF m \in Range(rows) THEN rows ELSE Append(rows, m)
TextOf(id) == CHOOSE k \in Sends : Client(k) = id

\* A message of the user's own takes the place, and the text, of the optimistic
\* row that has waited longest, whichever device it was typed on.
M_neverPair(m) == FALSE
Pairs(m) == m \in Own /\ Stripped # <<>> /\ Head(Stripped) \in byId

appendIncomingMessageIfNew(m) ==
    IF m \in byId THEN UNCHANGED storeVars
    ELSE IF Pairs(m)
    THEN LET id == Head(Stripped) IN
         /\ byId' = (byId \ {id}) \cup {m}
         /\ rows' = IF id \in Range(rows) THEN Place(id, m) ELSE Added(m)
         /\ plain' = [plain EXCEPT ![m] = TextOf(id)]
         /\ waiting' = Tail(Stripped)
    ELSE /\ byId' = byId \cup {m}
         /\ rows' = Added(m)
         /\ waiting' = IF m \in Own THEN Stripped ELSE waiting
         /\ UNCHANGED plain

MessageNew(m) ==
    /\ m \in events
    /\ events' = events \ {m}
    /\ appendIncomingMessageIfNew(m)
    /\ mutate
    /\ send' = [k \in Sends |-> IF send[k] = "acked" THEN "overtaken" ELSE send[k]]
    /\ UNCHANGED <<thread, sendPending, data, cached, faults>>

Replaced(k) == IF Client(k) \in Range(rows) THEN Place(Client(k), k) ELSE Added(k)

\* The acknowledgement carries the message.
replaceOptimisticMessage(k) ==
    /\ send[k] = "waiting" /\ k \in Range(thread)
    /\ send' = [send EXCEPT ![k] = "acked"]
    /\ rows' = Replaced(k)
    /\ byId' = (byId \ {Client(k)}) \cup {k}
    /\ plain' = IF Client(k) \in byId THEN [plain EXCEPT ![k] = k] ELSE plain
    /\ waiting' = Without(waiting, Client(k))
    /\ mutate
    /\ UNCHANGED <<serverVars, sendPending, data, cached, faults>>

\* await mutate(...) returned: its request was answered, or was overtaken by a
\* later one and its answer, whenever it came, discarded.
Settle(k) ==
    /\ send[k] = "overtaken" \/ (send[k] = "acked" /\ request = "idle")
    /\ send' = [send EXCEPT ![k] = "ok"]
    /\ sendPending' = FALSE
    /\ UNCHANGED <<serverVars, swrVars, storeVars, faults>>

M_keepRow(k) == rows
Removed(k) == Without(rows, Client(k))

\* An error acknowledgement or the worker's timeout; the message may be stored.
removeOptimisticMessage(k) ==
    /\ send[k] = "waiting"
    /\ send' = [send EXCEPT ![k] = "error"]
    /\ sendPending' = FALSE
    /\ rows' = Removed(k)
    /\ byId' = byId \ {Client(k)}
    /\ waiting' = Without(waiting, Client(k))
    /\ UNCHANGED <<serverVars, swrVars, plain, faults>>

Next ==
    \/ \E m \in Elsewhere \cup Theirs : StoreOther(m)
    \/ \E m \in Messages : MessageNew(m)
    \/ \E k \in Sends : \/ appendMessageFromSend(k) \/ StoreSend(k) \/ Reconnect(k) \/ Echo(k)
                        \/ replaceOptimisticMessage(k) \/ Settle(k) \/ removeOptimisticMessage(k)
    \/ Answer \/ Resolve \/ hydrateMessagesFromFetch

\* A request is answered and its effect runs.
Spec == Init /\ [][Next]_vars
        /\ WF_vars(Answer) /\ WF_vars(Resolve) /\ WF_vars(hydrateMessagesFromFetch)

-----------------------------------------------------------------------------
(* Properties.                                                             *)

TypeOK ==
    /\ thread \in Seq(Messages) /\ events \subseteq Messages
    /\ send \in [Sends -> {"new", "waiting", "deaf", "acked", "overtaken", "ok", "error"}]
    /\ sendPending \in BOOLEAN
    /\ request \in {"idle", "started", "answered"}
    /\ response \in Seq(Messages) /\ data \in Seq(Messages) \cup {None} /\ cached \subseteq Seq(Messages)
    /\ rows \in Seq(Ids) /\ byId \subseteq Ids
    /\ waiting \in Seq({Client(k) : k \in Sends})
    /\ plain \in [Messages -> Sends \cup {None}]
    /\ faults \in 0..MaxFaults

\* A send is never shown twice, as an optimistic row and as the stored message.
OwnSendShownOnce == \A k \in Sends : ~(Client(k) \in byId /\ k \in byId)

\* A row that says "sending" stands for a send the tab still waits for.
NoPhantomSending ==
    \A k \in Sends : Client(k) \in Range(rows) \cup byId => send[k] \in {"waiting", "deaf"}

\* A message once shown is shown for good in the end: an answer read before it
\* was stored may take it off the screen only until the next one.
ShownStays == \A m \in Messages : m \in byId ~> [](m \in byId)

\* The text kept for a message is the text typed for it (messagingSlice.ts, on
\* senderPlaintextByMessageId).
PlaintextIsItsOwn == \A m \in Messages : plain[m] # None => plain[m] = m
=============================================================================
