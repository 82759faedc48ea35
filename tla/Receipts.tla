------------------------------ MODULE Receipts ------------------------------
(***************************************************************************)
(* Delivery and read receipts of one direct thread: the handlers of        *)
(* message:delivered, message:read and conversation:read on the server,    *)
(* each a sequence of unsynchronised MongoDB operations followed by one    *)
(* publish per participant, and the receipt state of the clients, which is *)
(* fed by those events and by GET .../message-receipts.                    *)
(* Messages are numbered in thread order.  A time of 0 means "not set".    *)
(***************************************************************************)
EXTENDS Naturals

CONSTANTS
    Users,
    Participants,   \* the two users of the thread
    Devices,        \* web clients, each with one Socket.IO connection
    Watched,        \* the devices whose store is followed; the others only send
    Owner,          \* [Devices -> Users]
    Messages,       \* the stored messages of the thread
    Author,         \* [Messages -> Participants]
    Calls,          \* receipt events emitted: [dev, kind, msg] records
    MaxTime         \* bound on the clock

Kinds == {"delivered", "read", "conversation"}

ASSUME ReceiptsAssumption ==
    /\ Participants \subseteq Users
    /\ Owner \in [Devices -> Users]
    /\ Watched \subseteq Devices
    /\ Messages \subseteq Nat
    /\ Author \in [Messages -> Participants]
    /\ Calls \subseteq [dev : Devices, kind : Kinds, msg : Messages]
    /\ MaxTime \in Nat

VARIABLES
    now,        \* the clock the replicas read
    pc,         \* progress of a handler
    at,         \* the time it read first
    changed,    \* did setReceiptSeen change the message?
    left,       \* participants it has still to publish to
    reply,      \* its acknowledgement
    receipts,   \* messages.receiptsByUserId
    cursor,     \* conversation_reads: [msg, at] of a user, or NoCursor
    online,     \* devices whose socket is in its user room
    inflight,   \* receipt events on their way to a device
    known,      \* messagesById of a device
    shown,      \* receiptsByMessageId of a device
    fetched,    \* message-receipts responses on their way to a device
    told        \* history: receipts sent to a device that knew the message

callVars == <<now, pc, at, changed, left, reply>>
storeVars == <<receipts, cursor>>
clientVars == <<known, shown, fetched>>
vars == <<callVars, storeVars, online, inflight, clientVars, told>>

Time == 0..MaxTime
Entry == [delivered : Time, seen : Time]
Table == [Messages -> [Users -> Entry]]
Unset == [delivered |-> 0, seen |-> 0]
EmptyTable == [m \in Messages |-> [u \in Users |-> Unset]]
NoCursor == [msg |-> 0, at |-> 0]
Event == [field : {"delivered", "seen"}, msg : Messages, user : Users, at : Time]

Actor(c) == Owner[c.dev]
Field(c) == IF c.kind = "delivered" THEN "delivered" ELSE "seen"

TypeOK ==
    /\ now \in Time
    /\ pc \in [Calls -> {"idle", "loading", "loaded", "stamped", "publishing", "done"}]
    /\ at \in [Calls -> Time]
    /\ changed \in [Calls -> BOOLEAN]
    /\ left \in [Calls -> SUBSET Participants]
    /\ reply \in [Calls -> {"none", "ok", "error"}]
    /\ receipts \in Table
    /\ cursor \in [Users -> [msg : Messages \cup {0}, at : Time]]
    /\ online \in SUBSET Watched
    /\ inflight \in [Watched -> SUBSET Event]
    /\ known \in [Watched -> SUBSET Messages]
    /\ shown \in [Watched -> Table]
    /\ fetched \in [Watched -> SUBSET Table]
    /\ told \in [Watched -> SUBSET (Messages \X Users \X {"delivered", "seen"})]

Init ==
    /\ now = 0
    /\ pc = [c \in Calls |-> "idle"]
    /\ at = [c \in Calls |-> 0]
    /\ changed = [c \in Calls |-> FALSE]
    /\ left = [c \in Calls |-> {}]
    /\ reply = [c \in Calls |-> "none"]
    /\ receipts = EmptyTable
    /\ cursor = [u \in Users |-> NoCursor]
    /\ online = Watched
    /\ inflight = [d \in Watched |-> {}]
    /\ known = [d \in Watched |-> {}]
    /\ shown = [d \in Watched |-> EmptyTable]
    /\ fetched = [d \in Watched |-> {}]
    /\ told = [d \in Watched |-> {}]

-----------------------------------------------------------------------------
(* The handlers.                                                           *)

Finish(c, r) ==
    /\ pc' = [pc EXCEPT ![c] = "done"]
    /\ reply' = [reply EXCEPT ![c] = r]

\* assertParticipant, and assertRecipientNotSender on the message found.
Allowed(c) == Actor(c) \in Participants /\ Author[c.msg] # Actor(c)

\* const at = new Date(); the checks read only what never changes.
Receive(c) ==
    /\ pc[c] = "idle" /\ Allowed(c)
    /\ now' \in {now, now + 1} \cap (1..MaxTime)
    /\ at' = [at EXCEPT ![c] = now']
    /\ pc' = [pc EXCEPT ![c] = IF c.kind = "conversation" THEN "stamped" ELSE "loading"]
    /\ UNCHANGED <<changed, left, reply, storeVars, online, inflight, clientVars, told>>

Reject(c) ==
    /\ pc[c] = "idle" /\ ~Allowed(c)
    /\ Finish(c, "error")
    /\ UNCHANGED <<now, at, changed, left, storeVars, online, inflight, clientVars, told>>

\* setReceiptDelivered / setReceiptSeen, first the findOne ...
LoadReceipt(c) ==
    /\ pc[c] = "loading"
    /\ IF receipts[c.msg][Actor(c)][Field(c)] >= at[c]
       THEN IF c.kind = "delivered"
            THEN Finish(c, "ok")
            ELSE pc' = [pc EXCEPT ![c] = "stamped"] /\ UNCHANGED reply
       ELSE pc' = [pc EXCEPT ![c] = "loaded"] /\ UNCHANGED reply
    /\ UNCHANGED <<now, at, changed, left, storeVars, online, inflight, clientVars, told>>

\* ... then an unconditional $set.
Stamp(c) == [receipts EXCEPT ![c.msg][Actor(c)][Field(c)] = at[c]]

StoreReceipt(c) ==
    /\ pc[c] = "loaded"
    /\ receipts' = Stamp(c)
    /\ changed' = [changed EXCEPT ![c] = TRUE]
    /\ IF c.kind = "delivered"
       THEN /\ pc' = [pc EXCEPT ![c] = "publishing"]
            /\ left' = [left EXCEPT ![c] = Participants]
       ELSE /\ pc' = [pc EXCEPT ![c] = "stamped"]
            /\ UNCHANGED left
    /\ UNCHANGED <<now, at, reply, cursor, online, inflight, clientVars, told>>

\* upsertConversationRead sets the cursor whatever it was.  updatedAt is the
\* time of the write, so a call counts as a change unless another one wrote the
\* same values in the same millisecond.
M_keepCursor(c) == cursor
MoveCursor(c) == [cursor EXCEPT ![Actor(c)] = [msg |-> c.msg, at |-> at[c]]]

upsertConversationRead(c) ==
    /\ pc[c] = "stamped"
    /\ cursor' = MoveCursor(c)
    /\ \/ /\ pc' = [pc EXCEPT ![c] = "publishing"]
          /\ left' = [left EXCEPT ![c] = Participants]
          /\ UNCHANGED reply
       \/ /\ cursor' = cursor /\ ~changed[c]
          /\ Finish(c, "ok")
          /\ UNCHANGED left
    /\ UNCHANGED <<now, at, changed, receipts, online, inflight, clientVars, told>>

\* publishReceiptToParticipants, one publishMessage after the other; the broker
\* and the consumers of all replicas bring the event to the user's sockets, with
\* no order between the events of different handlers.
EventOf(c) == [field |-> Field(c), msg |-> c.msg, user |-> Actor(c), at |-> at[c]]
Hearers(c, u) == {d \in online : Owner[d] = u} \ {c.dev}

Publish(c, u) ==
    /\ pc[c] = "publishing" /\ u \in left[c]
    /\ left' = [left EXCEPT ![c] = @ \ {u}]
    /\ inflight' = [d \in Watched |-> IF d \in Hearers(c, u)
                                      THEN inflight[d] \cup {EventOf(c)} ELSE inflight[d]]
    /\ told' = [d \in Watched |-> IF d \in Hearers(c, u) /\ c.msg \in known[d]
                                  THEN told[d] \cup {<<c.msg, Actor(c), Field(c)>>} ELSE told[d]]
    /\ IF left[c] = {u} THEN Finish(c, "ok") ELSE UNCHANGED <<pc, reply>>
    /\ UNCHANGED <<now, at, changed, storeVars, online, clientVars>>

\* A limit, a failing store or a closed channel: an error acknowledgement at any
\* point, with what was stored and published so far left in place.
Fail(c) ==
    /\ pc[c] \notin {"idle", "done"}
    /\ Finish(c, "error")
    /\ UNCHANGED <<now, at, changed, left, storeVars, online, inflight, clientVars, told>>

-----------------------------------------------------------------------------
(* The clients.                                                            *)

\* { ...prevEntry, [field]: at }
M_replaceEntry(entry, e) == [Unset EXCEPT ![e.field] = e.at]
WithEvent(entry, e) == [entry EXCEPT ![e.field] = e.at]

\* A receipt for a message the store does not hold is dropped.
mergeReceiptFanoutFromSocket(d, e) ==
    /\ e \in inflight[d]
    /\ inflight' = [inflight EXCEPT ![d] = @ \ {e}]
    /\ shown' = IF e.msg \in known[d]
                THEN [shown EXCEPT ![d][e.msg][e.user] = WithEvent(@, e)]
                ELSE shown
    /\ UNCHANGED <<callVars, storeVars, online, known, fetched, told>>

\* One request is under way at a time (SWR dedupes them by key).
FetchReceipts(d) ==
    /\ fetched[d] = {}
    /\ fetched' = [fetched EXCEPT ![d] = {receipts}]
    /\ UNCHANGED <<callVars, storeVars, online, inflight, known, shown, told>>

\* { ...a[k], ...b[k] }: a field that is set in the response wins.
M_takeResponse(a, b) == b
mergeReceiptSummary(a, b) ==
    [delivered |-> IF b.delivered # 0 THEN b.delivered ELSE a.delivered,
     seen |-> IF b.seen # 0 THEN b.seen ELSE a.seen]

mergeReceiptSummariesFromFetch(d, table) ==
    /\ fetched' = [fetched EXCEPT ![d] = @ \ {table}]
    /\ shown' = [shown EXCEPT ![d] =
                    [m \in Messages |->
                        [u \in Users |-> mergeReceiptSummary(@[m][u], table[m][u])]]]
    /\ UNCHANGED <<callVars, storeVars, online, inflight, known, told>>

\* A message enters the store of a device (module MessagingStore) ...
Learn(d, m) ==
    /\ m \notin known[d]
    /\ known' = [known EXCEPT ![d] = @ \cup {m}]
    /\ UNCHANGED <<callVars, storeVars, online, inflight, shown, fetched, told>>

\* ... and leaves it, with its receipts, when a fetched page no longer has it.
Forget(d, m) ==
    /\ m \in known[d]
    /\ known' = [known EXCEPT ![d] = @ \ {m}]
    /\ shown' = [shown EXCEPT ![d][m] = [u \in Users |-> Unset]]
    /\ told' = [told EXCEPT ![d] = {t \in @ : t[1] # m}]
    /\ UNCHANGED <<callVars, storeVars, online, inflight, fetched>>

\* Events of a connection that is gone are gone with it.
Disconnect(d) ==
    /\ d \in online
    /\ online' = online \ {d}
    /\ inflight' = [inflight EXCEPT ![d] = {}]
    /\ told' = [told EXCEPT ![d] = {t \in @ : shown[d][t[1]][t[2]][t[3]] # 0}]
    /\ UNCHANGED <<callVars, storeVars, clientVars>>

Reconnect(d) ==
    /\ d \notin online
    /\ online' = online \cup {d}
    /\ UNCHANGED <<callVars, storeVars, inflight, clientVars, told>>

Next ==
    \/ \E c \in Calls : \/ Receive(c) \/ Reject(c) \/ LoadReceipt(c) \/ StoreReceipt(c)
                        \/ upsertConversationRead(c) \/ Fail(c)
                        \/ \E u \in Participants : Publish(c, u)
    \/ \E d \in Watched : \/ FetchReceipts(d)
                          \/ \E table \in fetched[d] : mergeReceiptSummariesFromFetch(d, table)
                          \/ Disconnect(d) \/ Reconnect(d)
                          \/ \E m \in Messages : Learn(d, m) \/ Forget(d, m)
                          \/ \E e \in inflight[d] : mergeReceiptFanoutFromSocket(d, e)

Spec == Init /\ [][Next]_vars

-----------------------------------------------------------------------------
(* Properties.                                                             *)

\* Receipts and read positions belong to the recipients of a message: its author
\* and strangers never mark it, whatever they send.
OnlyRecipientsMark ==
    /\ \A m \in Messages, u \in Users :
          receipts[m][u] # Unset => u \in Participants /\ u # Author[m]
    /\ \A u \in Users :
          cursor[u] # NoCursor => u \in Participants /\ u # Author[cursor[u].msg]

\* An ok acknowledgement means the receipt is stored, with every concurrent
\* handler and whichever of its own steps were skipped as "unchanged".
OkMeansStored ==
    \A c \in Calls : reply[c] = "ok" =>
        /\ c.kind # "conversation" => receipts[c.msg][Actor(c)][Field(c)] # 0
        /\ c.kind # "delivered" => cursor[Actor(c)] # NoCursor

\* No client shows a tick the server does not hold: a reload can only add ticks,
\* except that conversation:read shows as seen what only the read cursor records.
ShownIsStored ==
    \A d \in Watched, m \in Messages, u \in Users :
        /\ shown[d][m][u].delivered # 0 => receipts[m][u].delivered # 0
        /\ shown[d][m][u].seen # 0 => receipts[m][u].seen # 0 \/ cursor[u] # NoCursor

\* A receipt sent to a device that knew the message is shown there or still on
\* its way, even if a response read earlier, or another receipt, comes later.
ToldIsShown ==
    \A d \in Watched : \A t \in told[d] :
        \/ shown[d][t[1]][t[2]][t[3]] # 0
        \/ \E e \in inflight[d] : <<e.msg, e.user, e.field>> = t

\* Ticks do not fall back (seen to delivered, delivered to sent) while the
\* message stays in the store of the device.
Level(entry) == IF entry.seen # 0 THEN 2 ELSE IF entry.delivered # 0 THEN 1 ELSE 0
TicksNeverFallBack ==
    [][\A d \in Watched, m \in Messages, u \in Users :
         m \in known[d] /\ m \in known'[d] => Level(shown'[d][m][u]) >= Level(shown[d][m][u])]_vars

\* The read cursor only advances in thread order (conversationReads/repo.ts).
ReadCursorAdvances == [][\A u \in Users : cursor'[u].msg >= cursor[u].msg]_vars
=============================================================================
