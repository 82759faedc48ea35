----------------------------- MODULE MessageText -----------------------------
(***************************************************************************)
(* What one browser can read of a conversation.  A message is encrypted    *)
(* with a key of its own, wrapped for every device that may read it; its   *)
(* attachment is named only inside.  The text comes from the typing (kept  *)
(* in the store, on the optimistic row and in IndexedDB) or from the       *)
(* decryption of the row, which an effect of the home page starts again    *)
(* whenever the rows or the id of the device change.                       *)
(*                                                                         *)
(* A row is a message that is stored; the order of the rows is left out.   *)
(***************************************************************************)
EXTENDS Integers

CONSTANTS
  Typed,        \* messages the user types in this browser
  Echoes,       \* messages the user sends from another device
  Theirs,       \* messages of the peer
  Attached,     \* those with an attachment
  Captioned,    \* those with a text
  NoMessage,
  MaxLoads      \* bound: page loads

ASSUME TextAssumption ==
  /\ NoMessage \notin Typed \cup Echoes \cup Theirs
  /\ Captioned \cup Attached = Typed \cup Echoes \cup Theirs
  /\ MaxLoads \in Nat

VARIABLES
  stored, wrapped,  \* server: the messages, and those with a key for this device
  device,         \* IndexedDB: the id and the key of the device; on the server
  disk,           \* IndexedDB: whose text is kept for a message
  thread,         \* the page: the store and what feeds it
  decrypt,        \* the run of the effect
  loads

textVars == <<stored, wrapped, device, disk, thread, decrypt, loads>>

AllMessages == Typed \cup Echoes \cup Theirs
Mine == Typed \cup Echoes
KeptTexts == [AllMessages -> Typed \cup {NoMessage}]
NoTexts == [m \in AllMessages |-> NoMessage]

\* rows, slots (those with an entry for this device) and keys (with a mediaKey)
\* of messagesById; own: senderPlaintextByMessageId, as the message the text was
\* typed for; body: decryptedBodyByMessageId; listed: crypto.deviceId, by number;
\* typing: the send under way, shown by an optimistic row, deaf once its
\* connection is gone; page and pageSlots: an answer on its way.
FreshThread(texts, id) ==
  [place |-> "gate", listed |-> id, rows |-> {}, slots |-> {}, keys |-> {}, own |-> texts,
   body |-> [m \in AllMessages |-> "none"], typing |-> NoMessage, shown |-> FALSE, deaf |-> FALSE,
   asked |-> FALSE, page |-> {}, pageSlots |-> {}]

\* What the run of the effect has read: its targets, those of them with an entry
\* for the device as they were rendered, and whether IndexedDB knows the device.
Idle == [step |-> "idle", left |-> {}, slots |-> {}, id |-> FALSE]

TextTypeOK ==
  /\ wrapped \subseteq stored /\ stored \subseteq AllMessages /\ disk \in KeptTexts
  /\ device \in [held: {"none", "id", "key"}, step: {"idle", "register", "store"}, tries: Nat]
  /\ thread.place \in {"gate", "away", "here"} /\ thread.own \in KeptTexts
  /\ thread.rows \subseteq stored /\ thread.slots \cup thread.keys \subseteq thread.rows
  /\ thread.body \in [AllMessages -> {"none", "text", "noSlot", "noKey", "failed"}]
  /\ thread.typing \in Typed \cup {NoMessage}
  /\ decrypt.step \in {"idle", "key", "id", "body"} /\ decrypt.slots \subseteq decrypt.left

\* A browser that signs in for the first time, or one that has its key.
TextInit ==
  /\ \E old \in SUBSET (Echoes \cup Theirs), new \in BOOLEAN :
       /\ stored = old
       /\ wrapped = IF new THEN {} ELSE old
       /\ device = [held |-> IF new THEN "none" ELSE "key", step |-> "idle", tries |-> IF new THEN 0 ELSE 1]
       /\ thread = FreshThread(NoTexts, IF new THEN 0 ELSE 1)
  /\ disk = NoTexts /\ decrypt = Idle /\ loads = 0

-----------------------------------------------------------------------------
(* The effect of usePeerMessageDecryption.                                 *)

\* What it depends on.  An own row whose text is known is left out.
Signature ==
  <<thread.place, thread.rows, thread.typing, thread.shown, thread.listed,
    {m \in thread.slots : m \in Theirs \/ thread.own[m] = NoMessage}>>

M_Targets == {m \in thread.rows : thread.body[m] = "none" /\ (m \in Theirs \/ thread.own[m] = NoMessage)}
Targets ==
  {m \in thread.rows : /\ thread.body[m] \in {"none", "noSlot"}
                       /\ m \in Theirs \/ thread.own[m] = NoMessage}

Run == IF Targets = {} THEN Idle
       ELSE [Idle EXCEPT !.step = "key", !.left = Targets, !.slots = Targets \cap thread.slots]

\* A run that is replaced writes nothing any more.
Effect ==
  decrypt' = IF thread'.place # "here" THEN Idle ELSE IF Signature' = Signature THEN decrypt ELSE Run'

Body(ms, what) == thread' = [thread EXCEPT !.body = [m \in AllMessages |-> IF m \in ms THEN what ELSE @[m]]]

\* loadMessagingEcdhPrivateKey: without a key every target fails, for the session.
LoadKey ==
  /\ decrypt.step = "key"
  /\ IF device.held = "key"
     THEN decrypt' = [decrypt EXCEPT !.step = "id"] /\ UNCHANGED thread
     ELSE decrypt' = Idle /\ Body(decrypt.left, "noKey")
  /\ UNCHANGED <<stored, wrapped, device, disk, loads>>

LoadDeviceId ==
  /\ decrypt.step = "id"
  /\ decrypt' = [decrypt EXCEPT !.step = "body", !.id = device.held # "none"]
  /\ UNCHANGED <<stored, wrapped, device, disk, thread, loads>>

\* decryptHybridMessageToUtf8: an entry of another key, or a damaged body, throws.
Outcomes(m) == IF ~decrypt.id \/ m \notin decrypt.slots THEN {"noSlot"} ELSE {"text", "failed"}

\* The targets are decrypted one after the other.
Decrypt(m) ==
  /\ decrypt.step = "body" /\ m \in decrypt.left
  /\ \E what \in Outcomes(m) : Body({m}, what)
  /\ decrypt' = IF decrypt.left = {m} THEN Idle
                ELSE [decrypt EXCEPT !.left = @ \ {m}, !.slots = @ \ {m}]
  /\ UNCHANGED <<stored, wrapped, device, disk, loads>>

-----------------------------------------------------------------------------
(* The device: ensureUserKeypairReadyForMessaging, at the gate of the page  *)
(* and again when the tab is shown or something is sent.                     *)

Past(place) == IF place = "gate" THEN "away" ELSE place

\* The new id is in the store before the service or IndexedDB has it.
EnsureStarts ==
  /\ device.step = "idle" /\ device.held = "none" /\ device.tries < MaxLoads + 1
  /\ device' = [device EXCEPT !.step = "register", !.tries = @ + 1]
  /\ thread' = [thread EXCEPT !.listed = device.tries + 1]
  /\ Effect /\ UNCHANGED <<stored, wrapped, disk, loads>>

\* The id is written before the key.
Registered ==
  /\ device.step = "register"
  /\ device' = [device EXCEPT !.step = "store", !.held = "id"]
  /\ UNCHANGED <<stored, wrapped, disk, thread, decrypt, loads>>

KeyStored ==
  /\ device.step = "store"
  /\ device' = [device EXCEPT !.step = "idle", !.held = "key"]
  /\ thread' = [thread EXCEPT !.place = Past(@)]
  /\ Effect /\ UNCHANGED <<stored, wrapped, disk, loads>>

RegisterFails ==
  /\ device.step = "register"
  /\ device' = [device EXCEPT !.step = "idle"]
  /\ thread' = [thread EXCEPT !.place = Past(@)]
  /\ Effect /\ UNCHANGED <<stored, wrapped, disk, loads>>

\* The gate opens whether the key is there, or is missing and cannot be made
\* (the directory does not answer, or lists an id that has lost its key).
GateOpens ==
  /\ thread.place = "gate" /\ device.step = "idle"
  /\ thread' = [thread EXCEPT !.place = "away"]
  /\ UNCHANGED <<stored, wrapped, device, disk, decrypt, loads>>

\* A trusted device adds entries for this one.
WrapForDevice(m) ==
  /\ device.held # "none" /\ m \in stored \ wrapped
  /\ wrapped' = wrapped \cup {m}
  /\ UNCHANGED <<stored, device, disk, thread, decrypt, loads>>

-----------------------------------------------------------------------------
(* The thread.                                                             *)

OpenThread ==
  /\ thread.place = "away"
  /\ thread' = [thread EXCEPT !.place = "here"]
  /\ Effect /\ UNCHANGED <<stored, wrapped, device, disk, loads>>

LeaveThread ==
  /\ thread.place = "here"
  /\ thread' = [thread EXCEPT !.place = "away", !.asked = FALSE, !.page = {}, !.pageSlots = {}]
  /\ Effect /\ UNCHANGED <<stored, wrapped, device, disk, loads>>

\* A fetch, also one that takes the place of another.
FetchThread ==
  /\ thread.place = "here"
  /\ thread' = [thread EXCEPT !.asked = TRUE, !.page = stored, !.pageSlots = wrapped]
  /\ UNCHANGED <<stored, wrapped, device, disk, decrypt, loads>>

\* hydrateMessagesFromFetch: what is known of a row that is not in the page goes,
\* its typed text with it; a row keeps the key of its attachment.
Hydrate ==
  /\ thread.asked
  /\ LET gone == thread.rows \ thread.page IN
     thread' = [thread EXCEPT
       !.rows = thread.page, !.slots = thread.pageSlots, !.keys = @ \cap thread.page,
       !.own = [m \in AllMessages |-> IF m \in gone THEN NoMessage ELSE @[m]],
       !.body = [m \in AllMessages |-> IF m \in gone THEN "none" ELSE @[m]],
       !.shown = FALSE, !.asked = FALSE, !.page = {}, !.pageSlots = {}]
  /\ Effect /\ UNCHANGED <<stored, wrapped, device, disk, loads>>

\* The stored message takes the text and the attachment key of the optimistic row.
Take(t, m) ==
  [t EXCEPT !.keys = IF t.shown /\ t.typing \in Attached THEN @ \cup {m} ELSE @ \ {m},
            !.own[m] = IF t.shown /\ t.typing \in Captioned THEN t.typing ELSE @]
Row(t, m) == [t EXCEPT !.rows = @ \cup {m}, !.slots = IF m \in wrapped' THEN @ \cup {m} ELSE @ \ {m}]

\* senderPlaintextPersistListener; the write may fail or be cut off.
Persist(m) ==
  disk' \in {disk, IF thread'.own[m] = NoMessage THEN disk ELSE [disk EXCEPT ![m] = thread'.own[m]]}

\* appendIncomingMessageIfNew: a message of the user's own takes the optimistic
\* row, whichever device it was typed on.
Incoming(m) ==
  /\ thread' = IF m \in thread.rows THEN thread
               ELSE IF m \in Mine /\ thread.shown THEN [Row(Take(thread, m), m) EXCEPT !.shown = FALSE]
               ELSE Row(thread, m)
  /\ Persist(m)

\* Another device or the peer sends, with an entry for this device if it has seen
\* it listed; the page is told, or learns of it from a fetch.
SendElsewhere(m) ==
  /\ m \notin stored /\ stored' = stored \cup {m}
  /\ wrapped' \in {wrapped} \cup IF device.held # "none" THEN {wrapped \cup {m}} ELSE {}
  /\ \/ thread.place # "gate" /\ Incoming(m)
     \/ UNCHANGED <<thread, disk>>
  /\ Effect /\ UNCHANGED <<device, loads>>

\* useSendMessage: a send has made sure of the key.
TypeMessage(m) ==
  /\ thread.place = "here" /\ device.held = "key"
  /\ m \notin stored /\ thread.typing = NoMessage
  /\ thread' = [thread EXCEPT !.typing = m, !.shown = TRUE]
  /\ Effect /\ UNCHANGED <<stored, wrapped, device, disk, loads>>

StoreTyped ==
  /\ thread.typing # NoMessage /\ thread.typing \notin stored
  /\ stored' = stored \cup {thread.typing} /\ wrapped' = wrapped \cup {thread.typing}
  /\ UNCHANGED <<device, disk, thread, decrypt, loads>>

Typing == thread.typing # NoMessage /\ thread.typing \in stored
Finished(t) == [t EXCEPT !.typing = NoMessage, !.shown = FALSE, !.deaf = FALSE]

\* replaceOptimisticMessage.
Acknowledged ==
  /\ Typing /\ ~thread.deaf /\ UNCHANGED <<stored, wrapped, device, loads>>
  /\ thread' = Finished(Row(Take(thread, thread.typing), thread.typing))
  /\ Persist(thread.typing) /\ Effect

\* The connection is lost: the message comes as message:new, if it comes.
ConnectionLost ==
  /\ thread.typing # NoMessage /\ ~thread.deaf
  /\ thread' = [thread EXCEPT !.deaf = TRUE]
  /\ UNCHANGED <<stored, wrapped, device, disk, decrypt, loads>>

EchoTyped ==
  /\ Typing /\ thread.deaf /\ UNCHANGED <<stored, wrapped, device, loads>>
  /\ Incoming(thread.typing) /\ Effect

SendFailed ==
  /\ thread.typing # NoMessage /\ ~thread.deaf
  /\ thread' = Finished(thread)
  /\ Effect /\ UNCHANGED <<stored, wrapped, device, disk, loads>>

\* The first message of a conversation has no optimistic row: its text is recorded
\* with the answer, which opens the conversation.
FirstMessage(m) ==
  /\ thread.place = "away" /\ device.held = "key" /\ stored = {}
  /\ stored' = {m} /\ wrapped' = {m}
  /\ thread' = [thread EXCEPT !.place = "here", !.own[m] = IF m \in Captioned THEN m ELSE @]
  /\ Persist(m)
  /\ Effect /\ UNCHANGED <<device, loads>>

\* The page is loaded again: bootstrapSessionIfNeeded reads the id of the device
\* and the texts before the gate; what the store had is gone.
Reload ==
  /\ loads < MaxLoads /\ loads' = loads + 1
  /\ \E texts \in {disk, NoTexts} :
       thread' = FreshThread(texts, IF device.held = "none" THEN 0 ELSE device.tries)
  /\ device' = [device EXCEPT !.step = "idle"]
  /\ decrypt' = Idle
  /\ UNCHANGED <<stored, wrapped, disk>>

TextNext ==
  \/ LoadKey \/ LoadDeviceId \/ \E m \in AllMessages : Decrypt(m) \/ WrapForDevice(m)
  \/ EnsureStarts \/ Registered \/ KeyStored \/ RegisterFails \/ GateOpens
  \/ OpenThread \/ LeaveThread \/ FetchThread \/ Hydrate
  \/ \E m \in Echoes \cup Theirs : SendElsewhere(m)
  \/ \E m \in Typed : TypeMessage(m) \/ FirstMessage(m)
  \/ StoreTyped \/ Acknowledged \/ ConnectionLost \/ EchoTyped \/ SendFailed \/ Reload

TextSpec == TextInit /\ [][TextNext]_textVars

-----------------------------------------------------------------------------
(* Properties.                                                             *)

\* The rows this device has been given what it needs for, outside of a run.
\* A row that failed for want of the key, or of a sound body, stays as it is.
Readable ==
  {m \in thread.rows : /\ thread.place = "here" /\ decrypt.step = "idle" /\ device.held = "key"
                       /\ m \in thread.slots /\ thread.body[m] \notin {"noKey", "failed"}}

\* In whatever order the rows, the entries for this device, its id and the texts
\* of the user's own messages arrive, and whatever run they cut off: at rest no
\* row that this device could read waits for a decryption that nothing starts.
RestIsReadable ==
  \A m \in Readable : thread.body[m] = "text" \/ (m \in Mine /\ thread.own[m] # NoMessage)

\* "the sender's client keeps the real key" (messagingSlice.ts, on mediaKey): the
\* attachment of a message the user can read is shown as well.
AttachmentIsShown ==
  \A m \in Readable \cap Attached : m \in thread.keys \/ thread.body[m] = "text"
=============================================================================
