# Verification of the messaging system

TLA+ models of the messaging service (`src/apps/messaging-service`) and of the
web client's state machines (`src/apps/web-client`), TLC configurations that
check them on small instances, and theorems about them proved with TLAPS.
Every definition is translated from the source; `PROJECT.json` maps it to its
lines.

## 1. Inventory

| Component | State | Operations | Talks to |
| --- | --- | --- | --- |
| **Message send and fan-out** (`data/messages/sendMessage.ts`, `data/messaging/rabbitmq.ts`, `utils/realtime/socket.ts`, `index.ts`) | `messages` collection; the topic exchange and one durable queue per replica (`messaging.node.<id>`); the AMQP channel and the Socket.IO server of each replica; rooms `user:<id>` | `message:send`, `POST /messages`, publish, consume and emit, boot, shutdown | receives from the socket worker of a client; emits `message:new` and `notification` to it |
| **Receipts and read cursor** (`messageReceiptOps.ts`, `messages/repo.ts`, `conversationReads/repo.ts`, `receiptPublish.ts`) | `messages.receiptsByUserId`, `conversation_reads` | `message:delivered`, `message:read`, `conversation:read`, `GET .../message-receipts` | publishes through the same exchange |
| **Client thread store** (`messagingSlice.ts`, `useConversation.ts`, `useSendMessage.ts`) | rows, entities, optimistic queue, plaintext of own messages, receipts; SWR's cached page | append, replace and remove of an optimistic row, `message:new`, hydrate, revalidation | the bridge; `GET /conversations/:id/messages` |
| **Client socket worker and bridge** (`socketWorker.ts`, `socketBridge.ts`, `SocketWorkerProvider.tsx`) | the Socket.IO client, the queue of held sends, open promises, the status shown | connect, replace, disconnect, emit, hold, expire, flush, acknowledge | the main thread by `postMessage`; the server by Socket.IO |
| **Conversations and guest expiry** (`conversations/repo.ts`, `sendMessage.ts`, `conversationListCache.ts`) | `conversations` (`directPairKey`, `updatedAt`, guest expiry); the list SWR keeps in a tab | find or create, touch, TTL removal, list, bump, selection of a thread or a search hit | send handler; socket worker |
| **Open thread page** (`HomeConversationShell.tsx`, `ThreadMessageList.tsx`, `receiptEmitGuards.ts`) | scroll position and pin, scroll target, what was reported as read | open, load, scroll, follow the tail, report `conversation:read` and `message:read` | thread store, bridge, receipt handlers |
| **Calls** (`webrtcSocketHandlers.ts`, `callSlice.ts`, `useWebRtcCallSession.ts`, `CallSessionDock.tsx`) | phase, peer connection and dock of each device; nothing on the server | dial, ring, answer, offer, candidate, hang up, mute | bridge, local rooms |
| **Authentication and session** (`controllers/auth.ts`, `refreshTokenRedis.ts`, `httpClient.ts`, `sessionBootstrap.ts`) | refresh tokens in Redis, token version of a user, rate counters, tokens of every tab, `localStorage` | register, verify, sign in, guest, refresh, reset, sign out, bootstrap, device upgrade, interceptor | every request |
| **Device keys and sync** (`userPublicKeys/repo.ts`, `syncMessageKeys.ts`, client `crypto`) | device rows, wrapped keys of messages, key pair and device id in IndexedDB, the listing kept for sending | register, delete, list, evaluate, approve page by page and batch by batch, events | local rooms, session |
| **Presence** (`data/presence`, `useLastSeen.ts`) | a Redis key with expiry, `lastSeenAt`, the header of a viewer | heartbeat, flush on disconnect, lookup, load and poll of the header | socket connections, worker |
| **Rate limiting** (`rateLimitRedis.ts`) | Redis counters | fixed-window increment | every handler |
| **Composer and media** (`useMediaUpload.ts`, `useComposerMediaAttachment.ts`, the three composers, `mediaPresign.ts`) | text, attachment, controller and result of an upload; objects in storage | pick, presign, PUT, cancel, retry, remove, send | storage, session, thread store |
| **Profile and settings** (`SettingsPage.tsx`, `usersApi.ts`, `controllers/users.ts`) | the row of a user, the form, the photo uploaded before a save | edit, upload, `PATCH /users/me` | storage, session, device approval |
| **Message text** (`usePeerMessageDecryption.ts`, `messageHybrid.ts`, `senderPlaintextLocalStore.ts`) | decrypted bodies, kept plaintext, key and id of the device | decrypt on change, keep typed text, reload | thread store, device keys |
| Notifications in the client, search, configuration, validation, metrics, generated code | see `PROJECT.json` | | |

The hard behaviours are these. Handlers of Node.js interleave at every `await`.
A message is stored first and published twice afterwards, by a process that may
stop in between. Every replica gets a copy of every event, and a connection may
move from one replica to another between two copies. The broker redelivers what
was not acknowledged. In the client a sent message comes back by three ways
(acknowledgement, `message:new`, fetch) in any order, and an HTTP answer read
early may be applied late. The worker, the main thread and the connection are
three asynchronous parties, and a timer races a reconnection. `PROJECT.json`
lists each hazard at its line.

What makes each component correct:

* **send and fan-out**: nothing is announced before it is stored; a connection
  in its room misses nothing and gets nothing twice; sends made one after the
  other stay in order; a handler always answers.
* **receipts**: only recipients mark; an ok is durable; the ticks shown are
  backed by the store and do not fall back.
* **thread store**: one row per message, no row left "sending", nothing shown
  disappears for good, the text kept for a message is its own.
* **socket worker**: sends leave once and in order; a refusal is final; the
  status shown is true; a promise is settled.
* **conversations**: one thread per pair in spite of the race; a thread heard
  of appears in the list, and a bump is not undone by an older answer.
* **open thread page**: what the viewer has before him is reported as read; the
  tail stays in view until he leaves it.
* **calls**: nobody is in a call that was not answered; a device has one peer
  connection; candidates that come early are applied; hanging up ends the call,
  and only the peer of this call ends it.
* **session**: a password change ends every older session; the token kept in
  `localStorage` is one the service accepts; every waiter of a refresh resumes.
* **device keys**: the key a browser holds is the key registered; wrapped keys
  can be unwrapped; an approval has copied what it reports.
* **presence**: whoever was seen is not reported as unknown; whoever left is not
  reported online; the last-seen time does not move back; a header is fed.
* **rate limit**: a counter that refuses has an end.
* **composer, profile, text**: a message takes the attachment its author sees; a
  save changes what was edited and nothing else; what the device has keys for
  becomes readable.

## 2. Plan

Done: `DirectMessaging`, `MessagePipeline` (`MessagePipelineProofs`), `Receipts`
and `ThreadView` (`ReceiptsProofs`), `MessagingStore` (`StoreProofs`),
`SocketWorker` (`SocketWorkerProofs`), `Accounts` and `BrowserSession`
(`SessionProofs`), `CallSession` and `DeviceSync` (`DevicesProofs`), `Presence`,
`Threads`, `Composer`, `Profile` and `MessageText` (`HomeProofs`). Every safety and
action property that a passing run checks is a theorem.

Left, the most important first:

1. a composition of `SocketWorker` with one replica of the pipeline: a send made
   while offline is stored at most once, from the page of one user to the page of
   the other, keeping the promise of `DirectMessaging`;
2. toasts and their deduplication, once the server's notifications and the
   client's are followed together;
3. keyset pages of the conversation list, when the client asks for a second one;
4. calls between replicas: offers do not leave the replica of the caller today.

## 3. Modules

Conventions: an action has the name of the function it models where there is
one. Operators whose name begins with `M_` are deliberate faults: each is put in
place of a definition to show that a property of a run can fail; no
specification uses them. Variables called "history" exist for properties only.

### DirectMessaging
The abstract promise: a message is stored once, each caller is told one
truthful thing, and an open connection of one of the two participants receives
a stored message at most once, never on the socket that sent it.

### MessagePipeline
`sendMessageForUser` is cut at its awaits: `Receive`, `insertMessage`,
`PublishToRecipient`, `PublishEchoAndAck`, with `Fail` for every error path
(rate limit, validation, not found, forbidden, failing store, closed channel).
`publishMessage` appends to `wire[n]`, what the channel of replica `n` has not
flushed; `Route` is the topic exchange copying to every bound queue;
`deliverMessageToSocketIo` is the synchronous half of the consumer, `Settle` the
half after the sender's name was looked up. `connectRabbit`, `Listen`,
`Shutdown`, `closeSocketIo`, `Exit` follow `index.ts`; `Crash` and `LoseChannel`
are faults. A connection goes `off -> auth -> joined -> closed`; `Hears` and
`ArriveBeforeHandlers` model that handlers are registered two awaits after the
connection exists, so that an event may meet none. A reconnecting client is a
new connection.

A message is identified with the request that sends it, since the code has no
idempotency key. Resolving the thread and touching `updatedAt` belong to
`Threads`: they change nothing this module reads. The
Redis adapter of Socket.IO is off by default and is not modelled. Connections
that do not authenticate join no room and are left out.

### Receipts
The handlers of the three receipt events, cut at each MongoDB operation and each
publish, and the receipt state of a client. `LoadReceipt` and `StoreReceipt` are
the `findOne` and the unconditional `$set` of `setReceiptDelivered` and
`setReceiptSeen`; `upsertConversationRead` counts as unchanged only when it
rewrites the values it found. A publish goes to the participants in any order
(the code goes through the array of the thread; any order covers it) and to
every connection of the user but the caller's. `WithEvent` and
`mergeReceiptSummary` are the two merges of the client; `Learn` and `Forget`
stand for the messages that enter and leave the thread store. Only the devices
in `Watched` have their store followed.

### MessagingStore
One tab with one conversation open. SWR is modelled from its use in
`useConversation.ts`: a mutation starts a new request and discards the answer to
an earlier one; an answer that differs from the data schedules the effect that
hydrates. `appendIncomingMessageIfNew` pairs an own message with the optimistic
row that has waited longest. The loop of `dedupeIdsStable` and the filters of the
reducers are `Picked`, the entries at given positions in their order: a definition
without recursion, so that it can be reasoned about. `Settle` is the end of `await mutate(...)`, which a
later mutation may overtake. One page holds the whole thread: the page size of
the API is far above what the instance needs. Only the tab that typed a text has
it, since bodies are end-to-end encrypted.

### SocketWorker
The bridge (`pending`, `outcome`), the worker (`socket`, `queue`) and the
connection. A replaced client posts `disconnected` itself since its own events
are ignored. The queue timer may fire at any time: time is not modelled, so its
length cannot matter to what is shown. `deaf` collects the events whose
acknowledgement can never come.

### ThreadView
The page of the open thread of one viewer: `log` and `seen` are the server's,
`page` and `asked` SWR's, `rowsOf`, `mine` and `target` the store's, `bottom`,
`pinned` and `tail` the position of the log and the refs of `ThreadMessageList`,
`cursorKey` and `shownRead` the two refs by which the shell reports once. A commit
(`Scrolled`, then `Reported`) is one step with its layout effects and effects; the
dispatch that an effect of `useConversation` makes is the next step
(`hydrating`). Rows have one height and the threshold of the pin is nearer than a
row. An answer holds what the server holds when it comes; answers that come late
are the subject of `MessagingStore`. A request for a thread that SWR loaded just
before may be skipped (its deduplication).

### Accounts, BrowserSession
`Accounts` has the `/auth` handlers cut at their awaits, over the users
collection, refresh tokens in Redis, mail with verification and reset links,
fixed-window counters and the runtime configuration. `BrowserSession` adds the
tabs of one browser that share `localStorage`: `act` is what each activity of a
tab awaits (bootstrap, single-flight refresh, API call, sign-in, sign-out,
upgrade of the token to a device), `attempt` the refresh under way, which other
calls of the tab join. One number names a pair of tokens, another a password with
its `refreshTokenVersion`, since one update writes both. Hashing and the encoding
of tokens are libraries.

### CallSession
Every device has a call slice, a peer connection, the state of its hook and the
dock; `callInbox` holds what the server sent. A dispatch and the effects of the
page it triggers are one step: the store notifies synchronously and React flushes
the effects of such an update before the next task. `Relay` reaches the rooms of
the caller's own replica, as the code does: with several replicas a callee
elsewhere gets the notification and no offer. Media, SDP and candidates are
opaque.

### DeviceSync
The key pair and device id of each browser of one account (a pair is named by its
browser and number; `default`, an id for devices without one, is not reached by
any page), the device rows, the listing kept for sending with its time to live,
the wrapped keys of messages, and the asynchronous functions of every page as
`flows`. An approval reads pages of message keys, rewraps them and posts a batch;
the answer of a batch and its progress are one step. Two reads of an evaluation
are taken together, and so are the id and the key of IndexedDB. A page whose
functions generated two pairs at once holds the id of one and the key of the
other: such browsers are marked (`mixed`) and not followed further. The token
refresh within an approval belongs to the session. Rotation, backup and restore
are called by no page.

### Presence
Heartbeats become `SET` commands that Redis executes in order of a connection;
the flush of a closed connection reads, writes MongoDB and deletes in three
steps; a lookup reads Redis, then MongoDB. The other half is the header of a
viewer: `useLastSeen` with its guard of one load in flight and its timer, through
the worker of his tab. `Lapse` is the expiry of the key.

### Threads
Sends of a user and his peers create the thread of a pair (`Find`,
`InsertThread`, the repeated find of the loser), store the message and touch
`updatedAt`; the TTL index removes guest threads. The tab's list is SWR's cache:
a newer request replaces an older, a mutation discards the answer under way, a
failed request is repeated. Peers are fewer than a page. A search hit may be
stale.

### Composer, Profile, MessageText
`Composer` is one form with its uploads, each of them a sequence of presign, PUT
and answer that outlives the form's interest in it: cancel, retry and remove
replace controller and result. The three composers of the client differ in what a
sent message leaves in the form. `Profile` is the row of a user under two
browsers and a device approval that puts back the user it began with; a photo is
uploaded before the save that names it. `MessageText` follows which rows one
browser can read: kept texts of own messages, wrapped keys, the runs of the
decryption effect, reloads. Whether a text is readable is followed, not the text;
an event is delivered at once or never, and the order of rows is left out.

### MessagePipelineProofs, ReceiptsProofs, StoreProofs, SocketWorkerProofs, SessionProofs, DevicesProofs, HomeProofs
The theorems about the modules they extend and their proofs: section 5.

### SequenceLemmas
What all the proofs about queues and channels rest on: the elements of a
sequence after `Append`, `Tail`, `RemoveAt` and concatenation, and when it stays
ascending, free of repetition, or in the order a relation asks for; and that a set
of numbers has a least element.

## 4. Runs

| Run | Instance | Shows |
| --- | --- | --- |
| `pipeline` | 2 replicas, 2 connections, 2 sends over one connection, 1 fault | `NoSilentLoss`, `SameReplicaOrder`, and that the pipeline implements `DirectMessaging` |
| `pipeline_live` | 2 replicas, 3 connections (the sender has two), 1 send, 1 fault | `EveryRequestEnds`, `OwedIsDelivered` |
| `pipeline_http` | the same with a send over HTTP, no fault | violated: `AuthorNotAlerted` |
| `receipts` | 1 message, 4 calls from 3 devices, one device followed, clock up to 2; beside it `ThreadView`: threads A and B, 4 messages of the peer, one of the viewer | `OkMeansStored`, `ToldIsShown`, `TicksNeverFallBack`; `ReadIsReported`, `TailFollowed` |
| `receipts_cursor` | 2 messages, 2 calls of one device | violated: `ReadCursorAdvances` |
| `store` | 2 sends of the tab, 1 message of the peer, 1 of another device, three of the four stored, 1 fault | `OwnSendShownOnce`, `NoPhantomSending`, `ShownStays` |
| `store_text` | the same with 1 send | violated: `PlaintextIsItsOwn` |
| `session` | 2 tabs of one browser and a caller elsewhere, 1 account and 1 guest, 3 pairs of tokens, 1 reset, one failure, lost answer, expiry or change of configuration | `OnlyCurrentPassword`, `StoredTokenUsable`, `CounterArmed`, `ActivitiesEnd` |
| `devices` | 3 people with 2 calls; 2 browsers of one account, one of them new, 2 messages; one fault or hang-up among the people, 1 fault of the keys | `ActiveIsAgreed`, `OneConnection`, `EarlyCandidatesApplied`, `HangUpEnds`, `RemoteEndIsMeant`; `KeyringMatchesDirectory`, `WrapsAreReadable`, `ApprovedIsCopied`, `ToldIsWrapped`, `NoNeedlessBlock` |
| `home` | `Presence`, `Threads`, `Composer`, `Profile` and `MessageText` beside each other | `SeenIsAnswered`, `OfflineIsNotOnline`, `LastSeenIsLast`, `HeaderIsFed`; `OneThread`, `ThreadsAppear`, `BumpNotUndone`; `AttachmentIsIntended`; `SavesOnlyEdits`; `RestIsReadable` |
| `home_text` | the same | violated: `AttachmentIsShown` |
| `worker` | 2 sends and a receipt, 2 connects, 1 fault, sign-out | `SentInOrder`, `UnavailableNotSent`, `EveryRequestEnds` |

`receipts`, `devices` and `home` hold several parts that share no variable; each
behaviour is one of one part, with the others at rest. An invariant of a part
holds whatever the other parts do, so nothing is lost by that.

**The four violations** are places where the code disagrees with its own words.
A message sent over HTTP has no socket to skip, its echo is taken for recipient
fan-out, and the author gets a notification of it (`rabbitmq.ts:372`). The read
cursor is overwritten by an older receipt handled later
(`messageReceiptOps.ts:146`). A message the user sends from another device takes
the optimistic row of this tab, and with it the text typed here
(`messagingSlice.ts:410`). The first message of a conversation, sent with a
caption and an attachment, is never decrypted by its sender because its text is
known, and so its attachment is never shown to him
(`usePeerMessageDecryption.ts:125`).

Two more weaknesses of the open thread page show in its model but have no run of
their own. A thread opened before its messages are loaded, after the viewer
scrolled up in another, shows its oldest rows: the layout effect returns while
there is no log and `pinnedToBottomRef` keeps what the other thread left in it,
although the comment at `ThreadMessageList.tsx:325` promises the jump to the tail
for the first non-empty layout. And a failed revalidation replaces the log by an
error, after which it comes back at its top. `TailFollowed` excepts both
(`blank`).

**Bounds.** Two replicas are enough for a connection that is not where the
sender is and for copies that arrive at different times; two sends are enough
for overtaking; one fault at any point of a run gives each crash, shutdown,
redelivery and lost channel its interleavings with both sends. `MaxFaults`,
`MaxConnects` and `MaxTime` bound crashes and lost channels, calls of
`bridge.connect`, and the clock. The pipeline is symmetric in replicas and
requests (`MC_Symmetry`, safety only). In `pipeline` one connection closes of
itself, before any fault (a replica that goes closes all of its own); in
`pipeline_live` the sender's first connection is to `n1`, which loses nothing
since the replicas are alike.

* `receipts`, the server: three of the four calls are handled, two at a time, one
  of them answered with an error.
* `store`: three of the four messages are stored, in every choice of three.
* `receipts`, the thread page: one row in view (`Height`), one scroll, one merge
  of receipts or one lost connection or refused call. One half follows the log with
  no reporting and three openings; the other follows the reports, with two
  openings of thread B, two calls at once, no scrolling, no failed load and no
  own send. At first none of the old messages has been seen, or all.
* `session`: people act in one tab (`Busy`), twice; three pairs of tokens give one
  refresh more than two activities can share; the rate limit is one request; one
  thing goes wrong: a failure, a lost answer, an expiry or a change of
  configuration.
  `ActivitiesEnd` excepts activities that would need a pair beyond `MaxPairs`.
* `devices`: each call has one set of possible starters; one person meets the
  fault, another one's candidates are followed; one hang-up or opened thread, or
  one fault. Of the two browsers the established one sends and approves, the new one reloads,
  signs out or comes to the front; two functions of a page run at once as long as
  nothing is sent, one message existed before, pages of an approval hold one key.
* `home`: two connections and a clock of three for flushes that cross, three
  lookups (one in the half that follows the user, and a clock of one with one
  connection in the half that follows the header, with two of a lost connection, a
  view and a failure); two peers, three sends of
  which two are handled at once, one expiry or failure where the creation of a
  thread is followed; two good files and a bad one with three uploads and two
  sends; two texts and an empty one, two saves here, one elsewhere, one approval;
  one message typed here, one from another device and one of the peer, with one
  reload, after which there are two messages at most and the connection stays. The two peers are symmetric (`Either`).

Deadlock is checked for `receipts`; in the others the system may stop: no client
has to connect, and a session ends.

**Fairness.** In the pipeline, handlers that were accepted run on (Node.js
resumes every settled promise), the broker routes, and a consumer with an open
channel consumes. Nobody must connect, boot, or recover from a lost channel:
the code has no reconnection, so none is assumed. In the store a request is
answered and React runs the effect. In the worker both event loops run, the
timer fires, and the server answers an event it heard; that it does is
`EveryRequestEnds` of the pipeline. No connection attempt has to succeed. In the
session handlers and tabs run on (`Runs`); nobody must sign in and nothing must
expire. `receipts`, `devices` and `home` check safety only and assume none.

**What the properties except.** Where the code has no defence the property names
exactly that case and nothing more.

* `OwedIsDelivered`: connections on a replica that shuts down or has lost its
  channel. `EveryRequestEnds` of the worker: events that were not heard or whose
  connection went first.
* `ReadIsReported`: a refused report waits for the next effect or observer
  (`refused`), one whose answer went with its connection for the next opening of
  the thread (`lost`). `TailFollowed`: the log replaced by a line of text
  (`blank`); a target that is not the tail (an acknowledgement that comes after a
  message of the peer) takes the view away by itself (`follows`).
* `CounterArmed`: a counter whose `EXPIRE` failed. `StoredTokenUsable`: a token
  used in a call whose answer was an error.
* `LastSeenIsLast`, `SeenIsAnswered`: flushes that both read before either wrote;
  failed operations. `HeaderIsFed`: an answer that found the socket down.
* `OneThread`: threads that expired. `ThreadsAppear`: the answer a bump of
  another thread discarded. `BumpNotUndone`: an `updatedAt` that moved back.
* `KeyringMatchesDirectory`, `WrapsAreReadable`: browsers that mixed two key
  pairs. `ToldIsWrapped`: a listing under way when the event was handled.
* `RestIsReadable`: rows marked while the key was missing, which the code caches
  on purpose.

A composer's late `finally` also clears the uploading flag of the upload that
replaced it, and a profile photo whose save is refused stays in storage; no
source line speaks against either, and no property does.

## 5. Proofs

`MessagePipelineProofs` proves, for any finite or infinite sets of replicas,
users, connections and requests and any number of faults, from
`PipelineAssumption` alone:

* `TypeCorrect`: `Spec => []TypeOK`.
* `AnnouncedOnlyIfStored`: `Spec => []AnnouncedIsStored`. The invariant adds to
  `TypeOK` that a request past its insert is stored (`Handled`), since a
  publish relies on the handler's progress, and that every entry carried on a
  wire, in a queue or in a task, and every event received, is of a stored
  message and addressed to one of its participants (`Carried`), which each move
  of an entry hands on.
* `DeliveryNotSkipped`: `Spec => []NoSilentLoss`. The property is about queues
  of running replicas; to be inductive it needs that the queue of the host of a
  joined connection exists (`Placed`), or `Route` would copy nothing to it, and
  that what is owed to a connection was received or waits in the queue of its
  host (`Kept`). A redelivered entry goes back to the front of the queue, so
  losing a channel keeps what is owed; only a replica that leaves `up` drops.

Two more theorems build on these invariants, again from `PipelineAssumption`
alone:

* `PromiseKept`: `Spec => ImplementsPromise`, the pipeline implements
  `DirectMessaging` under the mapping of `Promise`. An insert is a `Store`, what
  the caller is told an `Answer`, a consumed entry a `Deliver`, a connection that
  comes or goes an `Open` or a `Drop`; all other steps stutter. `Deliver` may not
  reach a connection that has the message, although the broker redelivers, so
  the invariant (`Once`) follows where copies can be: an entry is published once
  (`Unpublished`), is on one wire and then nowhere else (`OnOneWire`), is at most
  once in the queue of a replica, and not both there and unacknowledged while
  the channel is open (`OneCopy`: closing it puts the unacknowledged back), and a
  copy that waits at the replica of an open connection was not received by it
  (`Unseen`). The last one is what a redelivery would break if connections
  outlived the channel that delivered to them: they do when a channel is lost,
  and the property survives since that replica never consumes again before it
  restarts, which closes them. `Untold` adds that a handler under way has told
  its caller nothing.
* `ArriveInOrder`: `Spec => []SameReplicaOrder`. A message that must come first
  is in front on the wire (`WireOrder`), in each queue and among what is
  unacknowledged, which goes back in front of the queue (`QueueOrder`), and was
  not overtaken by what a connection has received (`Unpassed`, `InboxOrder`).

Each step lemma has one step per action.

`ReceiptsProofs` proves all the safety and action properties of `Receipts`, for
any sets of users, devices, messages and calls, from `ReceiptsAssumption`:

* `TypeCorrect`, and from one invariant `Inv` the theorems `RecipientsMark`
  (`OnlyRecipientsMark`), `OkIsStored` (`OkMeansStored`) and `TicksAreStored`
  (`ShownIsStored`). `OkMeansStored` is about calls that have ended, so `Inv`
  says of calls under way (`Handlers`) what each step of a handler relies on: it
  is past its checks only for a recipient, and past its write only if the store
  has the field it was asked to set. The unconditional `$set` may put an older
  time over a newer one, so the invariant speaks of fields that are set, not of
  their values: a call that skipped its write because of another call's time
  stays justified. `Backed` says the same of what events carry, what a fetch
  read and what is shown, all of which the store must imply.
* `ToldArrives` (`ToldIsShown`): a device that was told of a receipt while it
  knew the message shows it, whatever the order of events and fetches (`Heard`).
* `TicksStay` (`TicksNeverFallBack`): a field that is set in the store stays set
  (`Grows`), and neither merge clears one that is shown: an event sets its own
  field and keeps the other, a response wins only where it has a value.

It then proves, from `ThreadsAssumption`, the properties of `ThreadView` for any
threads, messages and rows in view. The assumption says that an id names one message
of one thread, that optimistic rows have ids of their own, and that a thread holds
what it begins with once each.

* `ThreadsAreKept` (`ThreadsKept`): the cache of SWR holds a beginning of each
  thread, a row stands for a stored message of its thread or for an own one that is
  being sent, and no thread holds a message twice.
* `ReadsAreReported` (`ReadIsReported`), from `ReportsKept`: the two refs by which
  the shell reports once never name a message nobody was told of (`RefsTold`), and
  opening another thread forgets them before its rows are looked at. A refused
  report may be made again, a lost one waits for the next opening, so neither may
  leave its message in a ref. A commit is the hard step: its rows, its refs and its
  reports change together (`CommitReports`).
* `TailIsFollowed` (`TailFollowed`), from `TailKept`: a viewer who follows is pinned
  (`PinnedToTail`), so a commit that changes the remembered tail scrolls. What could
  go wrong is a tail remembered from before a failure or from another thread that
  happens to be the last row again: then the commit would not scroll. `Passed` says
  that it cannot be: such a tail is no longer than the rows, of another thread, an
  optimistic row, or a message whose place in the thread is before that number, and
  a row that is appended makes none of these the tail again. Optimistic ids are
  never used twice, and threads only grow.

`StoreProofs` proves from `StoreAssumption` and `IdsAssumption` (a message is typed
in one place; the ids of the server are not those the tab makes up; `None` is no
thread), for any number of sends, messages and faults, `StoreIsTyped`,
`SendsShownOnce` (`OwnSendShownOnce`) and `SendingIsMeant` (`NoPhantomSending`). The pairing of
`message:new` takes whichever row has waited longest, which would be the wrong one
if several could wait. The invariant `RowInv` says why it is right: the composer
admits one send at a time (`OneAtATime`), so one row is shown at most; that row is
in the list of the thread, in `messagesById` and in the queue, or in none of them
(`RowsKept`); and what the queue still holds before it has left the store, so it is
what `Stripped` begins with. An event, an acknowledgement, a page or an error each
take the three together. `Stored` keeps a message that was not sent yet from being
announced or fetched. `PickedFacts` says what the loops and filters keep: positions
of a finite set have all ranks up to its size, once each. That `PlaintextIsItsOwn`
fails does not contradict this: the row goes, but its text may go to another message.
`ShownIsAwaited` is the safety half of `ShownStays`: a message that was in
`messagesById` once is at any later time in SWR's data, which are on the screen or
about to be put there, in the answer under way, or in the thread that the request
under way will read. Only that the request is answered is left to fairness.

`SocketWorkerProofs` proves from `WorkerAssumption`, for any number of requests,
connects and faults, `TypeCorrect`, `EmittedInOrder` (`SentInOrder`) and
`RefusalIsFinal` (`UnavailableNotSent`). Requests are numbered in the order the
page made them. The invariant (`Order`) is that what was emitted, what is held in
the queue and the calls still on their way to the worker are three consecutive
stretches of one ascending sequence; a reconnection flushes the queue before it
emits anything else, so each move takes from the front of one stretch to the back
of the one before. It needs `Idle` (nothing is held while the socket can send),
`Known` (a call made later has a greater number than all before it) and `Final`:
a request refused by the worker is in none of the three stretches, so it cannot
leave later. `PromisesAreHeld` is the safety half of `EveryRequestEnds`: what will
settle an open promise is in the channel to the worker, in the queue, emitted or in
the channel back, unless its event was not heard or its connection went first
(`deaf`); each handler passes a request on before it lets go of it (`Held`).

`SessionProofs` proves four theorems from `AccountsAssumption` and
`BrowserAssumption`, for any number of tabs, accounts, guests, resets and calls
under way; the second assumption now also says that the caller outside the
browser (`Elsewhere`) is none of its tabs' activities.

* `SessionsFollowPassword` (`OnlyCurrentPassword`) is about tokens in Redis; to be
  inductive it needs that every pair issued so far was issued with the version its
  origin had (`PairsOK`), and that a handler about to issue has read a document of
  the version of the password or of the token it was given (`CallsOK`): between the
  check of the version and the issue a reset may come, but what is issued then
  carries the version that was read, so the service does not accept it.
* `KeptTokenUsable` (`StoredTokenUsable`) relates `localStorage` to Redis through
  the calls between them. A token leaves Redis when its time is over, when a
  handler found its account gone or its version old, which stays so (`Dead`,
  `Accounted`: versions only rise and rows go once), or when a refresh or a
  sign-out used it up. In the last case the call has been answered by 200
  (`Spent`), and a refresh has a pair on its way that nobody else holds (`Founded`,
  `Apart`). Every step of a tab is one of a single kind (`TabMoves`): it takes up
  only calls that are answered, and one it takes up in the state `Spent` has its
  pair stored, the token cleared, or its answer was lost and the token is
  `doubtful`. That an activity of a tab has a call exactly when it waits for one,
  the refresh of `performRefresh` included, is the second half of the invariant
  (`TabsInv`): it keeps an interceptor, a retry or a page that gave up from
  dropping a call that has used the token.
* `CountersArmed` (`CounterArmed`): who counts first stays before its `EXPIRE`
  until it sets it or fails, whatever the other requests of the window do.
* `RequestsAreAwaited` is the safety half of `ActivitiesEnd`: an activity that waits
  for a call has one under way and one that does not has none, a request that waits
  for `refreshPromise` has a refresh in flight, and `refreshPromise` is reset exactly
  when the call of the refresh ends (`TabsInv`). No request that joins late, and no
  way for a refresh to end, leaves a request behind that nobody will resume.

`DevicesProofs` proves from `CallAssumption`, for any number of devices,
calls and faults, `CallsAgreed` (`ActiveIsAgreed`), `OneConnectionEach`
(`OneConnection`), `CandidatesApplied` (`EarlyCandidatesApplied`), `HangUpLeaves`
(`HangUpEnds`) and `EndedByPeer` (`RemoteEndIsMeant`), all from one invariant,
`CallInv`. A device learns of a call from events only, in any order across
senders, so the invariant is about what events can exist: calls are numbered as
they are dialled (`Numbered`); an offer carries its call's number, is sent once
(`OfferedOnce`) and never to somebody who is in that call already (`NotOffered`);
an answer or a hang-up under way was sent by somebody who gave it (`Answers`,
`HangUps`). The rest ties the slice, the hook and the dock of each device to one
another through every effect that runs after a dispatch.

From `DeviceAssumption` it proves, for any number of browsers, pages, key pairs,
messages and faults, in five layers, each an invariant over the ones before:

* `SyncForms`: the shapes of the handlers and events (`SyncTypes`), and that a
  function past its first reads has what it read (`Provided`).
* `KeyringRegistered` (`KeyringMatchesDirectory`), from `KeyringInv`: the id and
  the key of a browser that is not `mixed` were generated together, it registers
  one new pair at a time, and a registration carries the pair it will store.
* `WrapsRead` (`WrapsAreReadable`), from `OwnedInv`: everyone who lists,
  announces, posts or approves a key names the id together with the key
  registered under it, so what is wrapped for a device can be unwrapped there.
* `ApprovalsCopied` (`ApprovedIsCopied`), from `CopiedInv`: an approval walks the
  messages in order, and what it is past was rewrapped, however new messages and
  batches interleave; the cursor arithmetic of the pages (`NextKeys`,
  `AfterCursor`) rests on least and greatest elements of finite sets of numbers.
* `ToldWrapped` (`ToldIsWrapped`), from `ToldInv`, and `NobodyBlocked`
  (`NoNeedlessBlock`), from `BlockInv`: a page that waits for keys although its
  device has some is about to hear of it, by an evaluation under way that read
  late enough (`Telling`) or an event not yet handled (`Tidings`); every step
  keeps one of the two until the page is told.

`HomeProofs` has the theorems of the parts of the home page, each for any values
of its constants:

* Presence, from `PresenceAssumption`: `SeenAnswered` (`SeenIsAnswered`),
  `OfflineNotOnline` (`OfflineIsNotOnline`), `LastSeenKept` (`LastSeenIsLast`) and
  `HeaderFed` (`HeaderIsFed`). The time of a user moves from Redis to MongoDB in
  two steps, so `Stores` says that whoever is known is in one of the two
  (`Somewhere`), that a flush that is about to delete has written (`Written`), and
  that what is in Redis belongs to a connection or a flush (`Owned`, `BeatSent`);
  `Found` says that a lookup that missed Redis will find MongoDB. `LastSeenKept`
  has an invariant of its own, `LastInv`: what Redis holds is the last heartbeat
  stored (`Recent`); as long as no two flushes have crossed one at most is between
  its read and its write (`Alone`); and once every connection has closed and read,
  that time is in MongoDB or in the hands of the flush that will write it
  (`Carried`) - while somebody is still connected MongoDB may lag, because his own
  flush will follow. `HeaderFed` rests on `FedInv`: a connected header without an
  entry to show has a flight (`HeaderAsks`), and a flight has its request or its
  answer under way unless that was lost.
* Threads, from `ThreadsAssumption`: `OneThreadPerPair` (`OneThread`),
  `ThreadsWillAppear` (`ThreadsAppear`) and `BumpsStay` (`BumpNotUndone`). For the
  first, `Collection` is the unique index, `Stored` that messages are in a thread
  of their pair, `Handlers` that a send past its search holds a thread of its pair
  and that one refused by the index has a row to find as long as nothing expired,
  `Whole` that without expiry all threads ever made exist. The other two are about
  SWR's cache (`ListInv`): what the tab will hear of, or has bumped, the collection
  has reached unless a time moved back (`Ahead`); an answer holds every listed
  thread that still exists (`Asking`); a thread the tab was told of is listed, or a
  request or repetition that will show it is under way (`Awaited`); and an answer
  that will be taken was read after the last bump (`AnswerIsNew`).
* `AttachmentIntended` (`AttachmentIsIntended`), from `ComposerInv`: an upload that
  was not aborted is that of the current controller and of the file shown
  (`Current`), an aborted one sends nothing more (`Stopped`), and a retry is of the
  file shown (`Retries`).
* `OnlyEditsSaved` (`SavesOnlyEdits`), from `ProfileInv`: the form differs from the
  user only where something was typed, and the user that an approval will put back
  is that of the slice, or another one came since.
* `RestReadable` (`RestIsReadable`), from `TextInv`: every row this device could
  read is a target of the decryption run under way (`Covered`), and what the run
  found and rendered is up to date (`Rendered`).

The type invariants of the pipeline, the receipts, the store and the worker, and the
invariants `AnnouncedIsStored`, `OnlyRecipientsMark` and `ShownIsStored`, are
proved and therefore in no run. The type invariants of the other modules say what
shape their variables have.

Model-checked only: liveness (fairness and `ENABLED` are out of the prover's
reach), which is `EveryRequestEnds` of the pipeline and of the worker,
`OwedIsDelivered`, `ShownStays` and `ActivitiesEnd`, and the four violations, which
are counterexamples of TLC. Of the liveness properties but the first the safety
half is proved, that what must happen is still under way: by `PromisesAreHeld`,
`DeliveryNotSkipped`, `ShownIsAwaited` and `RequestsAreAwaited`.

## 6. Not modelled

* Toasts and sounds of the client (the server's notifications are in
  `MessagePipeline`), user search (a read), configuration, validation and metrics
  (functions of their input, or counters nothing reads back), rendering, generated
  code, deployment files.
* Cryptographic computations, media tracks, SDP, object bytes, e-mail transport:
  opaque.
* Keyset pages of the conversation list and of a thread: the client asks for the
  first page only. Expiry of guest accounts and of messages: only threads expire.
* Key rotation, backup and restore of the keyring, and `POST /media/upload`: no
  page calls them.
* The Redis adapter of Socket.IO (off by default).
* Rate limits other than those of `/auth`: a refused request is a failed one.
* Late answers in `ThreadView` (they are `MessagingStore`'s) and lost ones in
  `MessageText`; heights of rows.

Time is left out everywhere but for receipt times and presence: a timer may fire
at any moment it is armed. Logging is left out.
