----------------------------- MODULE DeviceSync -----------------------------
(***************************************************************************)
(* The device keys of one account: the key pair every browser generates    *)
(* and registers, the directory of device rows, the listing a page keeps   *)
(* for sending, the wrapped message keys, and the copying of those keys to *)
(* a new device that another device approves.                              *)
(*                                                                         *)
(* A browser generates a device id together with a key pair: <<b, n>>      *)
(* names both the n-th id and the n-th pair of browser b.  A key wrapped   *)
(* for a public key is represented by the pair that unwraps it.            *)
(***************************************************************************)
EXTENDS Naturals, Sequences, FiniteSets

CONSTANTS
  Browsers,      \* the browsers of the account, one page each
  Established,   \* those that hold a registered key pair at first
  Restless,      \* bound: those that reload, sign out or come to the front, once and
                 \* with no other action of the people
  Senders,       \* bound: those that send and open threads
  Follow,        \* bound: whether a page that mixed two key pairs is followed further
  Slots,         \* bound: async functions of a page that run at once
  History,       \* the number of messages stored at first
  PageSize,      \* message keys per request of an approval
  MaxPairs,      \* bound: key pairs a browser generates
  MaxMessages,   \* bound: messages
  MaxActs,       \* bound: actions of the people
  MaxFaults      \* bound: requests, answers and events that fail

ASSUME DeviceAssumption ==
  /\ Established \subseteq Browsers /\ Restless \subseteq Browsers /\ Senders \subseteq Browsers
  /\ Follow \in BOOLEAN
  /\ Slots \in SUBSET Nat /\ Slots # {}
  /\ PageSize \in Nat \ {0} /\ MaxPairs \in Nat \ {0}
  /\ History \in Nat /\ MaxMessages \in Nat /\ History <= MaxMessages
  /\ MaxActs \in Nat /\ MaxFaults \in Nat

VARIABLES
  rows,       \* user_device_public_keys: the public key of each device id
  messages,   \* the stored messages, in the order of createdAt: their encryptedMessageKeys
  idb,        \* IndexedDB of each browser: the stored device id and the keyring
  page,       \* what the page of each browser holds in its store
  flows,      \* the async functions of the pages that have not returned
  handlers,   \* POST /users/me/devices between its findOne and its write
  inbox,      \* events on their way to each page
  contact,    \* the listing of this account that the peer of the thread holds
  made,       \* key pairs generated by each browser
  told,       \* history: the devices whose request a page handled with no listing under way
  missed,     \* history: the pages an event did not reach
  mixed,      \* history: the browsers where two functions generated pairs at once
  promised,   \* history: message keys an approval reported as copied
  acts, faults

vars == <<rows, messages, idb, page, flows, handlers, inbox, contact, made,
          told, missed, mixed, promised, acts, faults>>

Pairs == Browsers \X (1 .. MaxPairs)
None == <<>>
Blank == [i \in Pairs |-> None]
Listed(listing) == {i \in Pairs : listing[i] # None}
Listings == [Pairs -> Pairs \cup {None}]

\* sync is crypto.syncState (syncStarted is dispatched nowhere, so in_progress
\* is never reached), asked the pending request; cache and items are the 'me'
\* entry of devicePublicKeys.
Page == [on: BOOLEAN, dev: Pairs \cup {None}, sync: {"idle", "pending", "complete"},
         asked: {None} \cup (Pairs \X Pairs),
         cache: {"none", "loading", "fresh", "old", "failed"}, items: Listings]

\* What ensureUserKeypairReadyForMessaging, a send, an evaluation of the sync
\* state, a prefetch, an approval or a sign-out has got to.
Flow == [b: Browsers, slot: Slots,
         for: {"boot", "ensure", "send", "evaluate", "prefetch", "approve", "leave"},
         step: {"list", "listed", "register", "posted", "store", "key", "devices", "set",
                "rows", "ask", "got", "wrap", "post", "check", "page", "batch", "revoke", "leave"},
         id: Pairs \cup {None}, key: Pairs \cup {None}, src: Pairs \cup {None},
         local: Pairs \cup {None}, keyed: BOOLEAN, prior: BOOLEAN, next: {"idle", "pending", "complete"},
         seen: Listings, at: 0 .. MaxMessages, picked: SUBSET (1 .. MaxMessages), more: BOOLEAN,
         owed: SUBSET (1 .. MaxMessages), must: SUBSET Pairs]

TypeOK ==
  /\ rows \in Listings /\ contact \in Listings
  /\ messages \in Seq(Listings) /\ Len(messages) <= MaxMessages
  /\ idb \in [Browsers -> [id: Pairs \cup {None}, key: Pairs \cup {None}]]
  /\ page \in [Browsers -> Page]
  /\ flows \subseteq Flow
  /\ \A f, g \in flows : f.b = g.b /\ f.slot = g.slot => f = g
  /\ \A h \in handlers : h.id \in Pairs /\ h.key \in Pairs /\ h.found \in Pairs \cup {None}
  /\ \A b \in Browsers : \A e \in {inbox[b][k] : k \in DOMAIN inbox[b]} :
       e.kind \in {"sync_requested", "sync_complete", "message:new"}
  /\ made \in [Browsers -> 0 .. MaxPairs]
  /\ told \in [Browsers -> SUBSET Pairs]
  /\ missed \subseteq Browsers /\ mixed \subseteq Browsers
  /\ promised \subseteq (1 .. MaxMessages) \X Pairs
  /\ acts \in 0 .. MaxActs /\ faults \in 0 .. MaxFaults

First(b) == <<b, 1>>
cryptoInitialState ==
  [on |-> TRUE, dev |-> None, sync |-> "idle", asked |-> None, cache |-> "none", items |-> Blank]

\* A function that has just been called, before its first request.
Call(b, for, step) ==
  [b |-> b, slot |-> 0, for |-> for, step |-> step, id |-> None, key |-> None, src |-> None,
   local |-> None, keyed |-> FALSE, prior |-> FALSE, next |-> "idle", seen |-> Blank, at |-> 0,
   picked |-> {}, more |-> FALSE, owed |-> {}, must |-> {}]

Init ==
  LET known == {First(b) : b \in Established}
      wrapped == [i \in Pairs |-> IF i \in known THEN i ELSE None] IN
  /\ rows = wrapped /\ contact = wrapped
  /\ messages = [k \in 1 .. History |-> wrapped]
  /\ idb = [b \in Browsers |-> IF b \in Established THEN [id |-> First(b), key |-> First(b)]
                                                    ELSE [id |-> None, key |-> None]]
  /\ page = [b \in Browsers |-> IF b \in Established
                                THEN [cryptoInitialState EXCEPT !.dev = First(b)]
                                ELSE [cryptoInitialState EXCEPT !.on = FALSE]]
  /\ made = [b \in Browsers |-> IF b \in Established THEN 1 ELSE 0]
  /\ flows = {} /\ handlers = {} /\ inbox = [b \in Browsers |-> <<>>]
  /\ told = [b \in Browsers |-> {}] /\ missed = {} /\ mixed = {} /\ promised = {}
  /\ acts = 0 /\ faults = 0

-----------------------------------------------------------------------------
(* What the steps are made of.                                             *)

Acts == acts + faults < MaxActs /\ acts' = acts + 1
Turns(b) == b \in Restless /\ acts = 0 /\ acts' = MaxActs
Fault == faults < MaxFaults /\ acts + faults < MaxActs /\ faults' = faults + 1

FlowsOf(b) == {f \in flows : f.b = b}
Free(b, running) == {s \in Slots : \A f \in running : f.b = b => f.slot # s}

\* The functions that run once f has been called beside running.
Started(f, running) ==
  {running \cup {[f EXCEPT !.slot = s]} : s \in {s \in Free(f.b, running) :
     \A t \in Free(f.b, running) : s <= t}}

\* The handler h will answer f.
Waits(f, h) == f.step = "posted" /\ h.waits = <<f.b, f.slot>>

Becomes(f, g) == flows' = (flows \ {f}) \cup {g}
Ends(f) == flows' = flows \ {f}

\* evaluateDeviceSyncBootstrapState; prior is what getState shows at the call.
Evaluation(b, id, prior) == [Call(b, "evaluate", "devices") EXCEPT !.id = id, !.prior = prior]

\* NewDeviceSyncBanner is shown and knows the device.
Banner(q) == q.on /\ q.sync = "pending" /\ q.dev # None

\* The store of b becomes q: NewDeviceSyncBanner evaluates again when the page
\* starts waiting for keys, and when its device id changes meanwhile.
M_Show(b, q, running) ==   \* Mutant: the banner only shows what the bootstrap found
  /\ page' = [page EXCEPT ![b] = q]
  /\ flows' = running

Show(b, q, running) ==
  /\ page' = [page EXCEPT ![b] = q]
  /\ IF Banner(q) /\ ~(Banner(page[b]) /\ page[b].dev = q.dev)
     THEN flows' \in Started(Evaluation(b, q.dev, TRUE), running)
     ELSE flows' = running

\* emitDeviceSyncRequested, emitDeviceSyncComplete and the fan-out of a message:
\* a page that is between two connections or, for the first two, connected to
\* another process than the handler's, does not get the event.
Emit(e) ==
  LET pages == {b \in Browsers : page[b].on} IN
  \E lost \in SUBSET pages :
    /\ IF lost = {} THEN UNCHANGED faults ELSE Fault
    /\ missed' = missed \cup lost
    /\ inbox' = [b \in Browsers |-> IF b \in pages \ lost THEN Append(inbox[b], e) ELSE inbox[b]]

Requested(id, key) == [kind |-> "sync_requested", id |-> id, key |-> key, wraps |-> Blank]
Complete(id) == [kind |-> "sync_complete", id |-> id, key |-> None, wraps |-> Blank]
MessageNew(wraps) == [kind |-> "message:new", id |-> None, key |-> None, wraps |-> wraps]

-----------------------------------------------------------------------------
(* ensureUserKeypairReadyForMessaging.                                     *)

\* The stored id is mirrored into the store and the keyring looked up.
Ensure(b, for, q, running) ==
  LET p == [q EXCEPT !.dev = IF idb[b].id # None THEN idb[b].id ELSE @]
      f == [Call(b, for, "list") EXCEPT !.id = idb[b].id, !.keyed = idb[b].key # None] IN
  \E some \in Started(f, running) : Show(b, p, some)

\* Sign-in (useSenderKeypairBootstrap), into whatever the functions that ran on
\* after a sign-out left in the store.
SignIn(b) ==
  /\ ~page[b].on
  /\ Ensure(b, "boot", [page[b] EXCEPT !.on = TRUE], flows)
  /\ missed' = missed \ {b}
  /\ UNCHANGED <<rows, messages, idb, handlers, inbox, contact, made, told, mixed, promised, acts, faults>>

\* A reload: the functions of the former page and the events on their way to it
\* are gone, the requests that reached the service are not.
Reload(b) ==
  LET q == [cryptoInitialState EXCEPT !.dev = idb[b].id]
      f == [Call(b, "boot", "list") EXCEPT !.id = idb[b].id, !.keyed = idb[b].key # None] IN
  /\ page[b].on /\ Turns(b)
  /\ page' = [page EXCEPT ![b] = q]
  /\ flows' \in Started(f, flows \ FlowsOf(b))
  /\ handlers' = {[h EXCEPT !.waits = IF \E g \in FlowsOf(b) : Waits(g, h) THEN None ELSE @] : h \in handlers}
  /\ inbox' = [inbox EXCEPT ![b] = <<>>]
  /\ missed' = missed \ {b} /\ told' = [told EXCEPT ![b] = {}]
  /\ UNCHANGED <<rows, messages, idb, contact, made, mixed, promised, faults>>

\* The tab becomes visible.
Visible(b) ==
  /\ page[b].on /\ Turns(b)
  /\ Ensure(b, "ensure", page[b], flows)
  /\ UNCHANGED <<rows, messages, idb, handlers, inbox, contact, made, told, missed, mixed, promised, faults>>

\* GET /users/me/devices/public-keys is answered.
List(f) ==
  /\ f.step = "list" /\ page[f.b].on
  /\ Becomes(f, [f EXCEPT !.step = "listed", !.seen = rows])
  /\ UNCHANGED <<rows, messages, idb, page, handlers, inbox, contact, made, told, missed, mixed, promised, acts, faults>>

\* A keyring: register the stored id again if its row is gone, and otherwise go
\* on with it.
\* Mutant: a browser whose row is gone registers a new pair that it does not store.
M_Keyed(f) ==
  LET id == idb[f.b].id IN
  /\ f.step = "listed" /\ f.keyed
  /\ IF f.seen[id] = None
     THEN Becomes(f, [f EXCEPT !.step = "register", !.id = id, !.key = <<f.b, MaxPairs>>, !.seen = Blank])
     ELSE Ends(f)
  /\ UNCHANGED <<rows, messages, idb, page, handlers, inbox, contact, made, told, missed, mixed, promised, acts, faults>>

Keyed(f) ==
  LET id == idb[f.b].id
      key == idb[f.b].key
      g == [f EXCEPT !.id = id, !.key = key, !.seen = Blank] IN
  /\ f.step = "listed" /\ f.keyed
  /\ \/ f.seen[id] = None /\ Becomes(f, [g EXCEPT !.step = "register"]) /\ UNCHANGED page
     \/ /\ f.seen[id] = key
        /\ Show(f.b, [page[f.b] EXCEPT !.dev = id],
                (flows \ {f}) \cup {[g EXCEPT !.step = "devices", !.prior = page[f.b].sync = "pending"]})
  /\ UNCHANGED <<rows, messages, idb, handlers, inbox, contact, made, told, missed, mixed, promised, acts, faults>>

\* A row with another key, or a row for the stored id without a keyring: only a
\* backup can help.
Stuck(f) ==
  LET own == idb[f.b] IN
  /\ f.step = "listed"
  /\ IF f.keyed THEN f.seen[own.id] \notin {None, own.key} ELSE f.id \in Listed(f.seen)
  /\ Ends(f)
  /\ UNCHANGED <<rows, messages, idb, page, handlers, inbox, contact, made, told, missed, mixed, promised, acts, faults>>

\* No keyring: a new pair and a new id.
NewPair(f) ==
  LET n == <<f.b, made[f.b] + 1>>
      others == {g \in FlowsOf(f.b) \ {f} : ~g.keyed /\ g.step \in {"register", "posted", "store", "key"}}
      beside == others # {} \/ idb[f.b] # [id |-> f.id, key |-> None] IN
  /\ f.step = "listed" /\ ~f.keyed /\ f.id \notin Listed(f.seen)
  /\ made[f.b] < MaxPairs
  /\ made' = [made EXCEPT ![f.b] = @ + 1]
  /\ mixed' = mixed \cup (IF beside THEN {f.b} ELSE {})
  /\ Show(f.b, [page[f.b] EXCEPT !.dev = n],
          (flows \ {f}) \cup {[f EXCEPT !.step = "register", !.id = n, !.key = n, !.seen = Blank]})
  /\ UNCHANGED <<rows, messages, idb, handlers, inbox, contact, told, missed, promised, acts, faults>>

\* POST /users/me/devices: registerOrUpdateDevice looks for the row.
RegisterFind(f) ==
  /\ f.step = "register" /\ page[f.b].on
  /\ handlers' = handlers \cup
       {[id |-> f.id, key |-> f.key, found |-> rows[f.id], waits |-> <<f.b, f.slot>>]}
  /\ Becomes(f, [f EXCEPT !.step = "posted"])
  /\ UNCHANGED <<rows, messages, idb, page, inbox, contact, made, told, missed, mixed, promised, acts, faults>>

\* ... and writes it.  An insertion is refused when another handler inserted the
\* row meanwhile, a new key when the row was deleted meanwhile, and the page
\* tries again; a key that had not changed is not written.  A new row is announced.
\* The page stores the answer: registerDevice.fulfilled drops the listing too.
RegisterWrite(h) ==
  LET held == rows[h.id]
      refused == h.found # h.key /\ (h.found = None) # (held = None)
      insert == h.found = None /\ held = None
      caller == {f \in flows : Waits(f, h)} IN
  /\ handlers' = handlers \ {h}
  /\ rows' = IF refused \/ h.found = h.key THEN rows ELSE [rows EXCEPT ![h.id] = h.key]
  /\ IF insert THEN Emit(Requested(h.id, h.key)) ELSE UNCHANGED <<inbox, missed, faults>>
  /\ IF caller = {} THEN UNCHANGED <<page, flows>>
     ELSE \E f \in caller :
       IF refused THEN Becomes(f, [f EXCEPT !.step = "register"]) /\ UNCHANGED page
       ELSE Show(f.b, [page[f.b] EXCEPT !.dev = h.id, !.cache = "none", !.items = Blank],
                 (flows \ {f}) \cup {[f EXCEPT !.step = "store"]})
  /\ UNCHANGED <<messages, idb, contact, made, told, mixed, promised, acts>>

\* The answer is lost: retryAsync posts again, or the function gives up.
AnswerLost(f) ==
  /\ f.step = "posted" /\ Fault
  /\ handlers' = {[h EXCEPT !.waits = IF Waits(f, h) THEN None ELSE @] : h \in handlers}
  /\ Becomes(f, [f EXCEPT !.step = "register"]) \/ Ends(f)
  /\ UNCHANGED <<rows, messages, idb, page, inbox, contact, made, told, missed, mixed, promised, acts>>

\* setStoredDeviceId; a known key goes on to the evaluation, with the meta data.
StoreId(f) ==
  /\ f.step = "store"
  /\ idb' = [idb EXCEPT ![f.b].id = f.id]
  /\ IF ~f.keyed THEN Becomes(f, [f EXCEPT !.step = "key"]) /\ UNCHANGED page
     ELSE Show(f.b, [page[f.b] EXCEPT !.dev = f.id],
               (flows \ {f}) \cup {[f EXCEPT !.step = "devices", !.prior = page[f.b].sync = "pending"]})
  /\ UNCHANGED <<rows, messages, handlers, inbox, contact, made, told, missed, mixed, promised, acts, faults>>

\* storeKeyringPrivateKeyPkcs8.
StoreKey(f) ==
  /\ f.step = "key"
  /\ idb' = [idb EXCEPT ![f.b].key = f.key]
  /\ Becomes(f, [f EXCEPT !.step = "devices", !.prior = page[f.b].sync = "pending"])
  /\ UNCHANGED <<rows, messages, page, handlers, inbox, contact, made, told, missed, mixed, promised, acts, faults>>

-----------------------------------------------------------------------------
(* evaluateDeviceSyncBootstrapState.                                       *)

Wrapped(k, id) == messages[k][id] # None

\* decryptHybridMessageToUtf8: the key wrapped for the stored id is unwrapped
\* with the stored private key.
Readable(k, own) == messages[k][own.id] = own.key

\* GET /users/me/devices and GET /users/me/sync/message-keys, read together: one
\* device needs no copy, and a device without a row is refused.
Evaluate(f) ==
  LET found == \E k \in DOMAIN messages : Wrapped(k, f.id) IN
  /\ f.step = "devices" /\ page[f.b].on
  /\ Becomes(f, [f EXCEPT !.step = "set", !.next =
       IF Cardinality(Listed(rows)) > 1 /\ f.id \in Listed(rows) /\ (found => f.prior)
       THEN IF found THEN "complete" ELSE "pending"
       ELSE "idle"])
  /\ UNCHANGED <<rows, messages, idb, page, handlers, inbox, contact, made, told, missed, mixed, promised, acts, faults>>

\* The answer is dispatched; a send goes on.
SetSyncState(f) ==
  /\ f.step = "set"
  /\ Show(f.b, [page[f.b] EXCEPT !.sync = f.next],
          (flows \ {f}) \cup
            IF f.for = "send" THEN {[Call(f.b, "send", "rows") EXCEPT !.slot = f.slot]} ELSE {})
  /\ UNCHANGED <<rows, messages, idb, handlers, inbox, contact, made, told, missed, mixed, promised, acts, faults>>

-----------------------------------------------------------------------------
(* Sending: useSendEncryptedMessage and the listing of the account's own   *)
(* devices.  What the peer's listing does to a send is a failure here.     *)

\* The page shows the application: the bootstrap gate is open and
\* DeviceSyncBlockingGate does not cover it.
Shown(b) ==
  /\ page[b].on /\ page[b].sync # "pending"
  /\ \A f \in FlowsOf(b) : f.for # "boot"

Send(b) ==
  /\ Shown(b) /\ b \in Senders /\ Acts
  /\ Ensure(b, "send", page[b], flows)
  /\ UNCHANGED <<rows, messages, idb, handlers, inbox, contact, made, told, missed, mixed, promised, faults>>

\* fetchDevicePublicKeys.pending keeps the items of the entry it replaces.
Loading(q) == [q EXCEPT !.cache = "loading"]

\* usePrefetchDevicePublicKeys: a thread is opened.
Prefetch(b) ==
  /\ Shown(b) /\ b \in Senders /\ Acts
  /\ page' = [page EXCEPT ![b] = Loading(page[b])]
  /\ flows' \in Started(Call(b, "prefetch", "ask"), flows)
  /\ UNCHANGED <<rows, messages, idb, handlers, inbox, contact, made, told, missed, mixed, promised, faults>>

\* The time to live of the listing ends.
Expires(b) ==
  /\ page[b].cache = "fresh" /\ Acts
  /\ page' = [page EXCEPT ![b].cache = "old"]
  /\ UNCHANGED <<rows, messages, idb, flows, handlers, inbox, contact, made, told, missed, mixed, promised, faults>>

\* A fresh listing is used, any other is fetched again.
OwnRows(f) ==
  /\ f.step = "rows"
  /\ IF page[f.b].cache = "fresh"
     THEN Becomes(f, [f EXCEPT !.step = "wrap"]) /\ UNCHANGED page
     ELSE /\ Becomes(f, [f EXCEPT !.step = "ask"])
          /\ page' = [page EXCEPT ![f.b] = Loading(@)]
  /\ UNCHANGED <<rows, messages, idb, handlers, inbox, contact, made, told, missed, mixed, promised, acts, faults>>

FetchRead(f) ==
  /\ f.step = "ask" /\ page[f.b].on
  /\ Becomes(f, [f EXCEPT !.step = "got", !.seen = rows])
  /\ UNCHANGED <<rows, messages, idb, page, handlers, inbox, contact, made, told, missed, mixed, promised, acts, faults>>

FetchFulfilled(f) ==
  /\ f.step = "got"
  /\ page' = [page EXCEPT ![f.b].cache = "fresh", ![f.b].items = f.seen]
  /\ IF f.for = "send" THEN Becomes(f, [f EXCEPT !.step = "wrap", !.seen = Blank]) ELSE Ends(f)
  /\ UNCHANGED <<rows, messages, idb, handlers, inbox, contact, made, told, missed, mixed, promised, acts, faults>>

\* The message key is wrapped for every row of the entry as it is now, whatever
\* its status; an empty or failed entry ends the send with an error.
Wrap(f) ==
  LET items == page[f.b].items IN
  /\ f.step = "wrap"
  /\ IF Listed(items) = {} THEN Ends(f)
     ELSE Becomes(f, [f EXCEPT !.step = "post", !.seen = items, !.must = told[f.b]])
  /\ UNCHANGED <<rows, messages, idb, page, handlers, inbox, contact, made, told, missed, mixed, promised, acts, faults>>

\* The message is stored and announced.
Post(f) ==
  /\ f.step = "post" /\ page[f.b].on /\ Len(messages) < MaxMessages
  /\ messages' = Append(messages, f.seen)
  /\ Emit(MessageNew(f.seen))
  /\ Ends(f)
  /\ UNCHANGED <<rows, idb, page, handlers, contact, made, told, mixed, promised, acts>>

\* The peer's client sends with the listing it holds, or with a new one if that
\* is old: nothing tells it of a new device.
ContactSends ==
  /\ contact' \in {contact, rows}
  /\ Listed(contact') # {} /\ Len(messages) < MaxMessages /\ Acts
  /\ messages' = Append(messages, contact')
  /\ Emit(MessageNew(contact'))
  /\ UNCHANGED <<rows, idb, page, flows, handlers, made, told, mixed, promised>>

-----------------------------------------------------------------------------
(* executeApproveDeviceKeySync.                                            *)

Approve(b) ==
  LET q == page[b] IN
  /\ Shown(b) /\ q.asked # None /\ q.dev # None
  /\ \A f \in FlowsOf(b) : f.for # "approve"
  /\ flows' \in Started([Call(b, "approve", "check") EXCEPT !.src = q.dev, !.id = q.asked[1], !.key = q.asked[2],
                           !.owed = {k \in DOMAIN messages : Wrapped(k, q.dev)}], flows)
  /\ UNCHANGED <<rows, messages, idb, page, handlers, inbox, contact, made, told, missed, mixed, promised, acts, faults>>

syncDismissed(b) ==
  /\ Shown(b) /\ page[b].asked # None
  /\ \A f \in FlowsOf(b) : f.for # "approve"
  /\ page' = [page EXCEPT ![b].asked = None]
  /\ UNCHANGED <<rows, messages, idb, flows, handlers, inbox, contact, made, told, missed, mixed, promised, acts, faults>>

\* The payload must match a row, and this device must hold its private key.
Check(f) ==
  /\ f.step = "check" /\ page[f.b].on
  /\ IF rows[f.id] = f.key /\ idb[f.b].key # None
     THEN Becomes(f, [f EXCEPT !.step = "page", !.local = idb[f.b].key])
     ELSE Ends(f)
  /\ UNCHANGED <<rows, messages, idb, page, handlers, inbox, contact, made, told, missed, mixed, promised, acts, faults>>

\* Whatever request the page shows now is taken for the one that was approved.
syncCompleted(f) ==
  /\ page' = [page EXCEPT ![f.b].asked = None]
  /\ promised' = promised \cup (f.owed \X {f.id})
  /\ Ends(f)

\* Mutant: the cursor skips a message.
M_AfterCursor(f) == {k \in DOMAIN messages : k > f.at + (IF f.at = 0 THEN 0 ELSE 1) /\ Wrapped(k, f.src)}

\* listSyncMessageKeysForUserDevice: afterMessageId is an exclusive bound.
AfterCursor(f) == {k \in DOMAIN messages : k > f.at /\ Wrapped(k, f.src)}

\* The keys of this device after the cursor, at most PageSize of them.
SyncPage(f) ==
  LET after == AfterCursor(f)
      items == {k \in after : Cardinality({j \in after : j < k}) < PageSize} IN
  /\ f.step = "page" /\ page[f.b].on
  /\ IF rows[f.src] # None /\ items = {} THEN syncCompleted(f)
     ELSE /\ IF rows[f.src] = None \/ \E k \in items : messages[k][f.src] # f.local THEN Ends(f)
             ELSE Becomes(f, [f EXCEPT !.step = "batch", !.picked = items, !.more = items # after,
                                       !.at = CHOOSE k \in items : \A j \in items : j <= k])
          /\ UNCHANGED <<page, promised>>
  /\ UNCHANGED <<rows, messages, idb, handlers, inbox, contact, made, told, missed, mixed, acts, faults>>

\* Mutant: the keys are wrapped for the device that approves.
M_Rewrapped(f) == [k \in DOMAIN messages |->
  IF k \in f.picked /\ Wrapped(k, f.src) THEN [messages[k] EXCEPT ![f.id] = f.local] ELSE messages[k]]

\* applyBatchSyncMessageKeys.
Rewrapped(f) == [k \in DOMAIN messages |->
  IF k \in f.picked /\ Wrapped(k, f.src) THEN [messages[k] EXCEPT ![f.id] = f.key] ELSE messages[k]]

\* Both rows must exist; the new device is told when a key was applied.
SyncBatch(f) ==
  /\ f.step = "batch" /\ page[f.b].on
  /\ IF rows[f.id] = None \/ rows[f.src] = None
     THEN Ends(f) /\ UNCHANGED <<messages, inbox, missed, faults, page, promised>>
     ELSE /\ messages' = Rewrapped(f)
          /\ Emit(Complete(f.id))
          /\ IF f.more THEN Becomes(f, [f EXCEPT !.step = "page", !.picked = {}]) /\ UNCHANGED <<page, promised>>
             ELSE syncCompleted(f)
  /\ UNCHANGED <<rows, idb, handlers, contact, made, told, mixed, acts>>

\* NewDeviceSyncBanner: its list of devices arrives, or the tab gets the focus.
Revalidate(b) ==
  /\ Banner(page[b]) /\ Acts
  /\ flows' \in Started(Evaluation(b, page[b].dev, TRUE), flows)
  /\ UNCHANGED <<rows, messages, idb, page, handlers, inbox, contact, made, told, missed, mixed, promised, faults>>

\* ... and the trusted devices are asked again.
NotifyAgain(b) ==
  LET id == page[b].dev IN
  /\ page[b].on /\ page[b].sync = "pending" /\ id # None
  /\ rows[id] # None /\ Cardinality(Listed(rows)) >= 2 /\ Acts
  /\ Emit(Requested(id, rows[id]))
  /\ UNCHANGED <<rows, messages, idb, page, flows, handlers, contact, made, told, mixed, promised>>

-----------------------------------------------------------------------------
(* Events of the socket (SocketWorkerProvider), sign-out and failures.     *)

\* A listing read before id was registered is still to arrive.
ListingUnderWay(b, id) == \E f \in FlowsOf(b) : f.step = "got" /\ f.seen[id] = None

\* Mutant: the listing of the account's devices is kept.
M_syncRequested(q, e) == [q EXCEPT !.asked = <<e.id, e.key>>]

\* invalidateDevicePublicKeys('me') and syncRequested.
syncRequested(q, e) == [q EXCEPT !.cache = "none", !.items = Blank, !.asked = <<e.id, e.key>>]

Handle(b) ==
  LET q == page[b]
      e == Head(inbox[b])
      waits == q.sync = "pending" /\ q.dev # None
      other == e.kind = "sync_requested" /\ e.id # q.dev
      evaluates == waits /\ ( \/ e.kind = "sync_complete" /\ e.id = q.dev
                              \/ e.kind = "message:new" /\ e.wraps[q.dev] # None ) IN
  /\ inbox[b] # <<>> /\ q.on
  /\ inbox' = [inbox EXCEPT ![b] = Tail(@)]
  /\ page' = IF other THEN [page EXCEPT ![b] = syncRequested(q, e)] ELSE page
  /\ told' = IF other /\ rows[e.id] # None /\ ~ListingUnderWay(b, e.id)
             THEN [told EXCEPT ![b] = @ \cup {e.id}] ELSE told
  /\ IF evaluates THEN flows' \in Started(Evaluation(b, q.dev, e.kind = "sync_complete"), flows)
     ELSE UNCHANGED flows
  /\ UNCHANGED <<rows, messages, idb, handlers, contact, made, missed, mixed, promised, acts, faults>>

\* Sign-out: a build may delete the row of this device first, and goes on
\* whatever the answer.
Leave(b) ==
  LET id == IF page[b].dev # None THEN page[b].dev ELSE idb[b].id IN
  /\ page[b].on /\ Turns(b)
  /\ \A f \in FlowsOf(b) : f.for # "leave"
  /\ \E step \in {"leave"} \cup (IF id = None THEN {} ELSE {"revoke"}) :
       flows' \in Started([Call(b, "leave", step) EXCEPT !.id = id], flows)
  /\ UNCHANGED <<rows, messages, idb, page, handlers, inbox, contact, made, told, missed, mixed, promised, faults>>

\* deleteMyDevice: wrapped keys stay in the messages.
Revoke(f) ==
  /\ f.step = "revoke" /\ page[f.b].on
  /\ rows' = [rows EXCEPT ![f.id] = None]
  /\ told' = [b \in Browsers |-> told[b] \ {f.id}]
  /\ Becomes(f, [f EXCEPT !.step = "leave"])
  /\ UNCHANGED <<messages, idb, page, handlers, inbox, contact, made, missed, mixed, promised, acts, faults>>

logout(f) ==
  /\ f.step = "leave"
  /\ page' = [page EXCEPT ![f.b] = [cryptoInitialState EXCEPT !.on = FALSE]]
  /\ inbox' = [inbox EXCEPT ![f.b] = <<>>]
  /\ told' = [told EXCEPT ![f.b] = {}]
  /\ Ends(f)
  /\ UNCHANGED <<rows, messages, idb, handlers, contact, made, missed, mixed, promised, acts, faults>>

\* A request fails, as every request of a page that is signed out does: an
\* evaluation then answers idle, a fetch leaves a failed entry, sign-out goes
\* on, and any other function ends.
Fails(f) ==
  /\ f.step \in {"list", "register", "devices", "ask", "post", "check", "page", "batch", "revoke"}
  /\ IF page[f.b].on THEN Fault ELSE UNCHANGED faults
  /\ IF f.step = "ask"
     THEN page' = [page EXCEPT ![f.b].cache = "failed", ![f.b].items = Blank]
     ELSE UNCHANGED page
  /\ IF f.step = "devices" THEN Becomes(f, [f EXCEPT !.step = "set", !.next = "idle"])
     ELSE IF f.step = "revoke" THEN Becomes(f, [f EXCEPT !.step = "leave"])
     ELSE Ends(f)
  /\ UNCHANGED <<rows, messages, idb, handlers, inbox, contact, made, told, missed, mixed, promised, acts>>

Step(f) ==
  \/ List(f) \/ Keyed(f) \/ Stuck(f) \/ NewPair(f) \/ RegisterFind(f) \/ AnswerLost(f)
  \/ StoreId(f) \/ StoreKey(f) \/ Evaluate(f) \/ SetSyncState(f)
  \/ OwnRows(f) \/ FetchRead(f) \/ FetchFulfilled(f) \/ Wrap(f) \/ Post(f)
  \/ Check(f) \/ SyncPage(f) \/ SyncBatch(f) \/ Revoke(f) \/ logout(f) \/ Fails(f)

Next ==
  \/ \E b \in Browsers : \/ SignIn(b) \/ Reload(b) \/ Visible(b) \/ Send(b) \/ Prefetch(b) \/ Expires(b)
                         \/ Approve(b) \/ syncDismissed(b) \/ Revalidate(b) \/ NotifyAgain(b) \/ Handle(b) \/ Leave(b)
  \/ \E f \in flows : (f.b \in mixed => Follow) /\ Step(f)
  \/ \E h \in handlers : RegisterWrite(h)
  \/ ContactSends

Spec == Init /\ [][Next]_vars

-----------------------------------------------------------------------------
(* Properties.                                                             *)

\* The key a browser holds is the one registered for its device id: what others
\* wrap for the id it can unwrap.  Not so once two bootstraps of one page
\* generated pairs at once: each stores its id and its key, in any order.
KeyringMatchesDirectory ==
  \A b \in Browsers \ mixed : LET own == idb[b] IN
    own.id # None /\ own.key # None => rows[own.id] \in {None, own.key}

\* A message key wrapped for the id of a browser, by a send or by an approval,
\* was wrapped for the key it holds, across sign-outs and registrations anew.
WrapsAreReadable ==
  \A b \in Browsers \ mixed : LET own == idb[b] IN
    own.id # None /\ own.key # None =>
      \A k \in DOMAIN messages : Wrapped(k, own.id) => Readable(k, own)

\* An approval that reports success has copied the key of every message its own
\* device could read when it began, whatever was sent or signed out meanwhile.
ApprovedIsCopied == \A p \in promised : messages[p[1]][p[2]] # None

\* Once a page has handled the announcement of a device, it sends no message
\* without a key for it, unless a listing read earlier was under way then.
ToldIsWrapped == \A f \in flows : f.step = "post" => f.must \subseteq Listed(f.seen)

\* A page that waits for keys, while a message is wrapped for its device, is
\* about to find out: an evaluation has yet to read or has found them, or an
\* event is on its way.
NoNeedlessBlock ==
  \A b \in Browsers : LET q == page[b] IN
    Banner(q) /\ q.dev \in Listed(rows) /\ b \notin missed
      /\ (\E k \in DOMAIN messages : Wrapped(k, q.dev)) =>
      \/ \E f \in FlowsOf(b) : f.id = q.dev /\ ( \/ f.step = "devices"
                                                 \/ f.step = "set" /\ f.next # "pending" )
      \/ \E k \in DOMAIN inbox[b] :
           \/ inbox[b][k] = Complete(q.dev)
           \/ inbox[b][k].wraps[q.dev] # None
=============================================================================
