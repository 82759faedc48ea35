---------------------------- MODULE DevicesProofs ----------------------------
(***************************************************************************)
(* The devices of a user, for any number of them and of faults.            *)
(*                                                                         *)
(* DeviceSync: a browser generates an id and a key together, and whoever   *)
(* lists, announces, posts or approves the id names that key, so the       *)
(* directory and the wrapped keys stay readable.  An approval walks the    *)
(* messages in their order and skips none.  A page that was told of a      *)
(* device knows it in every listing it may send with, and a page that      *)
(* waits for keys it already has is about to find out.                     *)
(*                                                                         *)
(* CallSession: calls are numbered, each is offered once and to nobody who *)
(* is in it, and answers and hang-ups come from those who gave them; so no *)
(* page enters a call that was not answered, comes back to one it has left *)
(* or keeps a connection without a session.                                *)
(***************************************************************************)
EXTENDS CallSession, DeviceSync, SequenceLemmas, FiniteSetTheorems

-----------------------------------------------------------------------------
(* The keys of one account.                                                *)

Handler == [id: Pairs, key: Pairs, found: Pairs \cup {None}, waits: {None} \cup (Browsers \X Slots)]
Event == [kind: {"sync_requested", "sync_complete", "message:new"},
          id: Pairs \cup {None}, key: Pairs \cup {None}, wraps: Listings]
Heard(b) == {inbox[b][k] : k \in DOMAIN inbox[b]}

\* Steps of a flow that registers a key pair, and of one that copies message keys.
Registering == {"register", "posted", "store", "key"}
Copying == {"check", "page", "batch"}

SyncTypes ==
  /\ rows \in Listings /\ contact \in Listings
  /\ messages \in Seq(Listings) /\ Len(messages) <= MaxMessages
  /\ idb \in [Browsers -> [id: Pairs \cup {None}, key: Pairs \cup {None}]]
  /\ page \in [Browsers -> Page] /\ flows \subseteq Flow /\ handlers \subseteq Handler
  /\ inbox \in [Browsers -> Seq(Event)]
  /\ made \in [Browsers -> 0 .. MaxPairs] /\ told \in [Browsers -> SUBSET Pairs]
  /\ missed \subseteq Browsers /\ mixed \subseteq Browsers
  /\ promised \subseteq (1 .. MaxMessages) \X Pairs

\* What registers or copies has a pair to do it for, and goes on with a keyring only
\* where there is one; only a message carries wrapped keys.
Ready(f) ==
  /\ f.keyed => idb[f.b].key # None /\ f.step # "key"
  /\ f.step = "key" => idb[f.b].id # None
  /\ f.step \in Registering \cup Copying => f.id # None /\ f.key # None
  /\ f.step \in Copying => f.src # None
Meant(e) ==
  /\ e.kind = "sync_requested" => e.id # None /\ e.key # None
  /\ e.kind # "message:new" => e.wraps = Blank

\* A browser stores its id before its key.
Provided ==
  /\ \A b \in Browsers : idb[b].key # None => idb[b].id # None
  /\ \A f \in flows : Ready(f)
  /\ \A b \in Browsers : \A e \in Heard(b) : Meant(e)

LEMMA PairsAreSome == \A i \in Pairs : i # None /\ i \in Browsers \X (1 .. MaxPairs)
BY DEF Pairs, None

LEMMA BlankFacts == Blank \in Listings /\ Listed(Blank) = {} /\ \A i \in Pairs : Blank[i] = None
BY DEF Blank, Listings, Listed

\* Every bounded set of numbers has a greatest element.
LEMMA GreatestOf ==
  ASSUME NEW n \in Nat, NEW S \in SUBSET (0 .. n), S # {}
  PROVE  \E x \in S : \A y \in S : y <= x
<1> DEFINE T == {n - x : x \in S}
<1>1. T \in SUBSET Nat /\ T # {}
  <2>1. \A x \in S : x \in 0 .. n /\ n - x \in Nat
    OBVIOUS
  <2> QED
    BY <2>1
<1>2. PICK t \in T : \A u \in T : t <= u
  BY <1>1, LeastOf
<1>3. PICK x \in S : t = n - x
  OBVIOUS
<1>4. ASSUME NEW y \in S PROVE y <= x
  <2>1. n - x <= n - y
    BY <1>2, <1>3
  <2> QED
    BY <2>1
<1> QED
  BY <1>4

\* What a flow keeps through all of its steps.
Alike(f, g) == g.b = f.b /\ g.slot = f.slot /\ g.keyed = f.keyed /\ g.owed = f.owed /\ g.src = f.src
Named(f, g) == g.id = f.id /\ g.key = f.key

\* A flow that has just been called.
Begun(g, b, step, id) ==
  /\ g \in Flow /\ g.b = b /\ g.step = step /\ g.id = id /\ g.seen = Blank

Opening == [b: Browsers, slot: {0}, for: {"boot", "ensure", "send", "evaluate", "prefetch", "approve", "leave"},
            step: {"list", "devices", "rows", "ask", "check", "revoke", "leave"},
            id: Pairs \cup {None}, key: Pairs \cup {None}, src: Pairs \cup {None},
            local: {None}, keyed: BOOLEAN, prior: BOOLEAN, next: {"idle"},
            seen: {Blank}, at: {0}, picked: {{}}, more: {FALSE},
            owed: SUBSET (1 .. MaxMessages), must: {{}}]

LEMMA StartedDoes ==
  ASSUME NEW f \in Opening, NEW running \in SUBSET Flow, NEW some \in Started(f, running)
  PROVE  \E g \in Flow : /\ some = running \cup {g} /\ g.b = f.b /\ g.step = f.step /\ g.for = f.for
                         /\ g.id = f.id /\ g.key = f.key /\ g.src = f.src /\ g.keyed = f.keyed /\ g.seen = Blank
                         /\ g.at = 0 /\ g.owed = f.owed /\ g.prior = f.prior
<1>1. PICK s \in Slots : some = running \cup {[f EXCEPT !.slot = s]}
  BY DEF Started, Free
<1> DEFINE g == [f EXCEPT !.slot = s]
<1>2. /\ g.b = f.b /\ g.step = f.step /\ g.for = f.for /\ g.prior = f.prior
      /\ g.id = f.id /\ g.key = f.key /\ g.src = f.src /\ g.keyed = f.keyed /\ g.seen = Blank
      /\ g.at = 0 /\ g.owed = f.owed
  BY DEF Opening
<1>3. g = [b |-> f.b, slot |-> s, for |-> f.for, step |-> f.step, id |-> f.id, key |-> f.key, src |-> f.src,
           local |-> f.local, keyed |-> f.keyed, prior |-> f.prior, next |-> f.next, seen |-> f.seen, at |-> f.at,
           picked |-> f.picked, more |-> f.more, owed |-> f.owed, must |-> f.must]
  BY DEF Opening
<1>4. /\ f.b \in Browsers /\ f.for \in {"boot", "ensure", "send", "evaluate", "prefetch", "approve", "leave"}
      /\ f.step \in {"list", "devices", "rows", "ask", "check", "revoke", "leave"}
      /\ f.id \in Pairs \cup {None} /\ f.key \in Pairs \cup {None} /\ f.src \in Pairs \cup {None}
      /\ f.local \in Pairs \cup {None} /\ f.keyed \in BOOLEAN /\ f.prior \in BOOLEAN
      /\ f.next \in {"idle", "pending", "complete"} /\ f.seen = Blank /\ f.at = 0 /\ f.picked = {}
      /\ f.more \in BOOLEAN /\ f.owed \in SUBSET (1 .. MaxMessages) /\ f.must = {}
  BY DEF Opening
<1>5. f.seen \in Listings /\ f.at \in 0 .. MaxMessages /\ f.picked \in SUBSET (1 .. MaxMessages)
      /\ f.must \in SUBSET Pairs
  BY <1>4, DeviceAssumption, BlankFacts
<1> HIDE DEF g
<1>6. g \in Flow
  BY <1>3, <1>4, <1>5 DEF Flow
<1> QED
  BY <1>1, <1>2, <1>6 DEF g

LEMMA CallTyped ==
  ASSUME NEW b \in Browsers, NEW for, NEW step,
         for \in {"boot", "ensure", "send", "evaluate", "prefetch", "approve", "leave"},
         step \in {"list", "devices", "rows", "ask", "check", "revoke", "leave"}
  PROVE  Call(b, for, step) \in Opening
<1>1. None \in Pairs \cup {None} /\ FALSE \in BOOLEAN /\ {} \in SUBSET (1 .. MaxMessages)
  OBVIOUS
<1> QED
  BY <1>1 DEF Call, Opening

LEMMA CallFields ==
  ASSUME NEW f \in Opening, NEW id \in Pairs \cup {None}, NEW is \in BOOLEAN
  PROVE  /\ [f EXCEPT !.id = id] \in Opening /\ [f EXCEPT !.prior = is] \in Opening
         /\ [f EXCEPT !.keyed = is] \in Opening
BY Zenon DEF Opening

\* What Show, Ensure and Emit do.
Shows(b, q, running) ==
  /\ page' \in [Browsers -> Page] /\ page'[b] = q
  /\ \A e \in Browsers \ {b} : page'[e] = page[e]
  /\ flows' \subseteq Flow /\ running \subseteq flows'
  /\ \A g \in flows' \ running : Begun(g, b, "devices", q.dev) /\ ~g.keyed
  /\ Banner(q) /\ ~(Banner(page[b]) /\ page[b].dev = q.dev) =>
       \E g \in flows' : g.b = b /\ g.step = "devices" /\ g.id = q.dev

LEMMA ShowDoes ==
  ASSUME SyncTypes, NEW b \in Browsers, NEW q \in Page, NEW running \in SUBSET Flow, Show(b, q, running)
  PROVE  Shows(b, q, running)
<1>1. /\ page' \in [Browsers -> Page] /\ page'[b] = q
      /\ \A e \in Browsers \ {b} : page'[e] = page[e]
  BY DEF SyncTypes, Show
<1> DEFINE begins == Banner(q) /\ ~(Banner(page[b]) /\ page[b].dev = q.dev)
<1>2. CASE begins
  <2> DEFINE f == Evaluation(b, q.dev, TRUE)
  <2>1. flows' \in Started(f, running)
    BY <1>2 DEF Show
  <2>2. Call(b, "evaluate", "devices") \in Opening /\ q.dev \in Pairs \cup {None}
    BY CallTyped DEF Page
  <2>3. f \in Opening
    BY <2>2, CallFields DEF Evaluation
  <2>4. f.b = b /\ f.step = "devices" /\ f.id = q.dev /\ ~f.keyed
    BY DEF Evaluation, Call
  <2> HIDE DEF f
  <2>5. PICK g \in Flow : /\ flows' = running \cup {g} /\ g.b = f.b /\ g.step = f.step
                          /\ g.id = f.id /\ g.keyed = f.keyed /\ g.seen = Blank
    BY <2>1, <2>3, StartedDoes
  <2> QED
    BY <1>1, <2>4, <2>5 DEF Shows, Begun
<1>3. CASE ~begins
  <2>1. flows' = running
    BY <1>3 DEF Show
  <2> QED
    BY <1>1, <1>3, <2>1 DEF Shows
<1> QED
  BY <1>2, <1>3

\* ensureUserKeypairReadyForMessaging has been called.
Opens(g, b) == Begun(g, b, "list", idb[b].id) /\ g.keyed = (idb[b].key # None)

LEMMA EnsureDoes ==
  ASSUME SyncTypes, NEW b \in Browsers, NEW for \in {"boot", "ensure", "send"}, NEW q \in Page,
         Ensure(b, for, q, flows)
  PROVE  \E p \in Page, g \in Flow :
           /\ p.on = q.on /\ p.items = q.items /\ p.asked = q.asked /\ p.sync = q.sync
           /\ Opens(g, b) /\ Shows(b, p, flows \cup {g})
<1> DEFINE p == [q EXCEPT !.dev = IF idb[b].id # None THEN idb[b].id ELSE @]
           f == [Call(b, for, "list") EXCEPT !.id = idb[b].id, !.keyed = idb[b].key # None]
<1>1. PICK some \in Started(f, flows) : Show(b, p, some)
  BY DEF Ensure
<1>2. idb[b].id \in Pairs \cup {None} /\ flows \in SUBSET Flow
  BY DEF SyncTypes
<1>3. /\ p \in Page /\ p.on = q.on /\ p.items = q.items /\ p.asked = q.asked /\ p.sync = q.sync
  BY <1>2 DEF Page
<1>4. Call(b, for, "list") \in Opening
  BY CallTyped
<1>5. f \in Opening
  BY <1>2, <1>4, CallFields
<1>6. f.b = b /\ f.step = "list" /\ f.id = idb[b].id /\ f.keyed = (idb[b].key # None)
  BY DEF Call
<1> HIDE DEF f, p
<1>7. PICK g \in Flow : /\ some = flows \cup {g} /\ g.b = f.b /\ g.step = f.step
                        /\ g.id = f.id /\ g.keyed = f.keyed /\ g.seen = Blank
  BY <1>1, <1>2, <1>5, StartedDoes
<1>8. Opens(g, b)
  BY <1>6, <1>7 DEF Opens, Begun
<1>9. Shows(b, p, flows \cup {g})
  BY <1>1, <1>2, <1>3, <1>7, ShowDoes
<1> QED
  BY <1>3, <1>8, <1>9

LEMMA SpreadDoes ==
  ASSUME SyncTypes, NEW e \in Event, Emit(e)
  PROVE  /\ inbox' \in [Browsers -> Seq(Event)] /\ missed' \subseteq Browsers /\ missed \subseteq missed'
         /\ \A b \in Browsers : /\ Heard(b)' \subseteq Heard(b) \cup {e} /\ Heard(b) \subseteq Heard(b)'
                                /\ page[b].on => b \in missed' \/ e \in Heard(b)'
<1> DEFINE pages == {b \in Browsers : page[b].on}
<1>1. PICK lost \in SUBSET pages :
        /\ missed' = missed \cup lost
        /\ inbox' = [b \in Browsers |-> IF b \in pages \ lost THEN Append(inbox[b], e) ELSE inbox[b]]
  BY DEF Emit
<1>2. missed' \subseteq Browsers /\ missed \subseteq missed'
  BY <1>1 DEF SyncTypes
<1>3. ASSUME NEW b \in Browsers
      PROVE  /\ inbox'[b] \in Seq(Event) /\ Heard(b)' \subseteq Heard(b) \cup {e} /\ Heard(b) \subseteq Heard(b)'
             /\ page[b].on => b \in missed' \/ e \in Heard(b)'
  <2>1. inbox[b] \in Seq(Event)
    BY DEF SyncTypes
  <2>2. CASE b \in pages \ lost
    <3>1. inbox'[b] = Append(inbox[b], e)
      BY <1>1, <2>2
    <3>2. /\ Append(inbox[b], e) \in Seq(Event)
          /\ DOMAIN Append(inbox[b], e) = DOMAIN inbox[b] \cup {Len(inbox[b]) + 1}
          /\ \A k \in DOMAIN inbox[b] : Append(inbox[b], e)[k] = inbox[b][k]
          /\ Append(inbox[b], e)[Len(inbox[b]) + 1] = e
      BY <2>1
    <3> QED
      BY <3>1, <3>2 DEF Heard
  <2>3. CASE b \notin pages \ lost
    <3>1. inbox'[b] = inbox[b]
      BY <1>1, <2>3
    <3> QED
      BY <1>1, <2>1, <2>3, <3>1 DEF Heard
  <2> QED
    BY <2>2, <2>3
<1>4. inbox' \in [Browsers -> Seq(Event)]
  BY <1>1, <1>3
<1> QED
  BY <1>2, <1>3, <1>4

LEMMA EventsTyped ==
  ASSUME NEW i \in Pairs, NEW k \in Pairs \cup {None}, NEW wraps \in Listings
  PROVE  Requested(i, k) \in Event /\ Complete(i) \in Event /\ MessageNew(wraps) \in Event
BY BlankFacts DEF Requested, Complete, MessageNew, Event

-----------------------------------------------------------------------------
(* What the steps of the account's pages do.                               *)

LEMMA OpensDoes ==
  ASSUME SyncTypes, NEW b \in Browsers, SignIn(b) \/ Visible(b) \/ Send(b)
  PROVE  \E p \in Page, g \in Flow :
           /\ p.items = page[b].items /\ p.asked = page[b].asked /\ p.sync = page[b].sync
           /\ Opens(g, b) /\ Shows(b, p, flows \cup {g})
<1>1. page[b] \in Page
  BY DEF SyncTypes
<1>2. CASE SignIn(b)
  <2> DEFINE q == [page[b] EXCEPT !.on = TRUE]
  <2>1. q \in Page /\ q.items = page[b].items /\ q.asked = page[b].asked /\ q.sync = page[b].sync
    BY <1>1 DEF Page
  <2>2. Ensure(b, "boot", q, flows)
    BY <1>2 DEF SignIn
  <2> HIDE DEF q
  <2>3. PICK p \in Page, g \in Flow :
          /\ p.items = q.items /\ p.asked = q.asked /\ p.sync = q.sync
          /\ Opens(g, b) /\ Shows(b, p, flows \cup {g})
    BY <2>1, <2>2, EnsureDoes
  <2> QED
    BY <2>1, <2>3
<1>3. CASE Visible(b)
  <2>1. Ensure(b, "ensure", page[b], flows)
    BY <1>3 DEF Visible
  <2> QED
    BY <1>1, <2>1, EnsureDoes
<1>4. CASE Send(b)
  <2>1. Ensure(b, "send", page[b], flows)
    BY <1>4 DEF Send
  <2> QED
    BY <1>1, <2>1, EnsureDoes
<1> QED
  BY <1>2, <1>3, <1>4

LEMMA ReloadDoes ==
  ASSUME SyncTypes, NEW b \in Browsers, Reload(b)
  PROVE  /\ page' \in [Browsers -> Page] /\ \A e \in Browsers \ {b} : page'[e] = page[e]
         /\ page'[b].items = Blank /\ page'[b].asked = None /\ page'[b].sync = "idle"
         /\ \E g \in Flow : Opens(g, b) /\ flows' = (flows \ FlowsOf(b)) \cup {g}
         /\ handlers' \subseteq Handler
         /\ \A h \in handlers' : \E k \in handlers : h.id = k.id /\ h.key = k.key /\ h.found = k.found
         /\ inbox' \in [Browsers -> Seq(Event)] /\ Heard(b)' = {}
         /\ \A e \in Browsers \ {b} : Heard(e)' = Heard(e)
         /\ told' \in [Browsers -> SUBSET Pairs] /\ told'[b] = {}
         /\ \A e \in Browsers \ {b} : told'[e] = told[e]
<1> DEFINE q == [cryptoInitialState EXCEPT !.dev = idb[b].id]
           f == [Call(b, "boot", "list") EXCEPT !.id = idb[b].id, !.keyed = idb[b].key # None]
<1>1. idb[b].id \in Pairs \cup {None} /\ flows \ FlowsOf(b) \in SUBSET Flow /\ handlers \subseteq Handler
  BY DEF SyncTypes
<1>2. q \in Page /\ q.items = Blank /\ q.asked = None /\ q.sync = "idle"
  BY <1>1, BlankFacts DEF cryptoInitialState, Page
<1>3. Call(b, "boot", "list") \in Opening
  BY CallTyped
<1>4. f \in Opening
  BY <1>1, <1>3, CallFields
<1>5. f.b = b /\ f.step = "list" /\ f.id = idb[b].id /\ f.keyed = (idb[b].key # None)
  BY DEF Call
<1>6. /\ page' = [page EXCEPT ![b] = q]
      /\ flows' \in Started(f, flows \ FlowsOf(b))
      /\ inbox' = [inbox EXCEPT ![b] = <<>>] /\ told' = [told EXCEPT ![b] = {}]
      /\ handlers' = {[h EXCEPT !.waits = IF \E g \in FlowsOf(b) : Waits(g, h) THEN None ELSE @] : h \in handlers}
  BY DEF Reload
<1> HIDE DEF f, q
<1>7. page' \in [Browsers -> Page] /\ page'[b] = q /\ \A e \in Browsers \ {b} : page'[e] = page[e]
  BY <1>2, <1>6 DEF SyncTypes
<1>8. \E g \in Flow : Opens(g, b) /\ flows' = (flows \ FlowsOf(b)) \cup {g}
  <2>1. PICK g \in Flow : /\ flows' = (flows \ FlowsOf(b)) \cup {g} /\ g.b = f.b /\ g.step = f.step
                          /\ g.id = f.id /\ g.keyed = f.keyed /\ g.seen = Blank
    BY <1>1, <1>4, <1>6, StartedDoes
  <2> QED
    BY <1>5, <2>1 DEF Opens, Begun
<1>9. /\ handlers' \subseteq Handler
      /\ \A h \in handlers' : \E k \in handlers : h.id = k.id /\ h.key = k.key /\ h.found = k.found
  BY <1>1, <1>6 DEF Handler
<1>10. inbox' \in [Browsers -> Seq(Event)] /\ inbox'[b] = <<>> /\ \A e \in Browsers \ {b} : inbox'[e] = inbox[e]
  <2>1. <<>> \in Seq(Event)
    OBVIOUS
  <2> QED
    BY <1>6, <2>1 DEF SyncTypes
<1>11. Heard(b)' = {} /\ \A e \in Browsers \ {b} : Heard(e)' = Heard(e)
  <2>1. DOMAIN <<>> = {}
    OBVIOUS
  <2> QED
    BY <1>10, <2>1 DEF Heard
<1>12. /\ told' \in [Browsers -> SUBSET Pairs] /\ told'[b] = {}
       /\ \A e \in Browsers \ {b} : told'[e] = told[e]
  BY <1>6 DEF SyncTypes
<1> QED
  BY <1>2, <1>7, <1>8, <1>9, <1>10, <1>11, <1>12

\* The page of b changes as follows, and no other one.
Turned(b) == page' \in [Browsers -> Page] /\ \A e \in Browsers \ {b} : page'[e] = page[e]

LEMMA PrefetchDoes ==
  ASSUME SyncTypes, NEW b \in Browsers, Prefetch(b)
  PROVE  /\ Turned(b) /\ page'[b].items = page[b].items /\ page'[b].asked = page[b].asked
         /\ page'[b].sync = page[b].sync /\ page'[b].dev = page[b].dev /\ page'[b].on = page[b].on
         /\ \E g \in Flow : Begun(g, b, "ask", None) /\ ~g.keyed /\ flows' = flows \cup {g}
<1>1. page[b] \in Page /\ flows \in SUBSET Flow
  BY DEF SyncTypes
<1>2. Loading(page[b]) \in Page /\ Loading(page[b]) = [page[b] EXCEPT !.cache = "loading"]
  BY <1>1 DEF Loading, Page
<1>3. Turned(b) /\ page'[b] = Loading(page[b])
  BY <1>2 DEF Prefetch, Turned, SyncTypes
<1>4. Call(b, "prefetch", "ask") \in Opening
  BY CallTyped
<1>5. PICK g \in Flow : /\ flows' = flows \cup {g} /\ g.b = b /\ g.step = "ask"
                        /\ g.id = None /\ ~g.keyed /\ g.seen = Blank
  <2>1. flows' \in Started(Call(b, "prefetch", "ask"), flows)
    BY DEF Prefetch
  <2>2. LET f == Call(b, "prefetch", "ask") IN f.b = b /\ f.step = "ask" /\ f.id = None /\ ~f.keyed
    BY DEF Call
  <2> QED
    BY <1>1, <1>4, <2>1, <2>2, StartedDoes
<1> QED
  BY <1>1, <1>2, <1>3, <1>5 DEF Begun, Page

LEMMA PageDoes ==
  ASSUME SyncTypes, NEW b \in Browsers, Expires(b) \/ syncDismissed(b)
  PROVE  /\ Turned(b) /\ page'[b].items = page[b].items /\ page'[b].asked \in {None, page[b].asked}
         /\ page'[b].sync = page[b].sync /\ page'[b].dev = page[b].dev /\ page'[b].on = page[b].on
<1>1. page \in [Browsers -> Page] /\ page[b] \in Page
  BY DEF SyncTypes
<1>2. CASE Expires(b)
  <2>1. page' = [page EXCEPT ![b].cache = "old"]
    BY <1>2 DEF Expires
  <2>2. page'[b] = [page[b] EXCEPT !.cache = "old"] /\ \A e \in Browsers \ {b} : page'[e] = page[e]
    BY <1>1, <2>1
  <2>3. page'[b] \in Page
    BY <1>1, <2>2 DEF Page
  <2>4. page' \in [Browsers -> Page]
    BY <1>1, <2>1, <2>2, <2>3
  <2> QED
    BY <1>1, <2>2, <2>4 DEF Turned, Page
<1>3. CASE syncDismissed(b)
  <2>1. page' = [page EXCEPT ![b].asked = None]
    BY <1>3 DEF syncDismissed
  <2>2. page'[b] = [page[b] EXCEPT !.asked = None] /\ \A e \in Browsers \ {b} : page'[e] = page[e]
    BY <1>1, <2>1
  <2>3. page'[b] \in Page
    BY <1>1, <2>2 DEF Page
  <2>4. page' \in [Browsers -> Page]
    BY <1>1, <2>1, <2>2, <2>3
  <2> QED
    BY <1>1, <2>2, <2>4 DEF Turned, Page
<1> QED
  BY <1>2, <1>3

LEMMA ApproveDoes ==
  ASSUME SyncTypes, NEW b \in Browsers, Approve(b)
  PROVE  /\ page[b].asked # None /\ page[b].asked \in Pairs \X Pairs /\ page[b].dev # None
         /\ \E g \in Flow : /\ g.b = b /\ g.step = "check" /\ ~g.keyed /\ g.seen = Blank /\ g.at = 0
                            /\ g.src = page[b].dev /\ g.id = page[b].asked[1] /\ g.key = page[b].asked[2]
                            /\ g.owed = {k \in DOMAIN messages : Wrapped(k, page[b].dev)}
                            /\ flows' = flows \cup {g}
<1> DEFINE q == page[b]
           owed == {k \in DOMAIN messages : Wrapped(k, q.dev)}
           c == Call(b, "approve", "check")
           f == [c EXCEPT !.src = q.dev, !.id = q.asked[1], !.key = q.asked[2], !.owed = owed]
<1>1. q \in Page /\ flows \in SUBSET Flow /\ messages \in Seq(Listings) /\ Len(messages) <= MaxMessages
  BY DEF SyncTypes
<1>2. q.asked # None /\ q.asked \in Pairs \X Pairs /\ q.dev # None /\ q.dev \in Pairs
  BY <1>1 DEF Approve, Page
<1>3. owed \in SUBSET (1 .. MaxMessages)
  BY <1>1, DeviceAssumption
<1>4. c \in Opening /\ c.b = b /\ c.step = "check" /\ ~c.keyed
  BY CallTyped DEF Call
<1> HIDE DEF c
<1>5. flows' \in Started(f, flows)
  BY DEF Approve, c
<1> HIDE DEF owed
<1>6. /\ f \in Opening /\ f.b = b /\ f.step = "check" /\ ~f.keyed /\ f.src = q.dev
      /\ f.id = q.asked[1] /\ f.key = q.asked[2] /\ f.owed = owed
  <2> DEFINE i == q.asked[1]
             k == q.asked[2]
             dev == q.dev
  <2>1. i \in Pairs /\ k \in Pairs /\ dev \in Pairs
    BY <1>2
  <2>2. f = [c EXCEPT !.src = dev, !.id = i, !.key = k, !.owed = owed]
    OBVIOUS
  <2> HIDE DEF i, k, dev, f
  <2>3. f \in Opening /\ f.b = c.b /\ f.step = c.step /\ f.keyed = c.keyed /\ f.src = dev
        /\ f.id = i /\ f.key = k /\ f.owed = owed
    BY <1>3, <1>4, <2>1, <2>2 DEF Opening
  <2> QED
    BY <1>4, <2>3 DEF i, k, dev
<1> HIDE DEF f
<1>7. PICK g \in Flow : /\ flows' = flows \cup {g} /\ g.b = f.b /\ g.step = f.step
                        /\ g.id = f.id /\ g.key = f.key /\ g.src = f.src /\ g.keyed = f.keyed /\ g.seen = Blank
                        /\ g.at = 0 /\ g.owed = f.owed
  BY <1>1, <1>5, <1>6, StartedDoes
<1> QED
  BY <1>2, <1>6, <1>7 DEF owed

LEMMA RevalidateDoes ==
  ASSUME SyncTypes, NEW b \in Browsers, Revalidate(b)
  PROVE  \E g \in Flow : Begun(g, b, "devices", page[b].dev) /\ ~g.keyed /\ flows' = flows \cup {g}
<1>1. page[b] \in Page /\ page[b].dev \in Pairs \cup {None} /\ flows \in SUBSET Flow
  BY DEF SyncTypes, Page
<1> DEFINE f == Evaluation(b, page[b].dev, TRUE)
<1>2. Call(b, "evaluate", "devices") \in Opening
  BY CallTyped
<1>3. f \in Opening /\ f.b = b /\ f.step = "devices" /\ f.id = page[b].dev /\ ~f.keyed
  BY <1>1, <1>2, CallFields DEF Evaluation, Call
<1>4. flows' \in Started(f, flows)
  BY DEF Revalidate
<1> HIDE DEF f
<1> QED
  BY <1>1, <1>3, <1>4, StartedDoes DEF Begun

LEMMA LeaveDoes ==
  ASSUME SyncTypes, NEW b \in Browsers, Leave(b)
  PROVE  \E g \in Flow : /\ g.b = b /\ g.step \in {"leave", "revoke"} /\ ~g.keyed /\ g.seen = Blank
                         /\ flows' = flows \cup {g}
                         /\ g.step = "revoke" => g.id # None
<1> DEFINE id == IF page[b].dev # None THEN page[b].dev ELSE idb[b].id
<1>1. id \in Pairs \cup {None} /\ flows \in SUBSET Flow
  BY DEF SyncTypes, Page
<1>2. PICK step \in {"leave", "revoke"} : /\ step = "revoke" => id # None
                                          /\ flows' \in Started([Call(b, "leave", step) EXCEPT !.id = id], flows)
  BY DEF Leave
<1> DEFINE f == [Call(b, "leave", step) EXCEPT !.id = id]
<1> HIDE DEF id
<1>3. Call(b, "leave", step) \in Opening
  BY CallTyped
<1>4. f \in Opening /\ f.b = b /\ f.step = step /\ f.id = id /\ ~f.keyed
  BY <1>1, <1>3, CallFields DEF Call
<1>5. flows' \in Started(f, flows)
  BY <1>2
<1> HIDE DEF f
<1>6. PICK g \in Flow : /\ flows' = flows \cup {g} /\ g.b = f.b /\ g.step = f.step
                        /\ g.id = f.id /\ g.keyed = f.keyed /\ g.seen = Blank
  BY <1>1, <1>4, <1>5, StartedDoes
<1> QED
  BY <1>2, <1>4, <1>6

LEMMA HandleDoes ==
  ASSUME SyncTypes, Provided, NEW b \in Browsers, Handle(b)
  PROVE  LET e == Head(inbox[b]) IN
         /\ e \in Heard(b) /\ inbox' \in [Browsers -> Seq(Event)]
         /\ Heard(b)' \subseteq Heard(b) /\ Heard(b) \subseteq Heard(b)' \cup {e}
         /\ \A a \in Browsers \ {b} : Heard(a)' = Heard(a)
         /\ Turned(b) /\ page'[b].sync = page[b].sync /\ page'[b].dev = page[b].dev /\ page'[b].on = page[b].on
         /\ \/ page'[b].asked = page[b].asked
            \/ e.kind = "sync_requested" /\ page'[b].asked = <<e.id, e.key>>
         /\ told' \in [Browsers -> SUBSET Pairs] /\ \A a \in Browsers \ {b} : told'[a] = told[a]
         /\ \/ told'[b] = told[b] /\ page'[b].items \in {Blank, page[b].items}
            \/ /\ page'[b].items = Blank
               /\ \E i \in Listed(rows) : told'[b] = told[b] \cup {i} /\ ~ListingUnderWay(b, i)
         /\ flows' \subseteq Flow /\ flows \subseteq flows'
         /\ \A g \in flows' \ flows : Begun(g, b, "devices", page[b].dev) /\ ~g.keyed
         /\ Banner(page[b]) /\ (e = Complete(page[b].dev) \/ e.wraps[page[b].dev] # None) =>
              \E g \in flows' : g.b = b /\ g.step = "devices" /\ g.id = page[b].dev
<1> DEFINE q == page[b]
           e == Head(inbox[b])
           waits == q.sync = "pending" /\ q.dev # None
           other == e.kind = "sync_requested" /\ e.id # q.dev
           evaluates == waits /\ ( \/ e.kind = "sync_complete" /\ e.id = q.dev
                                   \/ e.kind = "message:new" /\ e.wraps[q.dev] # None )
<1>1. inbox \in [Browsers -> Seq(Event)] /\ page \in [Browsers -> Page] /\ told \in [Browsers -> SUBSET Pairs]
      /\ rows \in Listings /\ q \in Page /\ flows \in SUBSET Flow
  BY DEF SyncTypes
<1>2. /\ inbox' = [inbox EXCEPT ![b] = Tail(inbox[b])] /\ inbox[b] # <<>> /\ q.on
      /\ page' = IF other THEN [page EXCEPT ![b] = syncRequested(q, e)] ELSE page
      /\ told' = IF other /\ rows[e.id] # None /\ ~ListingUnderWay(b, e.id)
                 THEN [told EXCEPT ![b] = @ \cup {e.id}] ELSE told
      /\ IF evaluates THEN flows' \in Started(Evaluation(b, q.dev, e.kind = "sync_complete"), flows)
         ELSE UNCHANGED flows
  BY DEF Handle
<1>3. /\ e \in Heard(b) /\ inbox' \in [Browsers -> Seq(Event)]
      /\ Heard(b)' \subseteq Heard(b) /\ Heard(b) \subseteq Heard(b)' \cup {e}
      /\ \A a \in Browsers \ {b} : Heard(a)' = Heard(a)
  <2>1. inbox[b] \in Seq(Event) /\ inbox[b] # <<>>
    BY <1>1, <1>2
  <2> HIDE DEF e
  <2>2. /\ Tail(inbox[b]) \in Seq(Event) /\ Head(inbox[b]) = inbox[b][1] /\ 1 \in DOMAIN inbox[b]
        /\ \A k \in DOMAIN Tail(inbox[b]) : k + 1 \in DOMAIN inbox[b] /\ Tail(inbox[b])[k] = inbox[b][k + 1]
        /\ \A k \in DOMAIN inbox[b] : k # 1 => k - 1 \in DOMAIN Tail(inbox[b]) /\ inbox[b][k] = Tail(inbox[b])[k - 1]
    BY <2>1
  <2>3. inbox'[b] = Tail(inbox[b]) /\ \A a \in Browsers \ {b} : inbox'[a] = inbox[a]
    BY <1>1, <1>2
  <2>4. inbox' \in [Browsers -> Seq(Event)]
    BY <1>1, <1>2, <2>2
  <2>5. Heard(b)' \subseteq Heard(b)
    BY <2>2, <2>3 DEF Heard
  <2>6. ASSUME NEW k \in DOMAIN inbox[b] PROVE inbox[b][k] \in Heard(b)' \cup {e}
    <3>1. CASE k = 1
      BY <2>2, <3>1 DEF e
    <3>2. CASE k # 1
      BY <2>2, <2>3, <3>2, SMTT(30) DEF Heard
    <3> QED
      BY <3>1, <3>2
  <2>7. Heard(b) \subseteq Heard(b)' \cup {e}
    BY <2>6 DEF Heard
  <2>8. e \in Heard(b)
    BY <2>2 DEF e, Heard
  <2>9. \A a \in Browsers \ {b} : Heard(a)' = Heard(a)
    BY <2>3 DEF Heard
  <2> QED
    BY <2>4, <2>5, <2>7, <2>8, <2>9
<1>4. e \in Event /\ (e.kind = "sync_requested" => e.id \in Pairs /\ e.key \in Pairs)
      /\ (e.kind # "message:new" => e.wraps = Blank)
  <2>1. e \in Event
    BY <1>1, <1>3 DEF Heard
  <2> HIDE DEF e
  <2> QED
    BY <1>3, <2>1 DEF Event, Provided, Meant
<1> HIDE DEF e
<1>5. /\ Turned(b) /\ page'[b].sync = q.sync /\ page'[b].dev = q.dev /\ page'[b].on = q.on
      /\ \/ page'[b].asked = q.asked
         \/ e.kind = "sync_requested" /\ page'[b].asked = <<e.id, e.key>>
      /\ page'[b].items = IF other THEN Blank ELSE q.items
  <2>1. CASE other
    <3>1. syncRequested(q, e) = [q EXCEPT !.cache = "none", !.items = Blank, !.asked = <<e.id, e.key>>]
      BY DEF syncRequested
    <3>2. <<e.id, e.key>> \in {None} \cup (Pairs \X Pairs)
      BY <1>4, <2>1
    <3> DEFINE p == syncRequested(q, e)
               a == <<e.id, e.key>>
    <3>3. p = [q EXCEPT !.cache = "none", !.items = Blank, !.asked = a]
      BY <3>1
    <3> HIDE DEF p, a
    <3>4. p \in Page /\ p.sync = q.sync /\ p.dev = q.dev /\ p.on = q.on /\ p.asked = a /\ p.items = Blank
      BY <1>1, <3>2, <3>3, BlankFacts DEF Page, a
    <3>5. page' = [page EXCEPT ![b] = p]
      BY <1>2, <2>1 DEF p
    <3> QED
      BY <1>1, <2>1, <3>4, <3>5 DEF Turned, a
  <2>2. CASE ~other
    BY <1>1, <1>2, <2>2 DEF Turned
  <2> QED
    BY <2>1, <2>2
<1>6. /\ told' \in [Browsers -> SUBSET Pairs] /\ \A a \in Browsers \ {b} : told'[a] = told[a]
      /\ \/ told'[b] = told[b]
         \/ other /\ \E i \in Listed(rows) : told'[b] = told[b] \cup {i} /\ ~ListingUnderWay(b, i)
  <2>1. CASE other /\ rows[e.id] # None /\ ~ListingUnderWay(b, e.id)
    <3>1. told' = [told EXCEPT ![b] = @ \cup {e.id}]
      BY <1>2, <2>1
    <3>2. e.id \in Listed(rows)
      BY <1>4, <2>1 DEF Listed
    <3> QED
      BY <1>1, <1>4, <2>1, <3>1, <3>2
  <2>2. CASE ~(other /\ rows[e.id] # None /\ ~ListingUnderWay(b, e.id))
    BY <1>1, <1>2, <2>2
  <2> QED
    BY <2>1, <2>2
<1>7. /\ flows' \subseteq Flow /\ flows \subseteq flows'
      /\ \A g \in flows' \ flows : Begun(g, b, "devices", q.dev) /\ ~g.keyed
      /\ evaluates => \E g \in flows' : g.b = b /\ g.step = "devices" /\ g.id = q.dev
  <2>1. CASE evaluates
    <3> DEFINE f == Evaluation(b, q.dev, e.kind = "sync_complete")
    <3>1. Call(b, "evaluate", "devices") \in Opening /\ q.dev \in Pairs \cup {None}
      BY <1>1, CallTyped DEF Page
    <3>2. f \in Opening /\ f.b = b /\ f.step = "devices" /\ f.id = q.dev /\ ~f.keyed
      <4>1. (e.kind = "sync_complete") \in BOOLEAN
        OBVIOUS
      <4> QED
        BY <3>1, <4>1, CallFields DEF Evaluation, Call
    <3>3. flows' \in Started(f, flows)
      BY <1>2, <2>1
    <3>4. f \in Opening /\ flows \in SUBSET Flow
      BY <1>1, <3>2
    <3> HIDE DEF f
    <3>5. PICK g \in Flow : /\ flows' = flows \cup {g} /\ g.b = f.b /\ g.step = f.step
                            /\ g.id = f.id /\ g.keyed = f.keyed /\ g.seen = Blank
      BY <3>3, <3>4, StartedDoes
    <3> QED
      BY <1>1, <3>2, <3>5 DEF Begun
  <2>2. CASE ~evaluates
    BY <1>1, <1>2, <2>2
  <2> QED
    BY <2>1, <2>2
<1>8. Banner(q) /\ (e = Complete(q.dev) \/ e.wraps[q.dev] # None) => evaluates
  <2>1. Banner(q) => waits /\ q.dev \in Pairs
    BY <1>1 DEF Banner, Page
  <2>2. e = Complete(q.dev) => e.kind = "sync_complete" /\ e.id = q.dev
    BY DEF Complete
  <2>3. q.dev \in Pairs /\ e.wraps[q.dev] # None => e.kind = "message:new"
    BY <1>4, BlankFacts
  <2> QED
    BY <2>1, <2>2, <2>3
<1> QED
  BY <1>3, <1>5, <1>6, <1>7, <1>8 DEF e

\* A page that shows something else keeps its listing, its request and its sync state.
Paged(b, p) == p \in Page /\ p.items = page[b].items /\ p.asked = page[b].asked /\ p.sync = page[b].sync

\* The page of b goes on as it was, but for what is not said here.
Carried(b) ==
  /\ Turned(b) /\ page'[b].items = page[b].items /\ page'[b].asked = page[b].asked
  /\ page'[b].sync = page[b].sync /\ page'[b].dev = page[b].dev /\ page'[b].on = page[b].on

LEMMA FlowTyped ==
  ASSUME SyncTypes, NEW f \in flows
  PROVE  /\ f \in Flow /\ f.b \in Browsers /\ page[f.b] \in Page
         /\ flows \ {f} \in SUBSET Flow /\ flows \in SUBSET Flow
BY DEF SyncTypes, Flow

LEMMA ListDoes ==
  ASSUME SyncTypes, NEW f \in flows, List(f)
  PROVE  \E g \in Flow : Becomes(f, g) /\ Alike(f, g) /\ Named(f, g) /\ g.step = "listed" /\ g.seen = rows
<1> DEFINE g == [f EXCEPT !.step = "listed", !.seen = rows]
<1>1. f \in Flow /\ rows \in Listings
  BY FlowTyped DEF SyncTypes
<1>2. g \in Flow /\ Alike(f, g) /\ Named(f, g) /\ g.step = "listed" /\ g.seen = rows
  BY <1>1, ZenonT(60) DEF Flow, Alike, Named
<1> QED
  BY <1>2 DEF List

LEMMA KeyedDoes ==
  ASSUME SyncTypes, Provided, NEW f \in flows, Keyed(f)
  PROVE  \E g \in Flow :
           /\ Alike(f, g) /\ g.id = idb[f.b].id /\ g.key = idb[f.b].key /\ g.seen = Blank
           /\ g.id # None /\ g.key # None /\ f.keyed
           /\ \/ g.step = "register" /\ Becomes(f, g) /\ UNCHANGED page
              \/ /\ g.step = "devices"
                 /\ \E p \in Page : Paged(f.b, p) /\ Shows(f.b, p, (flows \ {f}) \cup {g})
<1> DEFINE id == idb[f.b].id
           key == idb[f.b].key
           c == [f EXCEPT !.id = id, !.key = key, !.seen = Blank]
           prior == page[f.b].sync = "pending"
<1>1. f \in Flow /\ f.b \in Browsers /\ page[f.b] \in Page /\ flows \ {f} \in SUBSET Flow
  BY FlowTyped
<1>2. id \in Pairs \cup {None} /\ key \in Pairs \cup {None} /\ f.keyed /\ id # None /\ key # None
  BY <1>1 DEF SyncTypes, Provided, Ready, Keyed
<1>3. \/ f.seen[id] = None /\ Becomes(f, [c EXCEPT !.step = "register"]) /\ UNCHANGED page
      \/ Show(f.b, [page[f.b] EXCEPT !.dev = id],
              (flows \ {f}) \cup {[c EXCEPT !.step = "devices", !.prior = prior]})
  BY DEF Keyed
<1> HIDE DEF id, key, prior
<1>4. c \in Flow /\ Alike(f, c) /\ c.id = id /\ c.key = key /\ c.seen = Blank
  BY <1>1, <1>2, BlankFacts DEF Flow, Alike
<1> HIDE DEF c
<1>5. CASE Becomes(f, [c EXCEPT !.step = "register"]) /\ UNCHANGED page
  <2> DEFINE g == [c EXCEPT !.step = "register"]
  <2>1. g \in Flow /\ Alike(f, g) /\ g.id = id /\ g.key = key /\ g.seen = Blank /\ g.step = "register"
    BY <1>4 DEF Flow, Alike
  <2> QED
    BY <1>2, <1>5, <2>1 DEF id, key
<1>6. CASE Show(f.b, [page[f.b] EXCEPT !.dev = id],
               (flows \ {f}) \cup {[c EXCEPT !.step = "devices", !.prior = prior]})
  <2> DEFINE g == [c EXCEPT !.step = "devices", !.prior = prior]
             p == [page[f.b] EXCEPT !.dev = id]
  <2>1. prior \in BOOLEAN
    BY DEF prior
  <2>2. g \in Flow /\ Alike(f, g) /\ g.id = id /\ g.key = key /\ g.seen = Blank /\ g.step = "devices"
    BY <1>4, <2>1, ZenonT(60) DEF Flow, Alike
  <2>3. p \in Page /\ Paged(f.b, p)
    BY <1>1, <1>2 DEF Paged, Page
  <2>4. Show(f.b, p, (flows \ {f}) \cup {g}) /\ (flows \ {f}) \cup {g} \in SUBSET Flow
    BY <1>1, <1>6, <2>2
  <2> HIDE DEF p, g
  <2>5. Shows(f.b, p, (flows \ {f}) \cup {g})
    BY <1>1, <2>3, <2>4, ShowDoes
  <2> QED
    BY <1>2, <2>2, <2>3, <2>5 DEF id, key
<1> QED
  BY <1>3, <1>5, <1>6

LEMMA NewPairDoes ==
  ASSUME SyncTypes, NEW f \in flows, NewPair(f)
  PROVE  \E g \in Flow, p \in Page :
           /\ Alike(f, g) /\ g.id = g.key /\ g.id \in Pairs /\ g.id[1] = f.b /\ g.seen = Blank
           /\ g.step = "register" /\ made' \in [Browsers -> 0 .. MaxPairs]
           /\ Paged(f.b, p) /\ Shows(f.b, p, (flows \ {f}) \cup {g})
<1> DEFINE n == <<f.b, made[f.b] + 1>>
           g == [f EXCEPT !.step = "register", !.id = n, !.key = n, !.seen = Blank]
           p == [page[f.b] EXCEPT !.dev = n]
<1>1. f \in Flow /\ f.b \in Browsers /\ page[f.b] \in Page /\ flows \ {f} \in SUBSET Flow
  BY FlowTyped
<1>2. made[f.b] \in 0 .. MaxPairs /\ made[f.b] < MaxPairs /\ made' = [made EXCEPT ![f.b] = made[f.b] + 1]
  BY <1>1 DEF SyncTypes, NewPair
<1>3. made[f.b] + 1 \in 1 .. MaxPairs /\ made[f.b] + 1 \in 0 .. MaxPairs
  BY <1>2, DeviceAssumption
<1>4. n \in Pairs /\ n[1] = f.b
  BY <1>1, <1>3 DEF Pairs
<1>5. made' \in [Browsers -> 0 .. MaxPairs]
  BY <1>1, <1>2, <1>3 DEF SyncTypes
<1>6. Show(f.b, p, (flows \ {f}) \cup {g})
  BY DEF NewPair
<1> HIDE DEF n
<1>7. g \in Flow /\ Alike(f, g) /\ g.id = n /\ g.key = n /\ g.seen = Blank /\ g.step = "register"
  BY <1>1, <1>4, BlankFacts, ZenonT(60) DEF Flow, Alike
<1>8. p \in Page /\ Paged(f.b, p)
  BY <1>1, <1>4 DEF Paged, Page
<1> HIDE DEF g, p
<1>9. Shows(f.b, p, (flows \ {f}) \cup {g})
  BY <1>1, <1>6, <1>7, <1>8, ShowDoes
<1> QED
  BY <1>4, <1>5, <1>7, <1>8, <1>9

LEMMA RegisterFindDoes ==
  ASSUME SyncTypes, Provided, NEW f \in flows, RegisterFind(f)
  PROVE  /\ \E g \in Flow : Becomes(f, g) /\ Alike(f, g) /\ Named(f, g) /\ g.step = "posted" /\ g.seen = f.seen
         /\ f.step = "register" /\ \E h \in Handler : handlers' = handlers \cup {h} /\ h.id = f.id /\ h.key = f.key
<1> DEFINE g == [f EXCEPT !.step = "posted"]
           h == [id |-> f.id, key |-> f.key, found |-> rows[f.id], waits |-> <<f.b, f.slot>>]
<1>1. f \in Flow /\ f.b \in Browsers /\ f.slot \in Slots /\ f.id \in Pairs /\ f.key \in Pairs
  <2>1. f \in Flow /\ f.step = "register"
    BY FlowTyped DEF RegisterFind
  <2>2. f.id # None /\ f.key # None
    BY <2>1 DEF Provided, Ready, Registering
  <2> QED
    BY <2>1, <2>2 DEF Flow
<1>2. g \in Flow /\ Alike(f, g) /\ Named(f, g) /\ g.step = "posted" /\ g.seen = f.seen
  BY <1>1 DEF Flow, Alike, Named
<1>3. rows[f.id] \in Pairs \cup {None}
  BY <1>1 DEF SyncTypes, Listings
<1>4. h \in Handler /\ h.id = f.id /\ h.key = f.key
  BY <1>1, <1>3 DEF Handler
<1> QED
  BY <1>2, <1>4 DEF RegisterFind

LEMMA AnswerLostDoes ==
  ASSUME SyncTypes, NEW f \in flows, AnswerLost(f)
  PROVE  /\ \/ Ends(f)
            \/ \E g \in Flow : Becomes(f, g) /\ Alike(f, g) /\ Named(f, g) /\ g.step = "register" /\ g.seen = f.seen
         /\ f.step = "posted" /\ handlers' \subseteq Handler
         /\ \A h \in handlers' : \E k \in handlers : h.id = k.id /\ h.key = k.key /\ h.found = k.found
<1> DEFINE g == [f EXCEPT !.step = "register"]
<1>1. f \in Flow /\ handlers \subseteq Handler
  BY FlowTyped DEF SyncTypes
<1>2. g \in Flow /\ Alike(f, g) /\ Named(f, g) /\ g.step = "register" /\ g.seen = f.seen
  BY <1>1 DEF Flow, Alike, Named
<1>3. handlers' = {[h EXCEPT !.waits = IF Waits(f, h) THEN None ELSE @] : h \in handlers}
  BY DEF AnswerLost
<1>4. /\ handlers' \subseteq Handler
      /\ \A h \in handlers' : \E k \in handlers : h.id = k.id /\ h.key = k.key /\ h.found = k.found
  BY <1>1, <1>3 DEF Handler
<1> QED
  BY <1>2, <1>4 DEF AnswerLost

\* The stored id or key of b, and nothing else that is stored.
StoresId(b, id) ==
  /\ idb' \in [Browsers -> [id: Pairs \cup {None}, key: Pairs \cup {None}]]
  /\ idb'[b].id = id /\ idb'[b].key = idb[b].key /\ \A e \in Browsers \ {b} : idb'[e] = idb[e]
StoresKey(b, key) ==
  /\ idb' \in [Browsers -> [id: Pairs \cup {None}, key: Pairs \cup {None}]]
  /\ idb'[b].key = key /\ idb'[b].id = idb[b].id /\ \A e \in Browsers \ {b} : idb'[e] = idb[e]

LEMMA StoreIdDoes ==
  ASSUME SyncTypes, NEW f \in flows, StoreId(f)
  PROVE  /\ StoresId(f.b, f.id) /\ f.step = "store"
         /\ \E g \in Flow :
              /\ Alike(f, g) /\ Named(f, g) /\ g.seen = f.seen
              /\ \/ g.step = "key" /\ ~f.keyed /\ Becomes(f, g) /\ UNCHANGED page
                 \/ /\ g.step = "devices" /\ f.keyed
                    /\ \E p \in Page : Paged(f.b, p) /\ Shows(f.b, p, (flows \ {f}) \cup {g})
<1> DEFINE prior == page[f.b].sync = "pending"
           p == [page[f.b] EXCEPT !.dev = f.id]
<1>1. /\ f \in Flow /\ f.b \in Browsers /\ page[f.b] \in Page /\ flows \ {f} \in SUBSET Flow
      /\ f.id \in Pairs \cup {None} /\ f.step = "store"
  BY FlowTyped DEF Flow, StoreId
<1>2. idb \in [Browsers -> [id: Pairs \cup {None}, key: Pairs \cup {None}]]
  BY DEF SyncTypes
<1>3. StoresId(f.b, f.id)
  <2>1. idb' = [idb EXCEPT ![f.b].id = f.id]
    BY DEF StoreId
  <2>2. idb'[f.b] = [idb[f.b] EXCEPT !.id = f.id] /\ \A e \in Browsers \ {f.b} : idb'[e] = idb[e]
    BY <1>1, <1>2, <2>1
  <2>3. idb'[f.b] \in [id: Pairs \cup {None}, key: Pairs \cup {None}]
    BY <1>1, <1>2, <2>2
  <2>4. idb' \in [Browsers -> [id: Pairs \cup {None}, key: Pairs \cup {None}]]
    BY <1>1, <1>2, <2>1, <2>2, <2>3
  <2> QED
    BY <1>1, <1>2, <2>2, <2>4 DEF StoresId
<1>4. CASE ~f.keyed
  <2> DEFINE g == [f EXCEPT !.step = "key"]
  <2>1. g \in Flow /\ Alike(f, g) /\ Named(f, g) /\ g.step = "key" /\ g.seen = f.seen
    BY <1>1 DEF Flow, Alike, Named
  <2>2. Becomes(f, g) /\ UNCHANGED page
    BY <1>4 DEF StoreId
  <2> QED
    BY <1>1, <1>3, <1>4, <2>1, <2>2
<1>5. CASE f.keyed
  <2> DEFINE g == [f EXCEPT !.step = "devices", !.prior = prior]
  <2>1. prior \in BOOLEAN
    OBVIOUS
  <2>2. Show(f.b, p, (flows \ {f}) \cup {g})
    BY <1>5 DEF StoreId
  <2> HIDE DEF prior
  <2>3. g \in Flow /\ Alike(f, g) /\ Named(f, g) /\ g.step = "devices" /\ g.seen = f.seen
    BY <1>1, <2>1, ZenonT(60) DEF Flow, Alike, Named
  <2>4. p \in Page /\ Paged(f.b, p)
    BY <1>1 DEF Paged, Page
  <2> HIDE DEF p, g
  <2>5. Shows(f.b, p, (flows \ {f}) \cup {g})
    BY <1>1, <2>2, <2>3, <2>4, ShowDoes
  <2> QED
    BY <1>1, <1>3, <1>5, <2>3, <2>4, <2>5
<1> QED
  BY <1>4, <1>5

LEMMA StoreKeyDoes ==
  ASSUME SyncTypes, NEW f \in flows, StoreKey(f)
  PROVE  /\ StoresKey(f.b, f.key) /\ f.step = "key"
         /\ \E g \in Flow : Becomes(f, g) /\ Alike(f, g) /\ Named(f, g) /\ g.step = "devices" /\ g.seen = f.seen
<1> DEFINE prior == page[f.b].sync = "pending"
           g == [f EXCEPT !.step = "devices", !.prior = prior]
<1>1. f \in Flow /\ f.b \in Browsers /\ f.key \in Pairs \cup {None}
  BY FlowTyped DEF Flow
<1>2. idb \in [Browsers -> [id: Pairs \cup {None}, key: Pairs \cup {None}]]
  BY DEF SyncTypes
<1>3. StoresKey(f.b, f.key)
  <2>1. idb' = [idb EXCEPT ![f.b].key = f.key]
    BY DEF StoreKey
  <2>2. idb'[f.b] = [idb[f.b] EXCEPT !.key = f.key] /\ \A e \in Browsers \ {f.b} : idb'[e] = idb[e]
    BY <1>1, <1>2, <2>1
  <2>3. idb'[f.b] \in [id: Pairs \cup {None}, key: Pairs \cup {None}]
    BY <1>1, <1>2, <2>2
  <2>4. idb' \in [Browsers -> [id: Pairs \cup {None}, key: Pairs \cup {None}]]
    BY <1>1, <1>2, <2>1, <2>2, <2>3
  <2> QED
    BY <1>1, <1>2, <2>2, <2>4 DEF StoresKey
<1>4. prior \in BOOLEAN
  OBVIOUS
<1>5. Becomes(f, g) /\ f.step = "key"
  BY DEF StoreKey
<1> HIDE DEF prior
<1>6. g \in Flow /\ Alike(f, g) /\ Named(f, g) /\ g.step = "devices" /\ g.seen = f.seen
  BY <1>1, <1>4, ZenonT(60) DEF Flow, Alike, Named
<1> QED
  BY <1>3, <1>5, <1>6

LEMMA EvaluateDoes ==
  ASSUME SyncTypes, NEW f \in flows, Evaluate(f)
  PROVE  \E g \in Flow : /\ Becomes(f, g) /\ Alike(f, g) /\ Named(f, g) /\ g.step = "set" /\ g.seen = f.seen
                         /\ (\E k \in DOMAIN messages : Wrapped(k, f.id)) => g.next # "pending"
<1> DEFINE found == \E k \in DOMAIN messages : Wrapped(k, f.id)
           next == IF Cardinality(Listed(rows)) > 1 /\ f.id \in Listed(rows) /\ (found => f.prior)
                   THEN IF found THEN "complete" ELSE "pending"
                   ELSE "idle"
           g == [f EXCEPT !.step = "set", !.next = next]
<1>1. f \in Flow
  BY FlowTyped
<1>2. next \in {"idle", "pending", "complete"}
  OBVIOUS
<1>3. found => next # "pending"
  OBVIOUS
<1>4. Becomes(f, g)
  BY DEF Evaluate
<1> HIDE DEF next, found
<1> DEFINE c == [f EXCEPT !.step = "set"]
<1>5. c \in Flow /\ Alike(f, c) /\ Named(f, c) /\ c.step = "set" /\ c.seen = f.seen
  BY <1>1 DEF Flow, Alike, Named
<1>6. g = [c EXCEPT !.next = next]
  BY <1>1 DEF Flow
<1> HIDE DEF c, g
<1>7. g \in Flow
  BY <1>2, <1>5, <1>6 DEF Flow
<1>8. Alike(f, g) /\ Named(f, g) /\ g.step = "set" /\ g.seen = f.seen /\ g.next = next
  BY <1>5, <1>6 DEF Flow, Alike, Named
<1> QED
  BY <1>3, <1>4, <1>7, <1>8 DEF found

LEMMA SetSyncDoes ==
  ASSUME SyncTypes, NEW f \in flows, SetSyncState(f)
  PROVE  \E running \in SUBSET Flow, p \in Page :
           /\ f.step = "set" /\ flows \ {f} \subseteq running /\ f \notin running
           /\ \A g \in running \ flows : g.b = f.b /\ g.step = "rows" /\ ~g.keyed /\ g.seen = Blank
           /\ p.items = page[f.b].items /\ p.asked = page[f.b].asked /\ p.on = page[f.b].on
           /\ p.dev = page[f.b].dev /\ p.sync = f.next /\ Shows(f.b, p, running)
<1> DEFINE g == [Call(f.b, "send", "rows") EXCEPT !.slot = f.slot]
           running == (flows \ {f}) \cup IF f.for = "send" THEN {g} ELSE {}
           p == [page[f.b] EXCEPT !.sync = f.next]
<1>1. /\ f \in Flow /\ f.b \in Browsers /\ page[f.b] \in Page /\ flows \ {f} \in SUBSET Flow /\ f.slot \in Slots
      /\ f.next \in {"idle", "pending", "complete"}
  BY FlowTyped DEF Flow
<1>2. g \in Flow /\ g.b = f.b /\ g.step = "rows" /\ ~g.keyed /\ g.seen = Blank
  <2>1. /\ None \in Pairs \cup {None} /\ Blank \in Listings /\ 0 \in 0 .. MaxMessages
        /\ {} \in SUBSET (1 .. MaxMessages) /\ {} \in SUBSET Pairs
    BY BlankFacts, DeviceAssumption
  <2> QED
    BY <1>1, <2>1, ZenonT(60) DEF Call, Flow
<1>3. p \in Page /\ p.items = page[f.b].items /\ p.asked = page[f.b].asked /\ p.on = page[f.b].on
      /\ p.dev = page[f.b].dev /\ p.sync = f.next
  BY <1>1 DEF Page
<1>4. Show(f.b, p, running) /\ f.step = "set"
  BY DEF SetSyncState
<1> HIDE DEF g, p
<1>5. running \in SUBSET Flow /\ flows \ {f} \subseteq running
  BY <1>1, <1>2
<1>6. f \notin running
  <2>1. g # f
    BY <1>2, <1>4
  <2> QED
    BY <2>1
<1>7. \A x \in running \ flows : x = g
  OBVIOUS
<1> HIDE DEF running
<1>8. Shows(f.b, p, running)
  BY <1>1, <1>3, <1>4, <1>5, ShowDoes
<1> QED
  BY <1>2, <1>3, <1>4, <1>5, <1>6, <1>7, <1>8

LEMMA OwnRowsDoes ==
  ASSUME SyncTypes, NEW f \in flows, OwnRows(f)
  PROVE  /\ Carried(f.b)
         /\ \E g \in Flow : Becomes(f, g) /\ Alike(f, g) /\ Named(f, g) /\ g.step \in {"wrap", "ask"} /\ g.seen = f.seen
<1>1. f \in Flow /\ f.b \in Browsers /\ page[f.b] \in Page /\ page \in [Browsers -> Page]
  BY FlowTyped DEF SyncTypes
<1>2. CASE page[f.b].cache = "fresh"
  <2> DEFINE g == [f EXCEPT !.step = "wrap"]
  <2>1. g \in Flow /\ Alike(f, g) /\ Named(f, g) /\ g.step = "wrap" /\ g.seen = f.seen
    BY <1>1 DEF Flow, Alike, Named
  <2>2. Becomes(f, g) /\ UNCHANGED page
    BY <1>2 DEF OwnRows
  <2> QED
    BY <1>1, <2>1, <2>2 DEF Carried, Turned
<1>3. CASE page[f.b].cache # "fresh"
  <2> DEFINE g == [f EXCEPT !.step = "ask"]
             p == [page[f.b] EXCEPT !.cache = "loading"]
  <2>1. g \in Flow /\ Alike(f, g) /\ Named(f, g) /\ g.step = "ask" /\ g.seen = f.seen
    BY <1>1 DEF Flow, Alike, Named
  <2>2. Becomes(f, g) /\ page' = [page EXCEPT ![f.b] = p]
    BY <1>3 DEF OwnRows, Loading
  <2>3. /\ p \in Page /\ p.items = page[f.b].items /\ p.asked = page[f.b].asked
        /\ p.sync = page[f.b].sync /\ p.dev = page[f.b].dev /\ p.on = page[f.b].on
    BY <1>1 DEF Page
  <2> HIDE DEF p, g
  <2>4. Carried(f.b)
    BY <1>1, <2>2, <2>3 DEF Carried, Turned
  <2> QED
    BY <2>1, <2>2, <2>4
<1> QED
  BY <1>2, <1>3

LEMMA FetchReadDoes ==
  ASSUME SyncTypes, NEW f \in flows, FetchRead(f)
  PROVE  \E g \in Flow : Becomes(f, g) /\ Alike(f, g) /\ Named(f, g) /\ g.step = "got" /\ g.seen = rows
<1> DEFINE g == [f EXCEPT !.step = "got", !.seen = rows]
<1>1. f \in Flow /\ rows \in Listings
  BY FlowTyped DEF SyncTypes
<1>2. g \in Flow /\ Alike(f, g) /\ Named(f, g) /\ g.step = "got" /\ g.seen = rows
  BY <1>1, ZenonT(60) DEF Flow, Alike, Named
<1> QED
  BY <1>2 DEF FetchRead

\* The listing of the page becomes items, or is dropped.
Relisted(b, items) ==
  /\ Turned(b) /\ page'[b].items = items /\ page'[b].asked = page[b].asked
  /\ page'[b].sync = page[b].sync /\ page'[b].dev = page[b].dev /\ page'[b].on = page[b].on

LEMMA FetchFulfilledDoes ==
  ASSUME SyncTypes, NEW f \in flows, FetchFulfilled(f)
  PROVE  /\ f.step = "got" /\ Relisted(f.b, f.seen)
         /\ \/ Ends(f)
            \/ \E g \in Flow : Becomes(f, g) /\ Alike(f, g) /\ Named(f, g) /\ g.step = "wrap" /\ g.seen = Blank
<1> DEFINE g == [f EXCEPT !.step = "wrap", !.seen = Blank]
           p == [page[f.b] EXCEPT !.cache = "fresh", !.items = f.seen]
<1>1. f \in Flow /\ f.b \in Browsers /\ page[f.b] \in Page /\ page \in [Browsers -> Page] /\ f.seen \in Listings
  BY FlowTyped DEF SyncTypes, Flow
<1>2. g \in Flow /\ Alike(f, g) /\ Named(f, g) /\ g.step = "wrap" /\ g.seen = Blank
  BY <1>1, BlankFacts, ZenonT(60) DEF Flow, Alike, Named
<1>3. /\ p \in Page /\ p.items = f.seen /\ p.asked = page[f.b].asked
      /\ p.sync = page[f.b].sync /\ p.dev = page[f.b].dev /\ p.on = page[f.b].on
  BY <1>1 DEF Page
<1>4. page' = [page EXCEPT ![f.b] = p] /\ f.step = "got" /\ (Becomes(f, g) \/ Ends(f))
  <2>1. page' = [page EXCEPT ![f.b].cache = "fresh", ![f.b].items = f.seen]
    BY DEF FetchFulfilled
  <2>2. [page EXCEPT ![f.b].cache = "fresh", ![f.b].items = f.seen] = [page EXCEPT ![f.b] = p]
    BY <1>1
  <2> QED
    BY <2>1, <2>2 DEF FetchFulfilled
<1> HIDE DEF p, g
<1>5. Relisted(f.b, f.seen)
  BY <1>1, <1>3, <1>4 DEF Relisted, Turned
<1> QED
  BY <1>2, <1>4, <1>5

LEMMA WrapDoes ==
  ASSUME SyncTypes, NEW f \in flows, Wrap(f)
  PROVE  \/ Ends(f)
         \/ \E g \in Flow : /\ Becomes(f, g) /\ Alike(f, g) /\ Named(f, g) /\ g.step = "post"
                            /\ g.seen = page[f.b].items /\ g.must = told[f.b] /\ Listed(g.seen) # {}
<1> DEFINE g == [f EXCEPT !.step = "post", !.seen = page[f.b].items, !.must = told[f.b]]
<1>1. f \in Flow /\ f.b \in Browsers /\ page[f.b].items \in Listings /\ told[f.b] \in SUBSET Pairs
  BY FlowTyped DEF SyncTypes, Page
<1> DEFINE items == page[f.b].items
           must == told[f.b]
<1>2. g = [f EXCEPT !.step = "post", !.seen = items, !.must = must]
  OBVIOUS
<1>3. Ends(f) \/ (Listed(items) # {} /\ Becomes(f, g))
  BY DEF Wrap
<1>4. items \in Listings /\ must \in SUBSET Pairs
  BY <1>1
<1> HIDE DEF g, items, must
<1>5. g \in Flow /\ Alike(f, g) /\ Named(f, g) /\ g.step = "post" /\ g.seen = items /\ g.must = must
  BY <1>1, <1>2, <1>4 DEF Flow, Alike, Named
<1> QED
  BY <1>3, <1>5 DEF items, must

LEMMA AppendDoes ==
  ASSUME SyncTypes, NEW L \in Listings, Len(messages) < MaxMessages, messages' = Append(messages, L)
  PROVE  /\ messages' \in Seq(Listings) /\ Len(messages') <= MaxMessages
         /\ DOMAIN messages' = DOMAIN messages \cup {Len(messages) + 1}
         /\ \A k \in DOMAIN messages : messages'[k] = messages[k]
         /\ messages'[Len(messages) + 1] = L
<1>1. messages \in Seq(Listings) /\ MaxMessages \in Nat
  BY DeviceAssumption DEF SyncTypes
<1> QED
  BY <1>1

LEMMA CheckDoes ==
  ASSUME SyncTypes, NEW f \in flows, Check(f)
  PROVE  \/ Ends(f)
         \/ \E g \in Flow : /\ Becomes(f, g) /\ Alike(f, g) /\ Named(f, g) /\ g.step = "page" /\ g.seen = f.seen
                            /\ g.at = f.at /\ f.step = "check"
<1> DEFINE key == idb[f.b].key
           g == [f EXCEPT !.step = "page", !.local = key]
<1>1. f \in Flow /\ key \in Pairs \cup {None}
  BY FlowTyped DEF SyncTypes
<1>2. f.step = "check" /\ (Ends(f) \/ Becomes(f, g))
  BY DEF Check
<1> HIDE DEF key
<1>3. g \in Flow /\ Alike(f, g) /\ Named(f, g) /\ g.step = "page" /\ g.seen = f.seen /\ g.at = f.at
  BY <1>1, ZenonT(60) DEF Flow, Alike, Named
<1> QED
  BY <1>2, <1>3

\* The page of b forgets the request that it showed.
Dismissed(b) ==
  /\ Turned(b) /\ page'[b].items = page[b].items /\ page'[b].asked = None
  /\ page'[b].sync = page[b].sync /\ page'[b].dev = page[b].dev /\ page'[b].on = page[b].on

LEMMA CompletedDoes ==
  ASSUME SyncTypes, NEW f \in flows, syncCompleted(f), f.id \in Pairs
  PROVE  /\ Dismissed(f.b) /\ promised' = promised \cup (f.owed \X {f.id})
         /\ promised' \subseteq (1 .. MaxMessages) \X Pairs /\ Ends(f)
<1>1. /\ f \in Flow /\ f.b \in Browsers /\ page[f.b] \in Page /\ page \in [Browsers -> Page]
      /\ f.owed \in SUBSET (1 .. MaxMessages) /\ promised \subseteq (1 .. MaxMessages) \X Pairs
  BY FlowTyped DEF SyncTypes, Flow
<1>2. page' = [page EXCEPT ![f.b].asked = None]
  BY DEF syncCompleted
<1>3. page'[f.b] = [page[f.b] EXCEPT !.asked = None] /\ \A e \in Browsers \ {f.b} : page'[e] = page[e]
  BY <1>1, <1>2
<1>4. page'[f.b] \in Page
  BY <1>1, <1>3 DEF Page
<1>5. page' \in [Browsers -> Page]
  BY <1>1, <1>2, <1>3, <1>4
<1>6. Dismissed(f.b)
  BY <1>1, <1>3, <1>5 DEF Dismissed, Turned, Page
<1> QED
  BY <1>1, <1>6 DEF syncCompleted

\* What is left of the keys of a device after the cursor, and the next page of them.
NextKeys(f) == {k \in AfterCursor(f) : Cardinality({j \in AfterCursor(f) : j < k}) < PageSize}

LEMMA CursorDoes ==
  ASSUME SyncTypes, NEW f \in Flow
  PROVE  /\ AfterCursor(f) \in SUBSET (0 .. MaxMessages) /\ AfterCursor(f) \in SUBSET (1 .. MaxMessages)
         /\ AfterCursor(f) \subseteq DOMAIN messages /\ NextKeys(f) \subseteq AfterCursor(f)
         /\ AfterCursor(f) # {} => NextKeys(f) # {}
         /\ \A k \in AfterCursor(f), m \in NextKeys(f) : k <= m => k \in NextKeys(f)
<1> DEFINE after == AfterCursor(f)
           before(k) == {j \in after : j < k}
<1>1. MaxMessages \in Nat /\ messages \in Seq(Listings) /\ Len(messages) <= MaxMessages
      /\ PageSize \in Nat /\ PageSize > 0
  BY DeviceAssumption DEF SyncTypes
<1>2. after \subseteq DOMAIN messages /\ DOMAIN messages = 1 .. Len(messages)
  BY <1>1 DEF AfterCursor
<1>3. after \in SUBSET (1 .. MaxMessages) /\ after \in SUBSET (0 .. MaxMessages)
  BY <1>1, <1>2
<1>4. \A k \in after : IsFiniteSet(before(k)) /\ Cardinality(before(k)) \in Nat
  <2>1. IsFiniteSet(1 .. MaxMessages)
    BY <1>1, FS_Interval
  <2>2. IsFiniteSet(after)
    BY <1>3, <2>1, FS_Subset
  <2>3. \A k \in after : before(k) \subseteq after
    OBVIOUS
  <2> QED
    BY <2>2, <2>3, FS_Subset, FS_CardinalityType
<1>5. NextKeys(f) = {k \in after : Cardinality(before(k)) < PageSize}
  BY DEF NextKeys
<1>6. ASSUME after # {} PROVE NextKeys(f) # {}
  <2>1. PICK x \in after : \A y \in after : x <= y
    <3> HIDE DEF after
    <3>1. after \in SUBSET Nat
      BY <1>3
    <3> QED
      BY <1>6, <3>1, LeastOf
  <2>2. before(x) = {}
    BY <1>3, <2>1
  <2>3. Cardinality(before(x)) = 0
    BY <2>2, FS_EmptySet
  <2> QED
    BY <1>1, <1>5, <2>3
<1>7. ASSUME NEW k \in after, NEW m \in NextKeys(f), k <= m PROVE k \in NextKeys(f)
  <2>1. m \in after /\ Cardinality(before(m)) < PageSize
    BY <1>5
  <2>2. before(k) \subseteq before(m)
    BY <1>3, <1>7, <2>1
  <2>3. Cardinality(before(k)) <= Cardinality(before(m))
    <3>1. IsFiniteSet(before(m))
      BY <1>4, <2>1
    <3> QED
      BY <2>2, <3>1, FS_Subset
  <2>4. Cardinality(before(k)) < PageSize
    <3> DEFINE n == Cardinality(before(k))
               o == Cardinality(before(m))
    <3>1. n \in Nat /\ o \in Nat /\ n <= o /\ o < PageSize /\ PageSize \in Nat
      BY <1>1, <1>4, <2>1, <2>3
    <3> HIDE DEF n, o
    <3>2. n < PageSize
      BY <3>1
    <3> QED
      BY <3>2 DEF n
  <2> QED
    BY <1>5, <2>4
<1> QED
  BY <1>2, <1>3, <1>5, <1>6, <1>7

LEMMA SyncPageDoes ==
  ASSUME SyncTypes, NEW f \in flows, SyncPage(f)
  PROVE  /\ f.step = "page"
         /\ \/ AfterCursor(f) = {} /\ syncCompleted(f)
            \/ Ends(f) /\ UNCHANGED <<page, promised>>
            \/ /\ UNCHANGED <<page, promised>>
               /\ \E g \in Flow :
                    /\ Becomes(f, g) /\ Alike(f, g) /\ Named(f, g) /\ g.step = "batch" /\ g.seen = f.seen
                    /\ g.picked = NextKeys(f) /\ g.more = (NextKeys(f) # AfterCursor(f))
                    /\ g.at \in NextKeys(f) /\ \A k \in NextKeys(f) : k <= g.at
<1> DEFINE items == NextKeys(f)
           more == items # AfterCursor(f)
           at == CHOOSE k \in items : \A j \in items : j <= k
           g == [f EXCEPT !.step = "batch", !.picked = items, !.more = more, !.at = at]
<1>1. f \in Flow /\ f.step = "page"
  BY FlowTyped DEF SyncPage
<1>2. /\ items \in SUBSET (1 .. MaxMessages) /\ items \in SUBSET (0 .. MaxMessages)
      /\ AfterCursor(f) # {} => items # {}
  BY <1>1, CursorDoes
<1>3. IF rows[f.src] # None /\ items = {} THEN syncCompleted(f)
      ELSE /\ IF rows[f.src] = None \/ \E k \in items : messages[k][f.src] # f.local THEN Ends(f)
              ELSE Becomes(f, g)
           /\ UNCHANGED <<page, promised>>
  BY DEF SyncPage, NextKeys
<1>4. CASE rows[f.src] # None /\ items = {}
  BY <1>1, <1>2, <1>3, <1>4
<1>5. CASE ~(rows[f.src] # None /\ items = {}) /\ Ends(f)
  BY <1>1, <1>3, <1>5
<1>6. CASE ~(rows[f.src] # None /\ items = {}) /\ ~Ends(f)
  <2>1. Becomes(f, g) /\ UNCHANGED <<page, promised>> /\ items # {}
    BY <1>3, <1>6
  <2> HIDE DEF items
  <2>2. \E k \in items : \A j \in items : j <= k
    BY <1>2, <2>1, GreatestOf, DeviceAssumption
  <2>3. at \in items /\ \A j \in items : j <= at
    BY <2>2
  <2>4. more \in BOOLEAN /\ at \in 0 .. MaxMessages
    BY <1>2, <2>3
  <2> HIDE DEF at, more
  <2>5. g \in Flow /\ Alike(f, g) /\ Named(f, g) /\ g.step = "batch" /\ g.seen = f.seen
        /\ g.picked = items /\ g.more = more /\ g.at = at
    BY <1>1, <1>2, <2>4, ZenonT(60) DEF Flow, Alike, Named
  <2> QED
    BY <1>1, <2>1, <2>3, <2>5 DEF items, more
<1> QED
  BY <1>4, <1>5, <1>6

LEMMA SyncBatchDoes ==
  ASSUME SyncTypes, Provided, NEW f \in flows, SyncBatch(f)
  PROVE  /\ f.step = "batch" /\ f.id \in Pairs /\ f.key \in Pairs
         /\ \/ Ends(f) /\ UNCHANGED <<messages, inbox, missed, faults, page, promised>>
            \/ /\ messages' \in Seq(Listings) /\ Len(messages') = Len(messages) /\ DOMAIN messages' = DOMAIN messages
               /\ \A k \in DOMAIN messages :
                    /\ k \in f.picked /\ Wrapped(k, f.src) => messages'[k] = [messages[k] EXCEPT ![f.id] = f.key]
                    /\ ~(k \in f.picked /\ Wrapped(k, f.src)) => messages'[k] = messages[k]
               /\ Emit(Complete(f.id))
               /\ \/ ~f.more /\ syncCompleted(f)
                  \/ /\ UNCHANGED <<page, promised>>
                     /\ \E g \in Flow : /\ Becomes(f, g) /\ Alike(f, g) /\ Named(f, g) /\ g.step = "page"
                                        /\ g.seen = f.seen /\ g.at = f.at
<1> DEFINE g == [f EXCEPT !.step = "page", !.picked = {}]
<1>1. f \in Flow /\ f.step = "batch" /\ f.id \in Pairs /\ f.key \in Pairs
  <2>1. f \in Flow /\ f.step = "batch"
    BY FlowTyped DEF SyncBatch
  <2>2. f.id # None /\ f.key # None
    BY <2>1 DEF Provided, Ready, Copying
  <2> QED
    BY <2>1, <2>2 DEF Flow
<1>2. CASE rows[f.id] = None \/ rows[f.src] = None
  BY <1>1, <1>2 DEF SyncBatch
<1>3. CASE ~(rows[f.id] = None \/ rows[f.src] = None)
  <2>1. /\ messages' = Rewrapped(f) /\ Emit(Complete(f.id))
        /\ IF f.more THEN Becomes(f, g) /\ UNCHANGED <<page, promised>> ELSE syncCompleted(f)
    BY <1>3 DEF SyncBatch
  <2>2. {} \in SUBSET (1 .. MaxMessages)
    OBVIOUS
  <2>3. g \in Flow /\ Alike(f, g) /\ Named(f, g) /\ g.step = "page" /\ g.seen = f.seen /\ g.at = f.at
    BY <1>1, <2>2 DEF Flow, Alike, Named
  <2> HIDE DEF g
  <2>4. messages \in Seq(Listings) /\ DOMAIN messages = 1 .. Len(messages) /\ Len(messages) \in Nat
    BY DEF SyncTypes
  <2>5. messages' = [k \in 1 .. Len(messages) |->
          IF k \in f.picked /\ Wrapped(k, f.src) THEN [messages[k] EXCEPT ![f.id] = f.key] ELSE messages[k]]
    BY <2>1, <2>4 DEF Rewrapped
  <2>6. ASSUME NEW k \in 1 .. Len(messages) PROVE messages'[k] \in Listings
    <3>1. messages[k] \in Listings
      BY <2>4
    <3>2. [messages[k] EXCEPT ![f.id] = f.key] \in Listings
      BY <1>1, <3>1 DEF Listings
    <3> QED
      BY <2>5, <3>1, <3>2
  <2>7. messages' \in [1 .. Len(messages) -> Listings]
    BY <2>5, <2>6
  <2>8. messages' \in Seq(Listings) /\ Len(messages') = Len(messages) /\ DOMAIN messages' = DOMAIN messages
    BY <2>4, <2>7
  <2>9. \A k \in DOMAIN messages :
          /\ k \in f.picked /\ Wrapped(k, f.src) => messages'[k] = [messages[k] EXCEPT ![f.id] = f.key]
          /\ ~(k \in f.picked /\ Wrapped(k, f.src)) => messages'[k] = messages[k]
    BY <2>4, <2>5
  <2> QED
    BY <1>1, <2>1, <2>3, <2>8, <2>9
<1> QED
  BY <1>2, <1>3

LEMMA PostDoes ==
  ASSUME SyncTypes, NEW f \in flows, Post(f)
  PROVE  /\ f.step = "post" /\ f.b \in Browsers /\ Ends(f) /\ f.seen \in Listings
         /\ Len(messages) < MaxMessages /\ messages' = Append(messages, f.seen)
         /\ Emit(MessageNew(f.seen)) /\ MessageNew(f.seen) \in Event
<1>1. f.seen \in Listings /\ f.b \in Browsers
  BY FlowTyped DEF Flow
<1>2. MessageNew(f.seen) \in Event
  BY <1>1 DEF MessageNew, Event
<1> QED
  BY <1>1, <1>2 DEF Post

LEMMA ContactDoes ==
  ASSUME SyncTypes, ContactSends
  PROVE  /\ contact' \in {contact, rows} /\ contact' \in Listings
         /\ Len(messages) < MaxMessages /\ messages' = Append(messages, contact')
         /\ Emit(MessageNew(contact')) /\ MessageNew(contact') \in Event
<1>1. contact' \in {contact, rows} /\ contact' \in Listings
  BY DEF SyncTypes, ContactSends
<1>2. MessageNew(contact') \in Event
  BY <1>1 DEF MessageNew, Event
<1> QED
  BY <1>1, <1>2 DEF ContactSends

LEMMA NotifyDoes ==
  ASSUME SyncTypes, NEW b \in Browsers, NotifyAgain(b)
  PROVE  \E i \in Pairs : /\ rows[i] # None /\ Emit(Requested(i, rows[i]))
                          /\ Requested(i, rows[i]) \in Event /\ Meant(Requested(i, rows[i]))
<1> DEFINE i == page[b].dev
<1>1. i \in Pairs /\ rows \in Listings /\ rows[i] # None
  BY DEF SyncTypes, NotifyAgain, Page
<1>2. Emit(Requested(i, rows[i]))
  BY DEF NotifyAgain
<1> HIDE DEF i
<1>3. rows[i] \in Pairs
  BY <1>1 DEF Listings
<1>4. Requested(i, rows[i]) \in Event
  BY <1>1, <1>3, EventsTyped
<1>5. Meant(Requested(i, rows[i]))
  BY <1>1, PairsAreSome DEF Meant, Requested
<1> QED
  BY <1>1, <1>2, <1>4, <1>5

LEMMA RevokeDoes ==
  ASSUME SyncTypes, NEW f \in flows, Revoke(f)
  PROVE  /\ f.step = "revoke" /\ rows' \in Listings /\ told' \in [Browsers -> SUBSET Pairs]
         /\ \A i \in Pairs : rows'[i] = IF i = f.id THEN None ELSE rows[i]
         /\ \A b \in Browsers : told'[b] = told[b] \ {f.id}
         /\ \E g \in Flow : Becomes(f, g) /\ Alike(f, g) /\ Named(f, g) /\ g.step = "leave" /\ g.seen = f.seen
<1> DEFINE g == [f EXCEPT !.step = "leave"]
<1>1. f \in Flow /\ rows \in Listings /\ told \in [Browsers -> SUBSET Pairs]
  BY FlowTyped DEF SyncTypes
<1>2. g \in Flow /\ Alike(f, g) /\ Named(f, g) /\ g.step = "leave" /\ g.seen = f.seen
  BY <1>1 DEF Flow, Alike, Named
<1>3. f.step = "revoke" /\ rows' = [rows EXCEPT ![f.id] = None] /\ Becomes(f, g)
      /\ told' = [b \in Browsers |-> told[b] \ {f.id}]
  BY DEF Revoke
<1> HIDE DEF g
<1>4. rows' \in Listings /\ \A i \in Pairs : rows'[i] = IF i = f.id THEN None ELSE rows[i]
  BY <1>1, <1>3 DEF Listings
<1>5. told' \in [Browsers -> SUBSET Pairs] /\ \A b \in Browsers : told'[b] = told[b] \ {f.id}
  BY <1>1, <1>3
<1> QED
  BY <1>2, <1>3, <1>4, <1>5

LEMMA LogoutDoes ==
  ASSUME SyncTypes, NEW f \in flows, logout(f)
  PROVE  /\ f.step = "leave" /\ f.b \in Browsers /\ Ends(f)
         /\ Turned(f.b) /\ page'[f.b].items = Blank /\ page'[f.b].asked = None /\ ~page'[f.b].on
         /\ inbox' \in [Browsers -> Seq(Event)] /\ Heard(f.b)' = {}
         /\ \A e \in Browsers \ {f.b} : Heard(e)' = Heard(e)
         /\ told' \in [Browsers -> SUBSET Pairs] /\ told'[f.b] = {}
         /\ \A e \in Browsers \ {f.b} : told'[e] = told[e]
<1> DEFINE q == [cryptoInitialState EXCEPT !.on = FALSE]
<1>1. f.b \in Browsers
  BY FlowTyped
<1>2. q \in Page /\ q.items = Blank /\ q.asked = None /\ ~q.on
  BY BlankFacts DEF cryptoInitialState, Page
<1>3. /\ f.step = "leave" /\ Ends(f) /\ page' = [page EXCEPT ![f.b] = q]
      /\ inbox' = [inbox EXCEPT ![f.b] = <<>>] /\ told' = [told EXCEPT ![f.b] = {}]
  BY DEF logout
<1> HIDE DEF q
<1>4. Turned(f.b) /\ page'[f.b] = q
  BY <1>1, <1>2, <1>3 DEF SyncTypes, Turned
<1>5. /\ inbox' \in [Browsers -> Seq(Event)] /\ inbox'[f.b] = <<>>
      /\ \A e \in Browsers \ {f.b} : inbox'[e] = inbox[e]
  <2>1. <<>> \in Seq(Event)
    OBVIOUS
  <2> QED
    BY <1>1, <1>3, <2>1 DEF SyncTypes
<1>6. Heard(f.b)' = {} /\ \A e \in Browsers \ {f.b} : Heard(e)' = Heard(e)
  <2>1. DOMAIN <<>> = {}
    OBVIOUS
  <2> QED
    BY <1>5, <2>1 DEF Heard
<1>7. /\ told' \in [Browsers -> SUBSET Pairs] /\ told'[f.b] = {}
      /\ \A e \in Browsers \ {f.b} : told'[e] = told[e]
  BY <1>1, <1>3 DEF SyncTypes
<1> QED
  BY <1>1, <1>2, <1>3, <1>4, <1>5, <1>6, <1>7

LEMMA FailsDoes ==
  ASSUME SyncTypes, NEW f \in flows, Fails(f)
  PROVE  /\ Carried(f.b) \/ Relisted(f.b, Blank)
         /\ \/ f.step \notin {"set", "devices"} /\ Ends(f)
            \/ \E g \in Flow : /\ Becomes(f, g) /\ Alike(f, g) /\ Named(f, g) /\ g.seen = f.seen
                               /\ \/ f.step = "devices" /\ g.step = "set" /\ g.next = "idle"
                                  \/ f.step = "revoke" /\ g.step = "leave"
<1>1. f \in Flow /\ f.b \in Browsers /\ page[f.b] \in Page /\ page \in [Browsers -> Page]
  BY FlowTyped DEF SyncTypes
<1>2. Carried(f.b) \/ Relisted(f.b, Blank)
  <2> DEFINE p == [page[f.b] EXCEPT !.cache = "failed", !.items = Blank]
  <2>1. p \in Page /\ p.items = Blank /\ p.asked = page[f.b].asked
        /\ p.sync = page[f.b].sync /\ p.dev = page[f.b].dev /\ p.on = page[f.b].on
    BY <1>1, BlankFacts DEF Page
  <2>2. CASE f.step = "ask"
    <3>1. page' = [page EXCEPT ![f.b].cache = "failed", ![f.b].items = Blank]
      BY <2>2 DEF Fails
    <3>2. [page EXCEPT ![f.b].cache = "failed", ![f.b].items = Blank] = [page EXCEPT ![f.b] = p]
      BY <1>1
    <3>3. page' = [page EXCEPT ![f.b] = p]
      BY <3>1, <3>2
    <3> HIDE DEF p
    <3> QED
      BY <1>1, <2>1, <3>3 DEF Relisted, Turned
  <2>3. CASE f.step # "ask"
    <3>1. UNCHANGED page
      BY <2>3 DEF Fails
    <3> QED
      BY <1>1, <3>1 DEF Carried, Turned
  <2> QED
    BY <2>2, <2>3
<1>3. CASE f.step = "devices"
  <2> DEFINE c == [f EXCEPT !.step = "set"]
             g == [f EXCEPT !.step = "set", !.next = "idle"]
  <2>1. c \in Flow /\ Alike(f, c) /\ Named(f, c) /\ c.step = "set" /\ c.seen = f.seen
    BY <1>1 DEF Flow, Alike, Named
  <2>2. g = [c EXCEPT !.next = "idle"]
    BY <1>1 DEF Flow
  <2>3. Becomes(f, g)
    BY <1>3 DEF Fails
  <2> HIDE DEF c, g
  <2>4. g \in Flow
    BY <2>1, <2>2 DEF Flow
  <2>5. Alike(f, g) /\ Named(f, g) /\ g.step = "set" /\ g.seen = f.seen /\ g.next = "idle"
    BY <2>1, <2>2 DEF Flow, Alike, Named
  <2> QED
    BY <1>2, <1>3, <2>3, <2>4, <2>5
<1>4. CASE f.step = "revoke"
  <2> DEFINE g == [f EXCEPT !.step = "leave"]
  <2>1. g \in Flow /\ Alike(f, g) /\ Named(f, g) /\ g.step = "leave" /\ g.seen = f.seen
    BY <1>1 DEF Flow, Alike, Named
  <2>2. Becomes(f, g)
    BY <1>4 DEF Fails
  <2> QED
    BY <1>2, <1>4, <2>1, <2>2
<1>5. CASE f.step \notin {"devices", "revoke"}
  BY <1>2, <1>5 DEF Fails
<1> QED
  BY <1>3, <1>4, <1>5

\* The listing of the page of b is dropped or kept, whatever else it shows.
Registered(b, p) ==
  /\ p \in Page /\ p.items = Blank /\ p.asked = page[b].asked /\ p.sync = page[b].sync

LEMMA WriteDoes ==
  ASSUME SyncTypes, NEW h \in handlers, RegisterWrite(h)
  PROVE  /\ h \in Handler /\ handlers' = handlers \ {h} /\ rows' \in Listings
         /\ rows' = rows \/ \A i \in Pairs : rows'[i] = IF i = h.id THEN h.key ELSE rows[i]
         /\ \/ UNCHANGED <<inbox, missed, faults>>
            \/ /\ Emit(Requested(h.id, h.key))
               /\ Requested(h.id, h.key) \in Event /\ Meant(Requested(h.id, h.key))
         /\ \/ UNCHANGED <<page, flows>>
            \/ \E f \in flows, g \in Flow :
                 /\ f.step = "posted" /\ Alike(f, g) /\ Named(f, g) /\ g.seen = f.seen
                 /\ \/ g.step = "register" /\ Becomes(f, g) /\ UNCHANGED page
                    \/ /\ g.step = "store"
                       /\ \E p \in Page : Registered(f.b, p) /\ Shows(f.b, p, (flows \ {f}) \cup {g})
<1>1. h \in Handler /\ h.id \in Pairs /\ h.key \in Pairs /\ rows \in Listings
  BY DEF SyncTypes, Handler
<1> DEFINE refused == h.found # h.key /\ (h.found = None) # (rows[h.id] = None)
           insert == h.found = None /\ rows[h.id] = None
           caller == {f \in flows : Waits(f, h)}
<1>2. /\ handlers' = handlers \ {h}
      /\ rows' = IF refused \/ h.found = h.key THEN rows ELSE [rows EXCEPT ![h.id] = h.key]
      /\ IF insert THEN Emit(Requested(h.id, h.key)) ELSE UNCHANGED <<inbox, missed, faults>>
      /\ IF caller = {} THEN UNCHANGED <<page, flows>>
         ELSE \E f \in caller :
           IF refused THEN Becomes(f, [f EXCEPT !.step = "register"]) /\ UNCHANGED page
           ELSE Show(f.b, [page[f.b] EXCEPT !.dev = h.id, !.cache = "none", !.items = Blank],
                     (flows \ {f}) \cup {[f EXCEPT !.step = "store"]})
  BY DEF RegisterWrite
<1> HIDE DEF refused, insert
<1>3. rows' \in Listings /\ (rows' = rows \/ \A i \in Pairs : rows'[i] = IF i = h.id THEN h.key ELSE rows[i])
  BY <1>1, <1>2 DEF Listings
<1>4. \/ UNCHANGED <<inbox, missed, faults>>
      \/ /\ Emit(Requested(h.id, h.key))
         /\ Requested(h.id, h.key) \in Event /\ Meant(Requested(h.id, h.key))
  <2>1. Requested(h.id, h.key) \in Event
    BY <1>1, EventsTyped
  <2>2. Meant(Requested(h.id, h.key))
    BY <1>1, PairsAreSome DEF Meant, Requested
  <2> QED
    BY <1>2, <2>1, <2>2
<1>5. ASSUME ~UNCHANGED <<page, flows>>
      PROVE  \E f \in flows, g \in Flow :
               /\ f.step = "posted" /\ Alike(f, g) /\ Named(f, g) /\ g.seen = f.seen
               /\ \/ g.step = "register" /\ Becomes(f, g) /\ UNCHANGED page
                  \/ /\ g.step = "store"
                     /\ \E p \in Page : Registered(f.b, p) /\ Shows(f.b, p, (flows \ {f}) \cup {g})
  <2>1. PICK f \in caller :
           IF refused THEN Becomes(f, [f EXCEPT !.step = "register"]) /\ UNCHANGED page
           ELSE Show(f.b, [page[f.b] EXCEPT !.dev = h.id, !.cache = "none", !.items = Blank],
                     (flows \ {f}) \cup {[f EXCEPT !.step = "store"]})
    BY <1>2, <1>5
  <2>2. f \in flows /\ f.step = "posted"
    BY DEF Waits
  <2>3. f \in Flow /\ f.b \in Browsers /\ page[f.b] \in Page /\ flows \ {f} \in SUBSET Flow
    BY <2>2, FlowTyped
  <2>4. CASE refused
    <3> DEFINE g == [f EXCEPT !.step = "register"]
    <3>1. g \in Flow /\ Alike(f, g) /\ Named(f, g) /\ g.step = "register" /\ g.seen = f.seen
      BY <2>3 DEF Flow, Alike, Named
    <3>2. Becomes(f, g) /\ UNCHANGED page
      BY <2>1, <2>4
    <3> QED
      BY <2>2, <3>1, <3>2
  <2>5. CASE ~refused
    <3> DEFINE g == [f EXCEPT !.step = "store"]
               i == h.id
               p == [page[f.b] EXCEPT !.dev = i, !.cache = "none", !.items = Blank]
    <3>1. g \in Flow /\ Alike(f, g) /\ Named(f, g) /\ g.step = "store" /\ g.seen = f.seen
      BY <2>3 DEF Flow, Alike, Named
    <3>2. Show(f.b, p, (flows \ {f}) \cup {g})
      BY <2>1, <2>5
    <3>3. i \in Pairs
      BY <1>1
    <3> HIDE DEF i
    <3>4. p \in Page /\ Registered(f.b, p)
      BY <2>3, <3>3, BlankFacts DEF Page, Registered
    <3> HIDE DEF g, p
    <3>5. Shows(f.b, p, (flows \ {f}) \cup {g})
      BY <2>3, <3>1, <3>2, <3>4, ShowDoes
    <3> QED
      BY <2>2, <3>1, <3>4, <3>5
  <2> QED
    BY <2>4, <2>5
<1> QED
  BY <1>1, <1>2, <1>3, <1>4, <1>5

-----------------------------------------------------------------------------
(* What most steps have in common.                                         *)

\* A flow that has just begun, other than an approval.
Light(g) ==
  /\ g.b \in Browsers /\ g.step \in {"list", "devices", "rows", "ask", "revoke", "leave"} /\ g.seen = Blank
  /\ g.keyed => idb[g.b].key # None

\* A flow that goes on from f without a listing, a pair or a key that it did not have.
Passes(f, g) ==
  /\ Alike(f, g) /\ Named(f, g) /\ g.seen \in {f.seen, Blank}
  /\ g.step \in {"register", "posted", "store", "devices", "set", "ask", "wrap", "leave"}
  /\ g.step \in Registering => f.step \in Registering

Eases(S) == \A g \in S : g \in flows \/ Light(g) \/ \E f \in flows : Passes(f, g)
Eased == flows' \subseteq Flow /\ Eases(flows')

\* No flow goes on to register a pair.
Calm(S) == \A g \in S : g.step \in Registering => g \in flows

\* The pages keep their listings and requests or drop them.
PagesEased ==
  /\ page' \in [Browsers -> Page]
  /\ \A b \in Browsers : /\ page'[b].items \in {page[b].items, Blank}
                         /\ page'[b].asked \in {page[b].asked, None}

LEMMA ShowsEases ==
  ASSUME NEW b \in Browsers, NEW p \in Page, NEW running, Shows(b, p, running), Eases(running)
  PROVE  Eased /\ (Calm(running) => Calm(flows'))
<1>1. \A g \in flows' \ running : Light(g)
  BY DEF Shows, Begun, Light
<1>2. Eased
  BY <1>1 DEF Shows, Eased, Eases
<1>3. Calm(running) => Calm(flows')
  BY <1>1 DEF Light, Calm, Registering
<1> QED
  BY <1>2, <1>3

LEMMA ShowsPage ==
  ASSUME NEW b \in Browsers, NEW p \in Page, NEW running, Shows(b, p, running),
         p.items \in {page[b].items, Blank}, p.asked \in {page[b].asked, None}
  PROVE  PagesEased
BY DEF Shows, PagesEased

LEMMA TurnedPage ==
  ASSUME NEW b \in Browsers, Turned(b),
         page'[b].items \in {page[b].items, Blank}, page'[b].asked \in {page[b].asked, None}
  PROVE  PagesEased
BY DEF Turned, PagesEased

LEMMA SamePages ==
  ASSUME SyncTypes, UNCHANGED page
  PROVE  PagesEased
BY DEF SyncTypes, PagesEased

LEMMA BecomesEases ==
  ASSUME SyncTypes, NEW f \in flows, NEW g \in Flow, Becomes(f, g), Light(g) \/ Passes(f, g)
  PROVE  Eased /\ (g.step \notin Registering => Calm(flows'))
BY FlowTyped DEF Becomes, Eased, Eases, Calm

LEMMA FewerEase ==
  ASSUME SyncTypes, flows' \subseteq flows
  PROVE  Eased /\ Calm(flows')
BY DEF SyncTypes, Eased, Eases, Calm

LEMMA CallEases ==
  ASSUME SyncTypes, NEW g \in Flow, Light(g), flows' = flows \cup {g}
  PROVE  Eased /\ Calm(flows')
BY DEF SyncTypes, Eased, Eases, Calm, Light, Registering

\* The people and the browser call functions of a page.
Plain(b) ==
  \/ SignIn(b) \/ Reload(b) \/ Visible(b) \/ Send(b) \/ Prefetch(b) \/ Expires(b)
  \/ syncDismissed(b) \/ Revalidate(b) \/ NotifyAgain(b) \/ Leave(b)

LEMMA PlainEases ==
  ASSUME SyncTypes, NEW b \in Browsers, Plain(b)
  PROVE  Eased /\ PagesEased /\ Calm(flows')
<1>1. CASE SignIn(b) \/ Visible(b) \/ Send(b)
  <2>1. PICK p \in Page, g \in Flow :
           /\ p.items = page[b].items /\ p.asked = page[b].asked
           /\ Opens(g, b) /\ Shows(b, p, flows \cup {g})
    BY <1>1, OpensDoes
  <2>2. Light(g)
    BY <2>1 DEF Opens, Begun, Light
  <2>3. Eases(flows \cup {g}) /\ Calm(flows \cup {g})
    BY <2>2 DEF Eases, Calm, Light, Registering
  <2> QED
    BY <2>1, <2>3, ShowsEases, ShowsPage
<1>2. CASE Reload(b)
  <2>1. /\ page' \in [Browsers -> Page] /\ \A e \in Browsers \ {b} : page'[e] = page[e]
        /\ page'[b].items = Blank /\ page'[b].asked = None
    BY <1>2, ReloadDoes
  <2>2. PagesEased
    BY <2>1, TurnedPage DEF Turned
  <2>3. PICK g \in Flow : Opens(g, b) /\ flows' = (flows \ FlowsOf(b)) \cup {g}
    BY <1>2, ReloadDoes
  <2>4. Light(g)
    BY <2>3 DEF Opens, Begun, Light
  <2>5. Eased /\ Calm(flows')
    BY <2>3, <2>4 DEF SyncTypes, Eased, Eases, Calm, Light, Registering
  <2> QED
    BY <2>2, <2>5
<1>3. CASE Prefetch(b)
  <2>1. PagesEased
    BY <1>3, PrefetchDoes, TurnedPage
  <2>2. PICK g \in Flow : Begun(g, b, "ask", None) /\ ~g.keyed /\ flows' = flows \cup {g}
    BY <1>3, PrefetchDoes
  <2>3. Light(g)
    BY <2>2 DEF Begun, Light
  <2> QED
    BY <2>1, <2>2, <2>3, CallEases
<1>4. CASE Expires(b) \/ syncDismissed(b)
  <2>1. PagesEased
    BY <1>4, PageDoes, TurnedPage
  <2>2. UNCHANGED flows
    BY <1>4 DEF Expires, syncDismissed
  <2> QED
    BY <2>1, <2>2, FewerEase
<1>5. CASE Revalidate(b)
  <2>1. PICK g \in Flow : Begun(g, b, "devices", page[b].dev) /\ ~g.keyed /\ flows' = flows \cup {g}
    BY <1>5, RevalidateDoes
  <2>2. Light(g)
    BY <2>1 DEF Begun, Light
  <2>3. UNCHANGED page
    BY <1>5 DEF Revalidate
  <2> QED
    BY <2>1, <2>2, <2>3, CallEases, SamePages
<1>6. CASE NotifyAgain(b)
  <2>1. UNCHANGED <<page, flows>>
    BY <1>6 DEF NotifyAgain
  <2> QED
    BY <2>1, FewerEase, SamePages
<1>7. CASE Leave(b)
  <2>1. PICK g \in Flow : /\ g.b = b /\ g.step \in {"leave", "revoke"} /\ ~g.keyed /\ g.seen = Blank
                          /\ flows' = flows \cup {g}
    BY <1>7, LeaveDoes
  <2>2. Light(g)
    BY <2>1 DEF Light
  <2>3. UNCHANGED page
    BY <1>7 DEF Leave
  <2> QED
    BY <2>1, <2>2, <2>3, CallEases, SamePages
<1> QED
  BY <1>1, <1>2, <1>3, <1>4, <1>5, <1>6, <1>7 DEF Plain

LEMMA HandleEases ==
  ASSUME SyncTypes, Provided, NEW b \in Browsers, Handle(b)
  PROVE  Eased /\ Calm(flows')
<1>1. flows' \subseteq Flow /\ flows \subseteq flows'
      /\ \A g \in flows' \ flows : Begun(g, b, "devices", page[b].dev) /\ ~g.keyed
  BY HandleDoes
<1>2. \A g \in flows' \ flows : Light(g)
  BY <1>1 DEF Begun, Light
<1> QED
  BY <1>1, <1>2 DEF Eased, Eases, Calm, Light, Registering

\* A flow takes a step, and learns no listing and no pair by it.
Light1(f) == Stuck(f) \/ RegisterFind(f) \/ AnswerLost(f) \/ StoreKey(f) \/ Evaluate(f) \/ SetSyncState(f)
Light2(f) == OwnRows(f) \/ FetchFulfilled(f) \/ Post(f) \/ Revoke(f) \/ logout(f) \/ Fails(f)

LEMMA StepEases ==
  ASSUME SyncTypes, Provided, NEW f \in flows, Light1(f) \/ Light2(f)
  PROVE  /\ Eased /\ (~FetchFulfilled(f) => PagesEased)
         /\ ~RegisterFind(f) /\ ~AnswerLost(f) => Calm(flows')
<1>1. f.b \in Browsers /\ f \in Flow
  BY FlowTyped
<1>2. CASE Stuck(f)
  <2>1. flows' = flows \ {f} /\ UNCHANGED page
    BY <1>2 DEF Stuck, Ends
  <2> QED
    BY <2>1, FewerEase, SamePages
<1>3. CASE RegisterFind(f)
  <2>1. PICK g \in Flow : Becomes(f, g) /\ Alike(f, g) /\ Named(f, g) /\ g.step = "posted" /\ g.seen = f.seen
    BY <1>3, RegisterFindDoes
  <2>2. f.step = "register"
    BY <1>3 DEF RegisterFind
  <2>3. Passes(f, g)
    BY <2>1, <2>2 DEF Passes, Registering
  <2>4. UNCHANGED page
    BY <1>3 DEF RegisterFind
  <2> QED
    BY <1>3, <2>1, <2>3, <2>4, BecomesEases, SamePages DEF Registering
<1>4. CASE AnswerLost(f)
  <2>1. UNCHANGED page
    BY <1>4 DEF AnswerLost
  <2>2. CASE Ends(f)
    BY <2>1, <2>2, FewerEase, SamePages DEF Ends
  <2>3. CASE ~Ends(f)
    <3>1. PICK g \in Flow : Becomes(f, g) /\ Alike(f, g) /\ Named(f, g) /\ g.step = "register" /\ g.seen = f.seen
      BY <1>4, <2>3, AnswerLostDoes
    <3>2. Passes(f, g)
      BY <1>4, <3>1, AnswerLostDoes DEF Passes, Registering
    <3> QED
      BY <1>4, <2>1, <3>1, <3>2, BecomesEases, SamePages DEF Registering
  <2> QED
    BY <2>2, <2>3
<1>5. CASE StoreKey(f)
  <2>1. PICK g \in Flow : Becomes(f, g) /\ Alike(f, g) /\ Named(f, g) /\ g.step = "devices" /\ g.seen = f.seen
    BY <1>5, StoreKeyDoes
  <2>2. Passes(f, g)
    BY <2>1 DEF Passes, Registering
  <2>3. UNCHANGED page
    BY <1>5 DEF StoreKey
  <2> QED
    BY <2>1, <2>2, <2>3, BecomesEases, SamePages DEF Registering
<1>6. CASE Evaluate(f)
  <2>1. PICK g \in Flow : Becomes(f, g) /\ Alike(f, g) /\ Named(f, g) /\ g.step = "set" /\ g.seen = f.seen
    BY <1>6, EvaluateDoes
  <2>2. Passes(f, g)
    BY <2>1 DEF Passes, Registering
  <2>3. UNCHANGED page
    BY <1>6 DEF Evaluate
  <2> QED
    BY <2>1, <2>2, <2>3, BecomesEases, SamePages DEF Registering
<1>7. CASE SetSyncState(f)
  <2>1. PICK running \in SUBSET Flow, p \in Page :
           /\ \A g \in running \ flows : g.b = f.b /\ g.step = "rows" /\ ~g.keyed /\ g.seen = Blank
           /\ p.items = page[f.b].items /\ p.asked = page[f.b].asked /\ Shows(f.b, p, running)
    BY <1>7, SetSyncDoes
  <2>2. \A g \in running \ flows : Light(g)
    BY <1>1, <2>1 DEF Light
  <2>3. Eases(running) /\ Calm(running)
    BY <2>2 DEF Eases, Calm, Light, Registering
  <2> QED
    BY <1>1, <2>1, <2>3, ShowsEases, ShowsPage
<1>8. CASE OwnRows(f)
  <2>1. PICK g \in Flow : Becomes(f, g) /\ Alike(f, g) /\ Named(f, g) /\ g.step \in {"wrap", "ask"} /\ g.seen = f.seen
    BY <1>8, OwnRowsDoes
  <2>2. Passes(f, g)
    BY <2>1 DEF Passes, Registering
  <2>3. PagesEased
    BY <1>1, <1>8, OwnRowsDoes, TurnedPage DEF Carried
  <2> QED
    BY <2>1, <2>2, <2>3, BecomesEases DEF Registering
<1>9. CASE FetchFulfilled(f)
  <2>0. f.step = "got" /\ ~Fails(f) /\ ~OwnRows(f)
    BY <1>9 DEF FetchFulfilled, Fails, OwnRows
  <2>1. CASE Ends(f)
    BY <1>9, <2>1, FewerEase DEF Ends
  <2>2. CASE ~Ends(f)
    <3>1. PICK g \in Flow : Becomes(f, g) /\ Alike(f, g) /\ Named(f, g) /\ g.step = "wrap" /\ g.seen = Blank
      BY <1>9, <2>2, FetchFulfilledDoes
    <3>2. Passes(f, g)
      BY <3>1 DEF Passes, Registering
    <3> QED
      BY <1>9, <3>1, <3>2, BecomesEases DEF Registering
  <2> QED
    BY <2>1, <2>2
<1>10. CASE Post(f)
  <2>1. UNCHANGED page
    BY <1>10 DEF Post
  <2>2. flows' \subseteq flows
    BY <1>10 DEF Post, Ends
  <2> QED
    BY <2>1, <2>2, FewerEase, SamePages
<1>11. CASE Revoke(f)
  <2>1. PICK g \in Flow : Becomes(f, g) /\ Alike(f, g) /\ Named(f, g) /\ g.step = "leave" /\ g.seen = f.seen
    BY <1>11, RevokeDoes
  <2>2. Passes(f, g)
    BY <2>1 DEF Passes, Registering
  <2>3. UNCHANGED page
    BY <1>11 DEF Revoke
  <2> QED
    BY <2>1, <2>2, <2>3, BecomesEases, SamePages DEF Registering
<1>12. CASE logout(f)
  <2>1. PagesEased
    BY <1>1, <1>12, LogoutDoes, TurnedPage
  <2>2. flows' \subseteq flows
    BY <1>12 DEF logout, Ends
  <2> QED
    BY <2>1, <2>2, FewerEase
<1>13. CASE Fails(f)
  <2>1. PagesEased
    BY <1>1, <1>13, FailsDoes, TurnedPage DEF Carried, Relisted
  <2>2. CASE Ends(f)
    BY <2>1, <2>2, FewerEase DEF Ends
  <2>3. CASE ~Ends(f)
    <3>1. PICK g \in Flow : /\ Becomes(f, g) /\ Alike(f, g) /\ Named(f, g) /\ g.seen = f.seen
                            /\ \/ f.step = "devices" /\ g.step = "set" /\ g.next = "idle"
                               \/ f.step = "revoke" /\ g.step = "leave"
      BY <1>13, <2>3, FailsDoes
    <3>2. Passes(f, g)
      BY <3>1 DEF Passes, Registering
    <3> QED
      BY <2>1, <3>1, <3>2, BecomesEases DEF Registering
  <2> QED
    BY <2>2, <2>3
<1> QED
  BY <1>2, <1>3, <1>4, <1>5, <1>6, <1>7, <1>8, <1>9, <1>10, <1>11, <1>12, <1>13 DEF Light1, Light2

LEMMA WriteEases ==
  ASSUME SyncTypes, NEW h \in handlers, RegisterWrite(h)
  PROVE  Eased /\ PagesEased
<1>1. CASE UNCHANGED <<page, flows>>
  BY <1>1, FewerEase, SamePages
<1>2. CASE ~UNCHANGED <<page, flows>>
  <2>1. PICK f \in flows, g \in Flow :
          /\ f.step = "posted" /\ Alike(f, g) /\ Named(f, g) /\ g.seen = f.seen
          /\ \/ g.step = "register" /\ Becomes(f, g) /\ UNCHANGED page
             \/ /\ g.step = "store"
                /\ \E p \in Page : Registered(f.b, p) /\ Shows(f.b, p, (flows \ {f}) \cup {g})
    BY <1>2, WriteDoes
  <2>2. Passes(f, g) /\ f.b \in Browsers
    BY <2>1, FlowTyped DEF Passes, Registering
  <2>3. CASE Becomes(f, g) /\ UNCHANGED page
    BY <2>2, <2>3, BecomesEases, SamePages
  <2>4. CASE ~(Becomes(f, g) /\ UNCHANGED page)
    <3>1. PICK p \in Page : Registered(f.b, p) /\ Shows(f.b, p, (flows \ {f}) \cup {g})
      BY <2>1, <2>4
    <3>2. Eases((flows \ {f}) \cup {g})
      BY <2>2 DEF Eases
    <3> QED
      BY <2>2, <3>1, <3>2, ShowsEases, ShowsPage DEF Registered
  <2> QED
    BY <2>3, <2>4
<1> QED
  BY <1>1, <1>2

-----------------------------------------------------------------------------
(* The state keeps its form.                                               *)

\* What a browser has stored it keeps.
Holds == \A b \in Browsers : /\ idb[b].id # None => idb'[b].id # None
                             /\ idb[b].key # None => idb'[b].key # None

LEMMA LightReady ==
  ASSUME SyncTypes, Provided, Holds, NEW g, g \in flows \/ Light(g) \/ \E f \in flows : Passes(f, g)
  PROVE  Ready(g)'
<1>1. CASE g \in flows
  <2>1. Ready(g) /\ g.b \in Browsers
    BY <1>1, FlowTyped DEF Provided
  <2> QED
    BY <2>1 DEF Ready, Holds
<1>2. CASE Light(g)
  <2>1. g.step \notin Registering \cup Copying /\ g.step # "key"
    BY <1>2 DEF Light, Registering, Copying
  <2>2. g.keyed => idb'[g.b].key # None
    BY <1>2 DEF Light, Holds
  <2> QED
    BY <2>1, <2>2 DEF Ready, Copying
<1>3. CASE \E f \in flows : Passes(f, g)
  <2>1. PICK f \in flows : Passes(f, g)
    BY <1>3
  <2>2. Ready(f) /\ f.b \in Browsers /\ g.b = f.b /\ g.keyed = f.keyed /\ g.id = f.id /\ g.key = f.key
    BY <2>1, FlowTyped DEF Provided, Passes, Alike, Named
  <2>3. g.step # "key" /\ g.step \notin Copying /\ (g.step \in Registering => f.step \in Registering)
    BY <2>1 DEF Passes, Copying
  <2>4. g.keyed => idb'[g.b].key # None
    BY <2>2 DEF Ready, Holds
  <2>5. g.step \in Registering => g.id # None /\ g.key # None
    BY <2>2, <2>3 DEF Ready
  <2> QED
    BY <2>3, <2>4, <2>5 DEF Ready
<1> QED
  BY <1>1, <1>2, <1>3

LEMMA EasedReady ==
  ASSUME SyncTypes, Provided, Holds, Eased
  PROVE  \A g \in flows' : Ready(g)'
<1>1. ASSUME NEW g \in flows' PROVE Ready(g)'
  <2>1. g \in flows \/ Light(g) \/ \E f \in flows : Passes(f, g)
    BY <1>1 DEF Eased, Eases
  <2> QED
    BY <2>1, LightReady
<1> QED
  BY <1>1

LEMMA SameIdb ==
  ASSUME UNCHANGED idb
  PROVE  Holds
BY DEF Holds

\* One flow is added to those that are there or have just begun.
Added(g) == g \in Flow /\ flows' \subseteq Flow /\ \A x \in flows' : x = g \/ x \in flows \/ Light(x)

LEMMA AddedReady ==
  ASSUME SyncTypes, Provided, Holds, NEW g, Added(g), Ready(g)'
  PROVE  \A x \in flows' : Ready(x)'
<1>1. ASSUME NEW x \in flows', x # g PROVE Ready(x)'
  <2>1. x \in flows \/ Light(x)
    BY <1>1 DEF Added
  <2> QED
    BY <2>1, LightReady
<1> QED
  BY <1>1

LEMMA BecomesAdds ==
  ASSUME SyncTypes, NEW f \in flows, NEW g \in Flow, Becomes(f, g)
  PROVE  Added(g)
BY FlowTyped DEF Becomes, Added

LEMMA ShowsAdds ==
  ASSUME SyncTypes, NEW f \in flows, NEW g \in Flow, NEW p \in Page, Shows(f.b, p, (flows \ {f}) \cup {g})
  PROVE  Added(g) /\ g \in flows' /\ flows \ {f} \subseteq flows'
<1>1. f.b \in Browsers
  BY FlowTyped
<1>2. \A x \in flows' : x = g \/ x \in flows \/ Light(x)
  BY <1>1 DEF Shows, Begun, Light
<1> QED
  BY <1>2 DEF Shows, Added

\* The events that a page is to handle carry what their kind needs.
AllMeant == \A b \in Browsers : \A e \in Heard(b) : Meant(e)

LEMMA ProvidedAgain ==
  ASSUME Provided, Holds, \A b \in Browsers : idb'[b].key # None => idb'[b].id # None,
         \A g \in flows' : Ready(g)', AllMeant'
  PROVE  Provided'
BY DEF Provided, AllMeant

LEMMA SameMeant ==
  ASSUME Provided, \A b \in Browsers : Heard(b)' \subseteq Heard(b)
  PROVE  AllMeant'
BY DEF Provided, AllMeant

LEMMA SpreadMeant ==
  ASSUME SyncTypes, Provided, NEW e \in Event, Meant(e), Emit(e)
  PROVE  AllMeant'
<1>1. \A b \in Browsers : Heard(b)' \subseteq Heard(b) \cup {e}
  BY SpreadDoes
<1> QED
  BY <1>1 DEF Provided, AllMeant

LEMMA SameHeard ==
  ASSUME UNCHANGED inbox
  PROVE  \A b \in Browsers : Heard(b)' = Heard(b)
BY DEF Heard

LEMMA PlainKeeps ==
  ASSUME SyncTypes, NEW b \in Browsers, Plain(b)
  PROVE  /\ UNCHANGED <<rows, messages, idb, contact, made, mixed, promised>>
         /\ handlers' \subseteq Handler /\ missed' \subseteq Browsers
         /\ \A h \in handlers' : \E k \in handlers : h.id = k.id /\ h.key = k.key
         /\ told' \in [Browsers -> SUBSET Pairs] /\ \A e \in Browsers : told'[e] \subseteq told[e]
<1>1. /\ handlers \subseteq Handler /\ inbox \in [Browsers -> Seq(Event)]
      /\ told \in [Browsers -> SUBSET Pairs] /\ missed \subseteq Browsers
  BY DEF SyncTypes
<1>2. CASE Reload(b)
  <2>1. UNCHANGED <<rows, messages, idb, contact, made, mixed, promised>> /\ missed' = missed \ {b}
    BY <1>2 DEF Reload
  <2>2. /\ handlers' \subseteq Handler /\ \A h \in handlers' : \E k \in handlers : h.id = k.id /\ h.key = k.key
        /\ told' \in [Browsers -> SUBSET Pairs] /\ told'[b] = {} /\ \A e \in Browsers \ {b} : told'[e] = told[e]
    BY <1>2, ReloadDoes
  <2> QED
    BY <1>1, <2>1, <2>2
<1>3. CASE NotifyAgain(b)
  <2>1. UNCHANGED <<rows, messages, idb, contact, made, mixed, promised, handlers, told>>
    BY <1>3 DEF NotifyAgain
  <2>2. missed' \subseteq Browsers
    BY <1>3, NotifyDoes, SpreadDoes
  <2> QED
    BY <1>1, <2>1, <2>2
<1>4. CASE SignIn(b)
  <2>1. UNCHANGED <<rows, messages, idb, contact, made, mixed, promised, handlers, told>> /\ missed' = missed \ {b}
    BY <1>4 DEF SignIn
  <2> QED
    BY <1>1, <2>1
<1>5. CASE Visible(b) \/ Send(b) \/ Prefetch(b) \/ Expires(b) \/ syncDismissed(b) \/ Revalidate(b) \/ Leave(b)
  <2>1. UNCHANGED <<rows, messages, idb, contact, made, mixed, promised, handlers, told, missed>>
    BY <1>5 DEF Visible, Send, Prefetch, Expires, syncDismissed, Revalidate, Leave
  <2> QED
    BY <1>1, <2>1
<1> QED
  BY <1>2, <1>3, <1>4, <1>5 DEF Plain

LEMMA PlainHears ==
  ASSUME SyncTypes, NEW b \in Browsers, Plain(b), ~NotifyAgain(b)
  PROVE  inbox' \in [Browsers -> Seq(Event)] /\ \A e \in Browsers : Heard(e)' \subseteq Heard(e)
<1>1. CASE Reload(b)
  BY <1>1, ReloadDoes
<1>2. CASE \/ SignIn(b) \/ Visible(b) \/ Send(b) \/ Prefetch(b)
           \/ Expires(b) \/ syncDismissed(b) \/ Revalidate(b) \/ Leave(b)
  <2>1. UNCHANGED inbox
    BY <1>2 DEF SignIn, Visible, Send, Prefetch, Expires, syncDismissed, Revalidate, Leave
  <2> QED
    BY <2>1, SameHeard DEF SyncTypes
<1> QED
  BY <1>1, <1>2 DEF Plain

LEMMA PlainTypes ==
  ASSUME SyncTypes, Provided, NEW b \in Browsers, Plain(b)
  PROVE  SyncTypes' /\ Provided'
<1>1. Eased /\ PagesEased
  BY PlainEases
<1>2. /\ UNCHANGED <<rows, messages, idb, contact, made, mixed, promised>>
      /\ handlers' \subseteq Handler /\ missed' \subseteq Browsers /\ told' \in [Browsers -> SUBSET Pairs]
  BY PlainKeeps
<1>3. inbox' \in [Browsers -> Seq(Event)] /\ AllMeant'
  <2>1. CASE NotifyAgain(b)
    BY <2>1, NotifyDoes, SpreadDoes, SpreadMeant
  <2>2. CASE ~NotifyAgain(b)
    BY <2>2, PlainHears, SameMeant
  <2> QED
    BY <2>1, <2>2
<1>4. SyncTypes'
  BY <1>1, <1>2, <1>3 DEF SyncTypes, Eased, PagesEased
<1>5. Holds /\ \A e \in Browsers : idb'[e].key # None => idb'[e].id # None
  BY <1>2, SameIdb DEF Provided
<1>6. \A g \in flows' : Ready(g)'
  BY <1>1, <1>5, EasedReady
<1> QED
  BY <1>3, <1>4, <1>5, <1>6, ProvidedAgain

LEMMA HandleTypes ==
  ASSUME SyncTypes, Provided, NEW b \in Browsers, Handle(b)
  PROVE  SyncTypes' /\ Provided'
<1>1. Eased
  BY HandleEases
<1>2. UNCHANGED <<rows, messages, idb, handlers, contact, made, missed, mixed, promised>>
  BY DEF Handle
<1>3. /\ inbox' \in [Browsers -> Seq(Event)] /\ Turned(b) /\ told' \in [Browsers -> SUBSET Pairs]
      /\ Heard(b)' \subseteq Heard(b) /\ \A a \in Browsers \ {b} : Heard(a)' = Heard(a)
  BY HandleDoes
<1>4. SyncTypes'
  BY <1>1, <1>2, <1>3 DEF SyncTypes, Eased, Turned
<1>5. Holds /\ (\A e \in Browsers : idb'[e].key # None => idb'[e].id # None) /\ AllMeant'
  BY <1>2, <1>3, SameIdb, SameMeant DEF Provided
<1>6. \A g \in flows' : Ready(g)'
  BY <1>1, <1>5, EasedReady
<1> QED
  BY <1>4, <1>5, <1>6, ProvidedAgain

LEMMA LightTypes ==
  ASSUME SyncTypes, Provided, NEW f \in flows, Light1(f) \/ Light2(f)
  PROVE  SyncTypes' /\ Provided'
<1>1. Eased /\ f.b \in Browsers
  BY StepEases, FlowTyped
<1>2. page' \in [Browsers -> Page]
  <2>1. CASE FetchFulfilled(f)
    BY <2>1, FetchFulfilledDoes DEF Relisted, Turned
  <2>2. CASE ~FetchFulfilled(f)
    BY <2>2, StepEases DEF PagesEased
  <2> QED
    BY <2>1, <2>2
<1>3. CASE Stuck(f) \/ Evaluate(f) \/ SetSyncState(f) \/ OwnRows(f) \/ FetchFulfilled(f) \/ Fails(f)
  <2>1. UNCHANGED <<rows, messages, idb, handlers, inbox, contact, made, told, missed, mixed, promised>>
    BY <1>3 DEF Stuck, Evaluate, SetSyncState, OwnRows, FetchFulfilled, Fails
  <2>2. SyncTypes'
    BY <1>1, <1>2, <2>1 DEF SyncTypes, Eased
  <2>3. Holds /\ (\A e \in Browsers : idb'[e].key # None => idb'[e].id # None) /\ AllMeant'
    BY <2>1, SameIdb, SameHeard, SameMeant DEF Provided
  <2>4. \A g \in flows' : Ready(g)'
    BY <1>1, <2>3, EasedReady
  <2> QED
    BY <2>2, <2>3, <2>4, ProvidedAgain
<1>4. CASE RegisterFind(f) \/ AnswerLost(f)
  <2>1. UNCHANGED <<rows, messages, idb, inbox, contact, made, told, missed, mixed, promised>>
    BY <1>4 DEF RegisterFind, AnswerLost
  <2>2. handlers' \subseteq Handler
    <3>1. CASE RegisterFind(f)
      <4>1. PICK h \in Handler : handlers' = handlers \cup {h}
        BY <3>1, RegisterFindDoes
      <4> QED
        BY <4>1 DEF SyncTypes
    <3>2. CASE AnswerLost(f)
      BY <3>2, AnswerLostDoes
    <3> QED
      BY <1>4, <3>1, <3>2
  <2>3. SyncTypes'
    BY <1>1, <1>2, <2>1, <2>2 DEF SyncTypes, Eased
  <2>4. Holds /\ (\A e \in Browsers : idb'[e].key # None => idb'[e].id # None) /\ AllMeant'
    BY <2>1, SameIdb, SameHeard, SameMeant DEF Provided
  <2>5. \A g \in flows' : Ready(g)'
    BY <1>1, <2>4, EasedReady
  <2> QED
    BY <2>3, <2>4, <2>5, ProvidedAgain
<1>5. CASE StoreKey(f)
  <2>1. UNCHANGED <<rows, messages, handlers, inbox, contact, made, told, missed, mixed, promised>>
    BY <1>5 DEF StoreKey
  <2>2. StoresKey(f.b, f.key) /\ f.step = "key" /\ Ready(f)
    BY <1>5, StoreKeyDoes DEF Provided
  <2>3. SyncTypes'
    BY <1>1, <1>2, <2>1, <2>2 DEF SyncTypes, Eased, StoresKey
  <2>4. Holds /\ \A e \in Browsers : idb'[e].key # None => idb'[e].id # None
    BY <1>1, <2>2 DEF Provided, Ready, StoresKey, Holds, Registering
  <2>5. AllMeant' /\ \A g \in flows' : Ready(g)'
    BY <1>1, <2>1, <2>4, EasedReady, SameHeard, SameMeant
  <2> QED
    BY <2>3, <2>4, <2>5, ProvidedAgain
<1>6. CASE Post(f)
  <2>1. UNCHANGED <<rows, idb, handlers, contact, made, told, mixed, promised>>
    BY <1>6 DEF Post
  <2>2. /\ f.seen \in Listings /\ Len(messages) < MaxMessages /\ messages' = Append(messages, f.seen)
        /\ Emit(MessageNew(f.seen)) /\ MessageNew(f.seen) \in Event
    BY <1>6, PostDoes
  <2>3. messages' \in Seq(Listings) /\ Len(messages') <= MaxMessages
    BY <2>2, AppendDoes
  <2>4. inbox' \in [Browsers -> Seq(Event)] /\ missed' \subseteq Browsers
    BY <2>2, SpreadDoes
  <2>5. SyncTypes'
    BY <1>1, <1>2, <2>1, <2>3, <2>4 DEF SyncTypes, Eased
  <2>6. Holds /\ \A e \in Browsers : idb'[e].key # None => idb'[e].id # None
    BY <2>1, SameIdb DEF Provided
  <2>7. AllMeant'
    <3>1. Meant(MessageNew(f.seen))
      BY DEF Meant, MessageNew
    <3> QED
      BY <2>2, <3>1, SpreadMeant
  <2>8. \A g \in flows' : Ready(g)'
    BY <1>1, <2>6, EasedReady
  <2> QED
    BY <2>5, <2>6, <2>7, <2>8, ProvidedAgain
<1>7. CASE Revoke(f) \/ logout(f)
  <2>1. UNCHANGED <<messages, idb, handlers, contact, made, missed, mixed, promised>>
    BY <1>7 DEF Revoke, logout
  <2>2. /\ rows' \in Listings /\ told' \in [Browsers -> SUBSET Pairs]
        /\ inbox' \in [Browsers -> Seq(Event)] /\ \A b \in Browsers : Heard(b)' \subseteq Heard(b)
    <3>1. CASE Revoke(f)
      <4>1. UNCHANGED inbox
        BY <3>1 DEF Revoke
      <4> QED
        BY <3>1, <4>1, RevokeDoes, SameHeard DEF SyncTypes
    <3>2. CASE logout(f)
      <4>1. UNCHANGED rows
        BY <3>2 DEF logout
      <4>2. /\ told' \in [Browsers -> SUBSET Pairs] /\ inbox' \in [Browsers -> Seq(Event)]
            /\ Heard(f.b)' = {} /\ \A b \in Browsers \ {f.b} : Heard(b)' = Heard(b)
        BY <3>2, LogoutDoes
      <4> QED
        BY <4>1, <4>2 DEF SyncTypes
    <3> QED
      BY <1>7, <3>1, <3>2
  <2>3. SyncTypes'
    BY <1>1, <1>2, <2>1, <2>2 DEF SyncTypes, Eased
  <2>4. Holds /\ (\A e \in Browsers : idb'[e].key # None => idb'[e].id # None) /\ AllMeant'
    BY <2>1, <2>2, SameIdb, SameMeant DEF Provided
  <2>5. \A g \in flows' : Ready(g)'
    BY <1>1, <2>4, EasedReady
  <2> QED
    BY <2>3, <2>4, <2>5, ProvidedAgain
<1> QED
  BY <1>3, <1>4, <1>5, <1>6, <1>7 DEF Light1, Light2

LEMMA WriteTypes ==
  ASSUME SyncTypes, Provided, NEW h \in handlers, RegisterWrite(h)
  PROVE  SyncTypes' /\ Provided'
<1>1. Eased /\ PagesEased
  BY WriteEases
<1>2. UNCHANGED <<messages, idb, contact, made, told, mixed, promised>>
  BY DEF RegisterWrite
<1>3. /\ handlers' = handlers \ {h} /\ rows' \in Listings
      /\ \/ UNCHANGED <<inbox, missed, faults>>
         \/ /\ Emit(Requested(h.id, h.key))
            /\ Requested(h.id, h.key) \in Event /\ Meant(Requested(h.id, h.key))
  BY WriteDoes
<1>4. inbox' \in [Browsers -> Seq(Event)] /\ missed' \subseteq Browsers /\ AllMeant'
  <2>1. CASE UNCHANGED <<inbox, missed, faults>>
    BY <2>1, SameHeard, SameMeant DEF SyncTypes
  <2>2. CASE ~UNCHANGED <<inbox, missed, faults>>
    BY <1>3, <2>2, SpreadDoes, SpreadMeant
  <2> QED
    BY <2>1, <2>2
<1>5. SyncTypes'
  BY <1>1, <1>2, <1>3, <1>4 DEF SyncTypes, Eased, PagesEased
<1>6. Holds /\ \A e \in Browsers : idb'[e].key # None => idb'[e].id # None
  BY <1>2, SameIdb DEF Provided
<1>7. \A g \in flows' : Ready(g)'
  BY <1>1, <1>6, EasedReady
<1> QED
  BY <1>4, <1>5, <1>6, <1>7, ProvidedAgain

LEMMA ContactTypes ==
  ASSUME SyncTypes, Provided, ContactSends
  PROVE  SyncTypes' /\ Provided'
<1>1. UNCHANGED <<rows, idb, page, flows, handlers, made, told, mixed, promised>>
  BY DEF ContactSends
<1>2. /\ contact' \in Listings /\ Len(messages) < MaxMessages /\ messages' = Append(messages, contact')
      /\ Emit(MessageNew(contact')) /\ MessageNew(contact') \in Event
  BY ContactDoes
<1> DEFINE L == contact'
<1>3. L \in Listings /\ messages' = Append(messages, L)
  BY <1>2
<1> HIDE DEF L
<1>4. messages' \in Seq(Listings) /\ Len(messages') <= MaxMessages
  BY <1>2, <1>3, AppendDoes
<1>5. inbox' \in [Browsers -> Seq(Event)] /\ missed' \subseteq Browsers
  BY <1>2, SpreadDoes
<1>6. SyncTypes'
  BY <1>1, <1>2, <1>4, <1>5 DEF SyncTypes
<1>7. Holds /\ \A e \in Browsers : idb'[e].key # None => idb'[e].id # None
  BY <1>1, SameIdb DEF Provided
<1>8. AllMeant'
  <2>1. Meant(MessageNew(contact'))
    BY DEF Meant, MessageNew
  <2> QED
    BY <1>2, <2>1, SpreadMeant
<1>9. \A g \in flows' : Ready(g)'
  BY <1>1, <1>7, EasedReady, FewerEase
<1> QED
  BY <1>6, <1>7, <1>8, <1>9, ProvidedAgain

LEMMA ApproveTypes ==
  ASSUME SyncTypes, Provided, NEW b \in Browsers, Approve(b)
  PROVE  SyncTypes' /\ Provided'
<1>1. UNCHANGED <<rows, messages, idb, page, handlers, inbox, contact, made, told, missed, mixed, promised>>
  BY DEF Approve
<1>2. page[b].asked # None /\ page[b].asked \in Pairs \X Pairs /\ page[b].dev # None
  BY ApproveDoes
<1>3. PICK g \in Flow : /\ g.b = b /\ g.step = "check" /\ ~g.keyed
                        /\ g.src = page[b].dev /\ g.id = page[b].asked[1] /\ g.key = page[b].asked[2]
                        /\ flows' = flows \cup {g}
  BY ApproveDoes
<1>4. g.id # None /\ g.key # None /\ g.src # None
  BY <1>2, <1>3, PairsAreSome
<1>5. Ready(g)'
  BY <1>3, <1>4 DEF Ready
<1>6. Added(g)
  BY <1>3 DEF Added, SyncTypes
<1>7. SyncTypes'
  BY <1>1, <1>6 DEF SyncTypes, Added
<1>8. Holds /\ (\A e \in Browsers : idb'[e].key # None => idb'[e].id # None) /\ AllMeant'
  BY <1>1, SameIdb, SameHeard, SameMeant DEF Provided
<1>9. \A x \in flows' : Ready(x)'
  BY <1>5, <1>6, <1>8, AddedReady
<1> QED
  BY <1>7, <1>8, <1>9, ProvidedAgain

\* A flow reads a listing or the directory, or goes on with the approval.
LEMMA ReadTypes ==
  ASSUME SyncTypes, Provided, NEW f \in flows, List(f) \/ FetchRead(f) \/ Wrap(f) \/ Check(f)
  PROVE  /\ SyncTypes' /\ Provided'
         /\ UNCHANGED <<rows, messages, idb, page, handlers, inbox, contact, made, told, missed, mixed, promised>>
<1>1. UNCHANGED <<rows, messages, idb, page, handlers, inbox, contact, made, told, missed, mixed, promised>>
  BY DEF List, FetchRead, Wrap, Check
<1>2. flows' \subseteq Flow /\ \A x \in flows' : Ready(x)'
  <2>1. CASE Ends(f)
    <3>1. Eased
      BY <2>1, FewerEase DEF Ends
    <3> QED
      BY <1>1, <3>1, EasedReady, SameIdb DEF Eased
  <2>2. CASE ~Ends(f)
    <3>1. PICK g \in Flow : /\ Becomes(f, g) /\ Alike(f, g) /\ Named(f, g)
                            /\ g.step \in {"listed", "got", "post", "page"} /\ (g.step = "page" => f.step = "check")
      <4>1. CASE List(f)
        BY <4>1, ListDoes
      <4>2. CASE FetchRead(f)
        BY <4>2, FetchReadDoes
      <4>3. CASE Wrap(f)
        BY <2>2, <4>3, WrapDoes
      <4>4. CASE Check(f)
        BY <2>2, <4>4, CheckDoes
      <4> QED
        BY <4>1, <4>2, <4>3, <4>4
    <3>2. Ready(f) /\ Ready(g)' /\ Holds
      BY <1>1, <3>1, SameIdb DEF Provided, Ready, Registering, Copying, Alike, Named
    <3>3. Added(g)
      BY <3>1, BecomesAdds
    <3> QED
      BY <3>2, <3>3, AddedReady DEF Added
  <2> QED
    BY <2>1, <2>2
<1>3. SyncTypes'
  BY <1>1, <1>2 DEF SyncTypes
<1>4. Holds /\ (\A e \in Browsers : idb'[e].key # None => idb'[e].id # None) /\ AllMeant'
  BY <1>1, SameIdb, SameHeard, SameMeant DEF Provided
<1> QED
  BY <1>1, <1>2, <1>3, <1>4, ProvidedAgain

LEMMA KeyedTypes ==
  ASSUME SyncTypes, Provided, NEW f \in flows, Keyed(f)
  PROVE  SyncTypes' /\ Provided' /\ PagesEased
<1>1. UNCHANGED <<rows, messages, idb, handlers, inbox, contact, made, told, missed, mixed, promised>>
  BY DEF Keyed
<1>2. PICK g \in Flow :
           /\ Alike(f, g) /\ g.id = idb[f.b].id /\ g.key = idb[f.b].key
           /\ g.id # None /\ g.key # None /\ f.keyed
           /\ \/ g.step = "register" /\ Becomes(f, g) /\ UNCHANGED page
              \/ /\ g.step = "devices"
                 /\ \E p \in Page : Paged(f.b, p) /\ Shows(f.b, p, (flows \ {f}) \cup {g})
  BY KeyedDoes
<1>3. Added(g) /\ PagesEased
  <2>1. CASE Becomes(f, g) /\ UNCHANGED page
    BY <2>1, BecomesAdds, SamePages
  <2>2. CASE ~(Becomes(f, g) /\ UNCHANGED page)
    <3>1. PICK p \in Page : Paged(f.b, p) /\ Shows(f.b, p, (flows \ {f}) \cup {g})
      BY <1>2, <2>2
    <3> QED
      BY <3>1, ShowsAdds, ShowsPage, FlowTyped DEF Paged
  <2> QED
    BY <2>1, <2>2
<1>4. Ready(g)'
  BY <1>1, <1>2 DEF Provided, Ready, Copying, Alike
<1>5. SyncTypes'
  BY <1>1, <1>3 DEF SyncTypes, PagesEased, Added
<1>6. Holds /\ (\A e \in Browsers : idb'[e].key # None => idb'[e].id # None) /\ AllMeant'
  BY <1>1, SameIdb, SameHeard, SameMeant DEF Provided
<1>7. \A x \in flows' : Ready(x)'
  BY <1>3, <1>4, <1>6, AddedReady
<1> QED
  BY <1>3, <1>5, <1>6, <1>7, ProvidedAgain

LEMMA NewPairTypes ==
  ASSUME SyncTypes, Provided, NEW f \in flows, NewPair(f)
  PROVE  SyncTypes' /\ Provided' /\ PagesEased
<1>1. /\ UNCHANGED <<rows, messages, idb, handlers, inbox, contact, told, missed, promised>>
      /\ mixed' \subseteq mixed \cup {f.b} /\ ~f.keyed
  BY DEF NewPair
<1>2. PICK g \in Flow, p \in Page :
           /\ Alike(f, g) /\ g.id = g.key /\ g.id \in Pairs
           /\ g.step = "register" /\ made' \in [Browsers -> 0 .. MaxPairs]
           /\ Paged(f.b, p) /\ Shows(f.b, p, (flows \ {f}) \cup {g})
  BY NewPairDoes
<1>3. Added(g) /\ PagesEased
  BY <1>2, ShowsAdds, ShowsPage, FlowTyped DEF Paged
<1>4. Ready(g)'
  BY <1>1, <1>2, PairsAreSome DEF Ready, Copying, Alike
<1>5. mixed' \subseteq Browsers
  BY <1>1, FlowTyped DEF SyncTypes
<1>6. SyncTypes'
  BY <1>1, <1>2, <1>3, <1>5 DEF SyncTypes, PagesEased, Added
<1>7. Holds /\ (\A e \in Browsers : idb'[e].key # None => idb'[e].id # None) /\ AllMeant'
  BY <1>1, SameIdb, SameHeard, SameMeant DEF Provided
<1>8. \A x \in flows' : Ready(x)'
  BY <1>3, <1>4, <1>7, AddedReady
<1> QED
  BY <1>3, <1>6, <1>7, <1>8, ProvidedAgain

LEMMA StoreIdTypes ==
  ASSUME SyncTypes, Provided, NEW f \in flows, StoreId(f)
  PROVE  SyncTypes' /\ Provided' /\ PagesEased
<1>1. UNCHANGED <<rows, messages, handlers, inbox, contact, made, told, missed, mixed, promised>>
  BY DEF StoreId
<1>2. StoresId(f.b, f.id) /\ f.step = "store" /\ f.id # None /\ f.key # None /\ f.b \in Browsers
  BY StoreIdDoes, FlowTyped DEF Provided, Ready, Registering
<1>3. PICK g \in Flow :
              /\ Alike(f, g) /\ Named(f, g)
              /\ \/ g.step = "key" /\ ~f.keyed /\ Becomes(f, g) /\ UNCHANGED page
                 \/ /\ g.step = "devices" /\ f.keyed
                    /\ \E p \in Page : Paged(f.b, p) /\ Shows(f.b, p, (flows \ {f}) \cup {g})
  BY StoreIdDoes
<1>4. Added(g) /\ PagesEased
  <2>1. CASE Becomes(f, g) /\ UNCHANGED page
    BY <2>1, BecomesAdds, SamePages
  <2>2. CASE ~(Becomes(f, g) /\ UNCHANGED page)
    <3>1. PICK p \in Page : Paged(f.b, p) /\ Shows(f.b, p, (flows \ {f}) \cup {g})
      BY <1>3, <2>2
    <3> QED
      BY <3>1, ShowsAdds, ShowsPage, FlowTyped DEF Paged
  <2> QED
    BY <2>1, <2>2
<1>5. Holds /\ \A e \in Browsers : idb'[e].key # None => idb'[e].id # None
  BY <1>2 DEF Holds, StoresId, Provided
<1>6. Ready(g)'
  <2>1. Ready(f)
    BY DEF Provided
  <2> QED
    BY <1>2, <1>3, <2>1 DEF Ready, Copying, Alike, Named, StoresId
<1>7. SyncTypes'
  BY <1>1, <1>2, <1>4 DEF SyncTypes, PagesEased, Added, StoresId
<1>8. AllMeant' /\ \A x \in flows' : Ready(x)'
  BY <1>1, <1>4, <1>5, <1>6, AddedReady, SameHeard, SameMeant
<1> QED
  BY <1>4, <1>5, <1>7, <1>8, ProvidedAgain

LEMMA EndedReady ==
  ASSUME SyncTypes, Provided, Holds, NEW f \in flows, Ends(f)
  PROVE  flows' \subseteq Flow /\ \A x \in flows' : Ready(x)'
<1>1. Eased
  BY FewerEase DEF Ends
<1> QED
  BY <1>1, EasedReady DEF Eased

LEMMA CopyReady ==
  ASSUME SyncTypes, Provided, Holds, NEW f \in flows, f.step \in Copying, NEW g \in Flow,
         Becomes(f, g), Alike(f, g), Named(f, g), g.step \in Copying
  PROVE  flows' \subseteq Flow /\ \A x \in flows' : Ready(x)'
<1>1. Ready(f) /\ f.b \in Browsers
  BY FlowTyped DEF Provided
<1>2. Ready(g)'
  BY <1>1 DEF Ready, Registering, Copying, Alike, Named, Holds
<1>3. Added(g)
  BY BecomesAdds
<1> QED
  BY <1>2, <1>3, AddedReady DEF Added

LEMMA SyncPageTypes ==
  ASSUME SyncTypes, Provided, NEW f \in flows, SyncPage(f)
  PROVE  SyncTypes' /\ Provided' /\ PagesEased
<1>1. UNCHANGED <<rows, messages, idb, handlers, inbox, contact, made, told, missed, mixed>>
  BY DEF SyncPage
<1>2. f.step = "page" /\ f.id \in Pairs /\ f.b \in Browsers
  <2>1. f.step = "page" /\ f \in Flow
    BY SyncPageDoes, FlowTyped
  <2>2. f.id # None
    BY <2>1 DEF Provided, Ready, Copying
  <2> QED
    BY <2>1, <2>2 DEF Flow
<1>3. Holds /\ (\A e \in Browsers : idb'[e].key # None => idb'[e].id # None) /\ AllMeant'
  BY <1>1, SameIdb, SameHeard, SameMeant DEF Provided
<1>4. /\ PagesEased /\ promised' \subseteq (1 .. MaxMessages) \X Pairs
      /\ flows' \subseteq Flow /\ \A x \in flows' : Ready(x)'
  <2>1. CASE syncCompleted(f)
    <3>1. Dismissed(f.b) /\ promised' \subseteq (1 .. MaxMessages) \X Pairs /\ Ends(f)
      BY <1>2, <2>1, CompletedDoes
    <3> QED
      BY <1>2, <1>3, <3>1, EndedReady, TurnedPage DEF Dismissed
  <2>2. CASE ~syncCompleted(f)
    <3>1. UNCHANGED <<page, promised>>
      BY <2>2, SyncPageDoes
    <3>2. CASE Ends(f)
      BY <1>3, <3>1, <3>2, EndedReady, SamePages DEF SyncTypes
    <3>3. CASE ~Ends(f)
      <4>1. PICK g \in Flow : Becomes(f, g) /\ Alike(f, g) /\ Named(f, g) /\ g.step = "batch"
        BY <2>2, <3>3, SyncPageDoes
      <4> QED
        BY <1>2, <1>3, <3>1, <4>1, CopyReady, SamePages DEF SyncTypes, Copying
    <3> QED
      BY <3>2, <3>3
  <2> QED
    BY <2>1, <2>2
<1>5. SyncTypes'
  BY <1>1, <1>4 DEF SyncTypes, PagesEased
<1> QED
  BY <1>3, <1>4, <1>5, ProvidedAgain

LEMMA SyncBatchTypes ==
  ASSUME SyncTypes, Provided, NEW f \in flows, SyncBatch(f)
  PROVE  SyncTypes' /\ Provided' /\ PagesEased
<1>1. UNCHANGED <<rows, idb, handlers, contact, made, told, mixed>>
  BY DEF SyncBatch
<1>2. f.step = "batch" /\ f.id \in Pairs /\ f.b \in Browsers
  BY SyncBatchDoes, FlowTyped
<1>3. Holds /\ \A e \in Browsers : idb'[e].key # None => idb'[e].id # None
  BY <1>1, SameIdb DEF Provided
<1>4. CASE Ends(f) /\ UNCHANGED <<messages, inbox, missed, faults, page, promised>>
  <2>1. AllMeant' /\ PagesEased
    BY <1>4, SameHeard, SameMeant, SamePages
  <2>2. flows' \subseteq Flow /\ \A x \in flows' : Ready(x)'
    BY <1>3, <1>4, EndedReady
  <2>3. SyncTypes'
    BY <1>1, <1>4, <2>2 DEF SyncTypes
  <2> QED
    BY <1>3, <2>1, <2>2, <2>3, ProvidedAgain
<1>5. CASE ~(Ends(f) /\ UNCHANGED <<messages, inbox, missed, faults, page, promised>>)
  <2>1. /\ messages' \in Seq(Listings) /\ Len(messages') = Len(messages) /\ Emit(Complete(f.id))
        /\ \/ ~f.more /\ syncCompleted(f)
           \/ /\ UNCHANGED <<page, promised>>
              /\ \E g \in Flow : Becomes(f, g) /\ Alike(f, g) /\ Named(f, g) /\ g.step = "page"
    BY <1>5, SyncBatchDoes
  <2>2. Complete(f.id) \in Event /\ Meant(Complete(f.id))
    BY <1>2, BlankFacts DEF Complete, Event, Meant
  <2>3. inbox' \in [Browsers -> Seq(Event)] /\ missed' \subseteq Browsers /\ AllMeant'
    BY <2>1, <2>2, SpreadDoes, SpreadMeant
  <2>4. /\ PagesEased /\ promised' \subseteq (1 .. MaxMessages) \X Pairs
        /\ flows' \subseteq Flow /\ \A x \in flows' : Ready(x)'
    <3>1. CASE syncCompleted(f)
      <4>1. Dismissed(f.b) /\ promised' \subseteq (1 .. MaxMessages) \X Pairs /\ Ends(f)
        BY <1>2, <3>1, CompletedDoes
      <4> QED
        BY <1>2, <1>3, <4>1, EndedReady, TurnedPage DEF Dismissed
    <3>2. CASE ~syncCompleted(f)
      <4>1. PICK g \in Flow : Becomes(f, g) /\ Alike(f, g) /\ Named(f, g) /\ g.step = "page"
        BY <2>1, <3>2
      <4> QED
        BY <1>2, <1>3, <2>1, <3>2, <4>1, CopyReady, SamePages DEF SyncTypes, Copying
    <3> QED
      BY <3>1, <3>2
  <2>5. Len(messages') <= MaxMessages
    BY <2>1 DEF SyncTypes
  <2>6. SyncTypes'
    BY <1>1, <2>1, <2>3, <2>4, <2>5 DEF SyncTypes, PagesEased
  <2> QED
    BY <1>3, <2>3, <2>4, <2>6, ProvidedAgain
<1> QED
  BY <1>4, <1>5

\* The steps of a flow that do more than go on with what it knows.
Heavy(f) ==
  \/ List(f) \/ FetchRead(f) \/ Wrap(f) \/ Check(f) \/ Keyed(f) \/ NewPair(f) \/ StoreId(f)
  \/ SyncPage(f) \/ SyncBatch(f)

LEMMA SyncSteps ==
  ASSUME Next
  PROVE  \/ \E b \in Browsers : Plain(b) \/ Handle(b) \/ Approve(b)
         \/ \E f \in flows : Light1(f) \/ Light2(f) \/ Heavy(f)
         \/ \E h \in handlers : RegisterWrite(h)
         \/ ContactSends
BY DEF Next, Step, Plain, Light1, Light2, Heavy

SyncForms == SyncTypes /\ Provided

LEMMA FormsKept ==
  ASSUME SyncForms, Next
  PROVE  SyncForms'
<1> USE DEF SyncForms
<1>1. ASSUME NEW b \in Browsers, Plain(b) \/ Handle(b) \/ Approve(b) PROVE SyncForms'
  BY <1>1, PlainTypes, HandleTypes, ApproveTypes
<1>2. ASSUME NEW f \in flows, Light1(f) \/ Light2(f) PROVE SyncForms'
  BY <1>2, LightTypes
<1>3. ASSUME NEW f \in flows, Heavy(f) PROVE SyncForms'
  BY <1>3, ReadTypes, KeyedTypes, NewPairTypes, StoreIdTypes, SyncPageTypes, SyncBatchTypes DEF Heavy
<1>4. ASSUME NEW h \in handlers, RegisterWrite(h) PROVE SyncForms'
  BY <1>4, WriteTypes
<1>5. ASSUME ContactSends PROVE SyncForms'
  BY <1>5, ContactTypes
<1> QED
  BY <1>1, <1>2, <1>3, <1>4, <1>5, SyncSteps

-----------------------------------------------------------------------------
(* The listings of the pages know the devices that the pages were told of. *)

ToldInv ==
  /\ \A b \in Browsers : /\ told[b] \subseteq Listed(rows)
                         /\ Listed(page[b].items) = {} \/ told[b] \subseteq Listed(page[b].items)
  /\ \A f \in flows : /\ f.step = "got" => told[f.b] \subseteq Listed(f.seen)
                      /\ f.step = "post" => f.must \subseteq Listed(f.seen)

\* No page is told of another device, and no listing is read or used.
LEMMA ToldFrame ==
  ASSUME SyncTypes, ToldInv, PagesEased, \A b \in Browsers : told'[b] \subseteq told[b],
         Listed(rows) \subseteq Listed(rows'),
         \A g \in flows' : g.step \in {"got", "post"} => g \in flows
  PROVE  ToldInv'
<1>1. ASSUME NEW b \in Browsers
      PROVE  /\ told'[b] \subseteq Listed(rows')
             /\ Listed(page'[b].items) = {} \/ told'[b] \subseteq Listed(page'[b].items)
  <2>1. told'[b] \subseteq told[b] /\ page'[b].items \in {page[b].items, Blank}
    BY DEF PagesEased
  <2> QED
    BY <2>1, BlankFacts DEF ToldInv
<1>2. ASSUME NEW g \in flows'
      PROVE  /\ g.step = "got" => told'[g.b] \subseteq Listed(g.seen)
             /\ g.step = "post" => g.must \subseteq Listed(g.seen)
  <2>1. g.step \in {"got", "post"} => g \in flows /\ g.b \in Browsers
    BY FlowTyped
  <2> QED
    BY <2>1 DEF ToldInv
<1> QED
  BY <1>1, <1>2 DEF ToldInv

LEMMA EasedTold ==
  ASSUME Eased
  PROVE  \A g \in flows' : g.step \in {"got", "post"} => g \in flows
BY DEF Eased, Eases, Light, Passes

\* One flow is added that holds no listing to use.
LEMMA AddedTold ==
  ASSUME NEW g, Added(g), g.step \notin {"got", "post"}
  PROVE  \A x \in flows' : x.step \in {"got", "post"} => x \in flows
BY DEF Added, Light

LEMMA ToldKept ==
  ASSUME SyncForms, ToldInv, Next
  PROVE  ToldInv'
<1>0. SyncTypes /\ Provided
  BY DEF SyncForms
<1>1. ASSUME NEW b \in Browsers, Plain(b) PROVE ToldInv'
  <2>1. Eased /\ PagesEased
    BY <1>0, <1>1, PlainEases
  <2>2. UNCHANGED rows /\ \A e \in Browsers : told'[e] \subseteq told[e]
    BY <1>0, <1>1, PlainKeeps
  <2> QED
    BY <1>0, <2>1, <2>2, EasedTold, ToldFrame
<1>2. ASSUME NEW b \in Browsers, Handle(b) PROVE ToldInv'
  <2>1. /\ Turned(b) /\ \A a \in Browsers \ {b} : told'[a] = told[a]
        /\ \/ told'[b] = told[b] /\ page'[b].items \in {Blank, page[b].items}
           \/ /\ page'[b].items = Blank
              /\ \E i \in Listed(rows) : told'[b] = told[b] \cup {i} /\ ~ListingUnderWay(b, i)
    BY <1>0, <1>2, HandleDoes
  <2>2. UNCHANGED rows
    BY <1>2 DEF Handle
  <2>3. \A g \in flows' : g.step \in {"got", "post"} => g \in flows
    BY <1>0, <1>2, HandleEases, EasedTold
  <2>4. ASSUME NEW a \in Browsers
        PROVE  /\ told'[a] \subseteq Listed(rows')
               /\ Listed(page'[a].items) = {} \/ told'[a] \subseteq Listed(page'[a].items)
    BY <2>1, <2>2, BlankFacts DEF ToldInv, Turned
  <2>5. ASSUME NEW g \in flows', g.step = "got" PROVE told'[g.b] \subseteq Listed(g.seen)
    <3>1. g \in flows /\ g.b \in Browsers /\ g \in Flow /\ told[g.b] \subseteq Listed(g.seen)
      BY <1>0, <2>3, <2>5, FlowTyped DEF ToldInv
    <3>2. CASE told'[g.b] = told[g.b]
      BY <3>1, <3>2
    <3>3. CASE told'[g.b] # told[g.b]
      <4>1. PICK i \in Listed(rows) : told'[b] = told[b] \cup {i} /\ ~ListingUnderWay(b, i)
        BY <2>1, <3>1, <3>3
      <4>2. g.b = b /\ g.seen[i] # None /\ i \in Pairs
        BY <2>1, <2>5, <3>1, <3>3, <4>1 DEF ListingUnderWay, FlowsOf, Listed
      <4> QED
        BY <3>1, <4>1, <4>2 DEF Listed
    <3> QED
      BY <3>2, <3>3
  <2>6. ASSUME NEW g \in flows', g.step = "post" PROVE g.must \subseteq Listed(g.seen)
    BY <2>3, <2>6 DEF ToldInv
  <2> QED
    BY <2>4, <2>5, <2>6 DEF ToldInv
<1>3. ASSUME NEW b \in Browsers, Approve(b) PROVE ToldInv'
  <2>1. UNCHANGED <<rows, told, page>>
    BY <1>3 DEF Approve
  <2>2. \A g \in flows' : g.step \in {"got", "post"} => g \in flows
    BY <1>0, <1>3, ApproveDoes
  <2> QED
    BY <1>0, <2>1, <2>2, SamePages, ToldFrame
<1>4. ASSUME NEW f \in flows, Light1(f) \/ Light2(f), ~FetchFulfilled(f), ~Revoke(f) PROVE ToldInv'
  <2>1. Eased /\ PagesEased
    BY <1>0, <1>4, StepEases
  <2>2. UNCHANGED rows
    BY <1>4 DEF Light1, Light2, Stuck, RegisterFind, AnswerLost, StoreKey, Evaluate, SetSyncState,
                OwnRows, Post, logout, Fails
  <2>3. \A b \in Browsers : told'[b] \subseteq told[b]
    <3>1. CASE logout(f)
      <4>1. told'[f.b] = {} /\ \A e \in Browsers \ {f.b} : told'[e] = told[e]
        BY <1>0, <3>1, LogoutDoes
      <4> QED
        BY <4>1
    <3>2. CASE ~logout(f)
      <4>1. UNCHANGED told
        BY <1>4, <3>2 DEF Light1, Light2, Stuck, RegisterFind, AnswerLost, StoreKey, Evaluate, SetSyncState,
                          OwnRows, Post, Fails
      <4> QED
        BY <4>1
    <3> QED
      BY <3>1, <3>2
  <2> QED
    BY <1>0, <2>1, <2>2, <2>3, EasedTold, ToldFrame
<1>5. ASSUME NEW f \in flows, FetchFulfilled(f) PROVE ToldInv'
  <2>1. f.step = "got" /\ Relisted(f.b, f.seen) /\ f.b \in Browsers
    BY <1>0, <1>5, FetchFulfilledDoes, FlowTyped
  <2>2. UNCHANGED <<rows, told>>
    BY <1>5 DEF FetchFulfilled
  <2>3. \A g \in flows' : g.step \in {"got", "post"} => g \in flows
    BY <1>0, <1>5, StepEases, EasedTold DEF Light2
  <2>4. told[f.b] \subseteq Listed(f.seen)
    BY <2>1 DEF ToldInv
  <2>5. ASSUME NEW a \in Browsers
        PROVE  /\ told'[a] \subseteq Listed(rows')
               /\ Listed(page'[a].items) = {} \/ told'[a] \subseteq Listed(page'[a].items)
    BY <2>1, <2>2, <2>4 DEF ToldInv, Relisted, Turned
  <2> QED
    BY <2>2, <2>3, <2>5 DEF ToldInv
<1>6. ASSUME NEW f \in flows, Revoke(f) PROVE ToldInv'
  <2>1. /\ rows' \in Listings /\ \A i \in Pairs : rows'[i] = IF i = f.id THEN None ELSE rows[i]
        /\ \A b \in Browsers : told'[b] = told[b] \ {f.id}
    BY <1>0, <1>6, RevokeDoes
  <2>2. UNCHANGED page
    BY <1>6 DEF Revoke
  <2>3. \A g \in flows' : g.step \in {"got", "post"} => g \in flows
    BY <1>0, <1>6, StepEases, EasedTold DEF Light2
  <2>4. ASSUME NEW a \in Browsers
        PROVE  /\ told'[a] \subseteq Listed(rows')
               /\ Listed(page'[a].items) = {} \/ told'[a] \subseteq Listed(page'[a].items)
    BY <2>1, <2>2 DEF ToldInv, Listed
  <2>5. ASSUME NEW g \in flows', g.step = "got" PROVE told'[g.b] \subseteq Listed(g.seen)
    <3>1. g \in flows /\ g.b \in Browsers /\ told[g.b] \subseteq Listed(g.seen)
      BY <1>0, <2>3, <2>5, FlowTyped DEF ToldInv
    <3> QED
      BY <2>1, <3>1
  <2>6. ASSUME NEW g \in flows', g.step = "post" PROVE g.must \subseteq Listed(g.seen)
    BY <2>3, <2>6 DEF ToldInv
  <2> QED
    BY <2>4, <2>5, <2>6 DEF ToldInv
<1>7. ASSUME NEW f \in flows, List(f) \/ FetchRead(f) \/ Wrap(f) \/ Check(f) PROVE ToldInv'
  <2>1. UNCHANGED <<rows, told, page>> /\ PagesEased /\ f.b \in Browsers
    BY <1>0, <1>7, ReadTypes, SamePages, FlowTyped
  <2>2. CASE Ends(f)
    BY <1>0, <2>1, <2>2, FewerEase, EasedTold, ToldFrame DEF Ends
  <2>3. CASE ~Ends(f) /\ (List(f) \/ Check(f))
    <3>1. PICK g \in Flow : Becomes(f, g) /\ g.step \in {"listed", "page"}
      BY <1>0, <2>3, ListDoes, CheckDoes
    <3> QED
      BY <1>0, <2>1, <3>1, BecomesAdds, AddedTold, ToldFrame
  <2>4. CASE FetchRead(f)
    <3>1. PICK g \in Flow : Becomes(f, g) /\ Alike(f, g) /\ g.step = "got" /\ g.seen = rows
      BY <1>0, <2>4, FetchReadDoes
    <3>2. told'[g.b] \subseteq Listed(g.seen)
      BY <2>1, <3>1 DEF ToldInv, Alike
    <3> QED
      BY <2>1, <3>1, <3>2 DEF ToldInv, Becomes
  <2>5. CASE ~Ends(f) /\ Wrap(f)
    <3>1. PICK g \in Flow : /\ Becomes(f, g) /\ Alike(f, g) /\ g.step = "post"
                            /\ g.seen = page[f.b].items /\ g.must = told[f.b] /\ Listed(g.seen) # {}
      BY <1>0, <2>5, WrapDoes
    <3>2. g.must \subseteq Listed(g.seen)
      BY <2>1, <3>1 DEF ToldInv
    <3> QED
      BY <2>1, <3>1, <3>2 DEF ToldInv, Becomes
  <2> QED
    BY <1>7, <2>2, <2>3, <2>4, <2>5
<1>8. ASSUME NEW f \in flows, Keyed(f) \/ NewPair(f) \/ StoreId(f) PROVE ToldInv'
  <2>1. UNCHANGED <<rows, told>> /\ PagesEased
    BY <1>0, <1>8, KeyedTypes, NewPairTypes, StoreIdTypes DEF Keyed, NewPair, StoreId
  <2>2. PICK g \in Flow : /\ g.step \in {"register", "devices", "key"}
                          /\ Becomes(f, g) \/ \E p \in Page : Shows(f.b, p, (flows \ {f}) \cup {g})
    BY <1>0, <1>8, KeyedDoes, NewPairDoes, StoreIdDoes
  <2>3. Added(g)
    BY <1>0, <2>2, BecomesAdds, ShowsAdds
  <2> QED
    BY <1>0, <2>1, <2>2, <2>3, AddedTold, ToldFrame, SMTT(30)
<1>9. ASSUME NEW f \in flows, SyncPage(f) \/ SyncBatch(f) PROVE ToldInv'
  <2>1. UNCHANGED <<rows, told>> /\ PagesEased
    BY <1>0, <1>9, SyncPageTypes, SyncBatchTypes DEF SyncPage, SyncBatch
  <2>2. Ends(f) \/ \E g \in Flow : Becomes(f, g) /\ g.step \in {"page", "batch"}
    BY <1>0, <1>9, SyncPageDoes, SyncBatchDoes DEF syncCompleted
  <2>3. CASE Ends(f)
    BY <1>0, <2>1, <2>3, FewerEase, EasedTold, ToldFrame DEF Ends
  <2>4. CASE ~Ends(f)
    <3>1. PICK g \in Flow : Becomes(f, g) /\ g.step \in {"page", "batch"}
      BY <2>2, <2>4
    <3> QED
      BY <1>0, <2>1, <3>1, BecomesAdds, AddedTold, ToldFrame
  <2> QED
    BY <2>3, <2>4
<1>10. ASSUME NEW h \in handlers, RegisterWrite(h) PROVE ToldInv'
  <2>1. Eased /\ PagesEased
    BY <1>0, <1>10, WriteEases
  <2>2. UNCHANGED told
    BY <1>10 DEF RegisterWrite
  <2>3. /\ h \in Handler
        /\ rows' = rows \/ \A i \in Pairs : rows'[i] = IF i = h.id THEN h.key ELSE rows[i]
    BY <1>0, <1>10, WriteDoes
  <2>4. Listed(rows) \subseteq Listed(rows')
    BY <2>3, PairsAreSome DEF Listed, Handler
  <2> QED
    BY <1>0, <2>1, <2>2, <2>4, EasedTold, ToldFrame
<1>11. ASSUME ContactSends PROVE ToldInv'
  <2>1. UNCHANGED <<rows, told, page, flows>>
    BY <1>11 DEF ContactSends
  <2> QED
    BY <1>0, <2>1, SamePages, ToldFrame
<1> QED
  BY <1>1, <1>2, <1>3, <1>4, <1>5, <1>6, <1>7, <1>8, <1>9, <1>10, <1>11, SyncSteps DEF Heavy

-----------------------------------------------------------------------------
(* What an approval has copied.                                            *)

\* The message k has a key for the device i.
Has(k, i) == k \in DOMAIN messages /\ i \in Pairs /\ messages[k][i] # None

\* An approval copies the keys that its device had when it began, in their order.
Copies(f) ==
  /\ \A k \in f.owed : Has(k, f.src)
  /\ f.step = "check" => f.at = 0
  /\ f.step = "page" => \A k \in f.owed : k <= f.at => Has(k, f.id)
  /\ f.step = "batch" => /\ \A k \in f.owed : k <= f.at => k \in f.picked \/ Has(k, f.id)
                         /\ ~f.more => \A k \in f.owed : k <= f.at
CopiedInv ==
  /\ \A p \in promised : Has(p[1], p[2])
  /\ \A f \in flows : f.step \in Copying => Copies(f)

\* No key is lost.
KeysStay == \A k, i : Has(k, i) => Has(k, i)'

LEMMA SameMessages ==
  ASSUME UNCHANGED messages
  PROVE  KeysStay
BY DEF KeysStay, Has

LEMMA MoreMessages ==
  ASSUME SyncTypes, NEW L \in Listings, Len(messages) < MaxMessages, messages' = Append(messages, L)
  PROVE  KeysStay
BY AppendDoes DEF KeysStay, Has

LEMMA CopiesStay ==
  ASSUME KeysStay, NEW f, Copies(f)
  PROVE  Copies(f)'
BY DEF KeysStay, Copies

\* The approvals that are under way go on or end, and one may make progress.
LEMMA CopiedFrame ==
  ASSUME CopiedInv, KeysStay, UNCHANGED promised,
         \A g \in flows' : g.step \in Copying => g \in flows \/ Copies(g)'
  PROVE  CopiedInv'
<1>1. \A p \in promised' : Has(p[1], p[2])'
  BY DEF CopiedInv, KeysStay
<1>2. ASSUME NEW g \in flows', g.step \in Copying PROVE Copies(g)'
  BY <1>2, CopiesStay DEF CopiedInv
<1> QED
  BY <1>1, <1>2 DEF CopiedInv

LEMMA EasedCopies ==
  ASSUME Eased
  PROVE  \A g \in flows' : g.step \in Copying => g \in flows
BY DEF Eased, Eases, Light, Passes, Copying

LEMMA AddedCopies ==
  ASSUME NEW g, Added(g)
  PROVE  \A x \in flows' : x.step \in Copying => x = g \/ x \in flows
BY DEF Added, Light, Copying

\* The last page has been copied.
LEMMA CompletedCopies ==
  ASSUME SyncTypes, CopiedInv, KeysStay, NEW f \in flows, f.id \in Pairs, syncCompleted(f),
         \A k \in f.owed : Has(k, f.id)'
  PROVE  CopiedInv'
<1>1. promised' = promised \cup (f.owed \X {f.id}) /\ flows' \subseteq flows
  BY CompletedDoes DEF Ends
<1>2. ASSUME NEW p \in promised' PROVE Has(p[1], p[2])'
  <2>1. CASE p \in promised
    BY <2>1 DEF CopiedInv, KeysStay
  <2>2. CASE p \in f.owed \X {f.id}
    BY <2>2
  <2> QED
    BY <1>1, <2>1, <2>2
<1>3. ASSUME NEW g \in flows', g.step \in Copying PROVE Copies(g)'
  BY <1>1, <1>3, CopiesStay DEF CopiedInv
<1> QED
  BY <1>2, <1>3 DEF CopiedInv

LEMMA SyncPageCopies ==
  ASSUME SyncForms, CopiedInv, NEW f \in flows, SyncPage(f)
  PROVE  CopiedInv'
<1>0. SyncTypes /\ Provided
  BY DEF SyncForms
<1>1. UNCHANGED messages /\ KeysStay
  BY SameMessages DEF SyncPage
<1>2. f.step = "page" /\ f \in Flow /\ Copies(f)
  BY <1>0, SyncPageDoes, FlowTyped DEF CopiedInv, Copying
<1>3. f.id \in Pairs /\ f.owed \in SUBSET (1 .. MaxMessages) /\ f.at \in 0 .. MaxMessages
  <2>1. f.id # None
    BY <1>0, <1>2 DEF Provided, Ready, Copying
  <2> QED
    BY <1>2, <2>1 DEF Flow
<1>4. \A k \in f.owed : Has(k, f.src) /\ (k <= f.at => Has(k, f.id))
  BY <1>2 DEF Copies
<1>5. ASSUME NEW k \in f.owed, ~(k <= f.at) PROVE k \in AfterCursor(f)
  <2>1. k \in DOMAIN messages /\ Wrapped(k, f.src)
    BY <1>4 DEF Has, Wrapped
  <2>2. k > f.at
    BY <1>3, <1>5, DeviceAssumption
  <2> QED
    BY <2>1, <2>2 DEF AfterCursor
<1>6. CASE AfterCursor(f) = {} /\ syncCompleted(f)
  <2>1. \A k \in f.owed : Has(k, f.id)'
    BY <1>1, <1>4, <1>5, <1>6 DEF KeysStay
  <2> QED
    BY <1>0, <1>1, <1>3, <1>6, <2>1, CompletedCopies
<1>7. CASE ~(AfterCursor(f) = {} /\ syncCompleted(f)) /\ Ends(f)
  <2>1. UNCHANGED promised
    BY <1>0, <1>7, SyncPageDoes
  <2>2. flows' \subseteq flows
    BY <1>7 DEF Ends
  <2> QED
    BY <1>1, <2>1, <2>2, CopiedFrame
<1>8. CASE ~(AfterCursor(f) = {} /\ syncCompleted(f)) /\ ~Ends(f)
  <2>1. UNCHANGED promised
    BY <1>0, <1>8, SyncPageDoes
  <2>2. PICK g \in Flow :
          /\ Becomes(f, g) /\ Alike(f, g) /\ Named(f, g) /\ g.step = "batch"
          /\ g.picked = NextKeys(f) /\ g.more = (NextKeys(f) # AfterCursor(f))
          /\ g.at \in NextKeys(f) /\ \A k \in NextKeys(f) : k <= g.at
    BY <1>0, <1>8, SyncPageDoes
  <2>3. g.owed = f.owed /\ g.src = f.src /\ g.id = f.id
    BY <2>2 DEF Alike, Named
  <2>4. /\ NextKeys(f) \subseteq AfterCursor(f) /\ AfterCursor(f) \in SUBSET (1 .. MaxMessages)
        /\ \A k \in AfterCursor(f), m \in NextKeys(f) : k <= m => k \in NextKeys(f)
    BY <1>0, <1>2, CursorDoes
  <2>5. g.at > f.at /\ g.at \in 1 .. MaxMessages
    BY <2>2, <2>4 DEF AfterCursor
  <2>6. ASSUME NEW k \in g.owed, k <= g.at PROVE k \in g.picked \/ Has(k, g.id)
    <3>1. CASE k <= f.at
      BY <1>4, <2>3, <3>1
    <3>2. CASE ~(k <= f.at)
      BY <1>5, <2>2, <2>3, <2>4, <2>6, <3>2
    <3> QED
      BY <3>1, <3>2
  <2>7. ASSUME ~g.more, NEW k \in g.owed PROVE k <= g.at
    <3>1. CASE k <= f.at
      BY <1>3, <2>3, <2>5, <3>1
    <3>2. CASE ~(k <= f.at)
      BY <1>5, <2>2, <2>3, <2>7, <3>2
    <3> QED
      BY <3>1, <3>2
  <2>8. Copies(g)
    BY <1>4, <2>2, <2>3, <2>6, <2>7 DEF Copies
  <2>9. Copies(g)'
    BY <1>1, <2>8, CopiesStay
  <2>10. \A x \in flows' : x.step \in Copying => x \in flows \/ Copies(x)'
    BY <2>2, <2>9 DEF Becomes
  <2> QED
    BY <1>1, <2>1, <2>10, CopiedFrame
<1> QED
  BY <1>6, <1>7, <1>8

LEMMA SyncBatchCopies ==
  ASSUME SyncForms, CopiedInv, NEW f \in flows, SyncBatch(f)
  PROVE  CopiedInv'
<1>0. SyncTypes /\ Provided
  BY DEF SyncForms
<1>1. f.step = "batch" /\ f.id \in Pairs /\ f.key \in Pairs /\ Copies(f)
  BY <1>0, SyncBatchDoes DEF CopiedInv, Copying
<1>2. CASE Ends(f) /\ UNCHANGED <<messages, inbox, missed, faults, page, promised>>
  <2>1. KeysStay
    BY <1>2, SameMessages
  <2> QED
    BY <1>2, <2>1, CopiedFrame DEF Ends
<1>3. CASE ~(Ends(f) /\ UNCHANGED <<messages, inbox, missed, faults, page, promised>>)
  <2>1. /\ DOMAIN messages' = DOMAIN messages
        /\ \A k \in DOMAIN messages :
             /\ k \in f.picked /\ Wrapped(k, f.src) => messages'[k] = [messages[k] EXCEPT ![f.id] = f.key]
             /\ ~(k \in f.picked /\ Wrapped(k, f.src)) => messages'[k] = messages[k]
        /\ \/ ~f.more /\ syncCompleted(f)
           \/ /\ UNCHANGED promised
              /\ \E g \in Flow : Becomes(f, g) /\ Alike(f, g) /\ Named(f, g) /\ g.step = "page" /\ g.at = f.at
    BY <1>0, <1>3, SyncBatchDoes
  <2>2. \A k \in DOMAIN messages : messages[k] \in Listings
    BY <1>0 DEF SyncTypes
  <2>3. KeysStay
    <3>1. ASSUME NEW k, NEW i, Has(k, i) PROVE Has(k, i)'
      <4>1. k \in DOMAIN messages /\ i \in Pairs /\ messages[k][i] # None /\ messages[k] \in Listings
        BY <2>2, <3>1 DEF Has
      <4>2. f.key # None
        BY <1>1, PairsAreSome
      <4>3. messages'[k][i] # None
        BY <1>1, <2>1, <4>1, <4>2 DEF Listings
      <4> QED
        BY <2>1, <4>1, <4>3 DEF Has
    <3> QED
      BY <3>1 DEF KeysStay
  <2>4. ASSUME NEW k \in f.owed, k <= f.at PROVE Has(k, f.id)'
    <3>1. CASE Has(k, f.id)
      BY <2>3, <3>1 DEF KeysStay
    <3>2. CASE ~Has(k, f.id)
      <4>1. k \in f.picked /\ k \in DOMAIN messages /\ Wrapped(k, f.src) /\ messages[k] \in Listings
        BY <1>1, <2>2, <2>4, <3>2 DEF Copies, Has, Wrapped
      <4>2. messages'[k] = [messages[k] EXCEPT ![f.id] = f.key]
        BY <2>1, <4>1
      <4>3. messages'[k][f.id] = f.key /\ f.key # None
        BY <1>1, <4>1, <4>2, PairsAreSome DEF Listings
      <4> QED
        BY <1>1, <2>1, <4>1, <4>3 DEF Has
    <3> QED
      BY <3>1, <3>2
  <2>5. CASE ~f.more /\ syncCompleted(f)
    <3>1. \A k \in f.owed : Has(k, f.id)'
      BY <1>1, <2>4, <2>5 DEF Copies
    <3> QED
      BY <1>0, <1>1, <2>3, <2>5, <3>1, CompletedCopies
  <2>6. CASE ~(~f.more /\ syncCompleted(f))
    <3>1. PICK g \in Flow : Becomes(f, g) /\ Alike(f, g) /\ Named(f, g) /\ g.step = "page" /\ g.at = f.at
      BY <2>1, <2>6
    <3>2. UNCHANGED promised
      BY <2>1, <2>6
    <3>3. Copies(f)'
      BY <1>1, <2>3, CopiesStay
    <3>4. Copies(g)'
      BY <2>4, <3>1, <3>3 DEF Copies, Alike, Named
    <3>5. \A x \in flows' : x.step \in Copying => x \in flows \/ Copies(x)'
      BY <3>1, <3>4 DEF Becomes
    <3> QED
      BY <2>3, <3>2, <3>5, CopiedFrame
  <2> QED
    BY <2>5, <2>6
<1> QED
  BY <1>2, <1>3

LEMMA CopiedKept ==
  ASSUME SyncForms, CopiedInv, Next
  PROVE  CopiedInv'
<1>0. SyncTypes /\ Provided
  BY DEF SyncForms
<1>1. ASSUME NEW b \in Browsers, Plain(b) \/ Handle(b) PROVE CopiedInv'
  <2>1. UNCHANGED <<messages, promised>>
    BY <1>0, <1>1, PlainKeeps DEF Handle
  <2> QED
    BY <1>0, <1>1, <2>1, PlainEases, HandleEases, EasedCopies, SameMessages, CopiedFrame
<1>2. ASSUME NEW b \in Browsers, Approve(b) PROVE CopiedInv'
  <2>1. UNCHANGED <<messages, promised>>
    BY <1>2 DEF Approve
  <2>2. PICK g \in Flow : /\ g.step = "check" /\ g.at = 0 /\ g.src = page[b].dev
                          /\ g.owed = {k \in DOMAIN messages : Wrapped(k, page[b].dev)}
                          /\ flows' = flows \cup {g}
    BY <1>0, <1>2, ApproveDoes
  <2>3. page[b].dev \in Pairs
    BY <1>0, <1>2, ApproveDoes DEF SyncTypes, Page
  <2>4. Copies(g)
    BY <2>2, <2>3 DEF Copies, Has, Wrapped
  <2>5. KeysStay
    BY <2>1, SameMessages
  <2>6. Copies(g)'
    BY <2>4, <2>5, CopiesStay
  <2> QED
    BY <2>1, <2>2, <2>5, <2>6, CopiedFrame
<1>3. ASSUME NEW f \in flows, Light1(f) \/ Light2(f) PROVE CopiedInv'
  <2>1. Eased
    BY <1>0, <1>3, StepEases
  <2>2. UNCHANGED promised
    BY <1>3 DEF Light1, Light2, Stuck, RegisterFind, AnswerLost, StoreKey, Evaluate, SetSyncState,
                OwnRows, FetchFulfilled, Post, Revoke, logout, Fails
  <2>3. KeysStay
    <3>1. CASE Post(f)
      BY <1>0, <3>1, PostDoes, MoreMessages
    <3>2. CASE ~Post(f)
      <4>1. UNCHANGED messages
        BY <1>3, <3>2 DEF Light1, Light2, Stuck, RegisterFind, AnswerLost, StoreKey, Evaluate, SetSyncState,
                          OwnRows, FetchFulfilled, Revoke, logout, Fails
      <4> QED
        BY <4>1, SameMessages
    <3> QED
      BY <3>1, <3>2
  <2> QED
    BY <2>1, <2>2, <2>3, EasedCopies, CopiedFrame
<1>4. ASSUME NEW f \in flows, List(f) \/ FetchRead(f) \/ Wrap(f) PROVE CopiedInv'
  <2>1. UNCHANGED <<messages, promised>> /\ KeysStay
    BY <1>0, <1>4, ReadTypes, SameMessages
  <2>2. Ends(f) \/ \E g \in Flow : Becomes(f, g) /\ g.step \in {"listed", "got", "post"}
    BY <1>0, <1>4, ListDoes, FetchReadDoes, WrapDoes
  <2>3. \A x \in flows' : x.step \in Copying => x \in flows
    BY <2>2 DEF Ends, Becomes, Copying
  <2> QED
    BY <2>1, <2>3, CopiedFrame
<1>5. ASSUME NEW f \in flows, Check(f) PROVE CopiedInv'
  <2>1. UNCHANGED <<messages, promised>> /\ KeysStay
    BY <1>5, SameMessages DEF Check
  <2>2. CASE Ends(f)
    BY <2>1, <2>2, CopiedFrame DEF Ends
  <2>3. CASE ~Ends(f)
    <3>1. PICK g \in Flow : /\ Becomes(f, g) /\ Alike(f, g) /\ Named(f, g) /\ g.step = "page"
                            /\ g.at = f.at /\ f.step = "check"
      BY <1>0, <1>5, <2>3, CheckDoes
    <3>2. Copies(f) /\ f.owed \in SUBSET (1 .. MaxMessages)
      BY <1>0, <3>1, FlowTyped DEF CopiedInv, Copying, Flow
    <3>3. g.owed = f.owed /\ g.src = f.src /\ g.id = f.id /\ g.at = 0
      BY <3>1, <3>2 DEF Alike, Named, Copies
    <3>4. \A k \in g.owed : ~(k <= g.at)
      BY <3>2, <3>3, DeviceAssumption
    <3>5. Copies(g)
      BY <3>1, <3>2, <3>3, <3>4 DEF Copies
    <3>6. Copies(g)'
      BY <2>1, <3>5, CopiesStay
    <3> QED
      BY <2>1, <3>1, <3>6, CopiedFrame DEF Becomes
  <2> QED
    BY <2>2, <2>3
<1>6. ASSUME NEW f \in flows, Keyed(f) \/ NewPair(f) \/ StoreId(f) PROVE CopiedInv'
  <2>1. UNCHANGED <<messages, promised>> /\ KeysStay
    BY <1>6, SameMessages DEF Keyed, NewPair, StoreId
  <2>2. PICK g \in Flow : /\ g.step \in {"register", "devices", "key"}
                          /\ Becomes(f, g) \/ \E p \in Page : Shows(f.b, p, (flows \ {f}) \cup {g})
    BY <1>0, <1>6, KeyedDoes, NewPairDoes, StoreIdDoes
  <2>3. Added(g)
    BY <1>0, <2>2, BecomesAdds, ShowsAdds
  <2>4. \A x \in flows' : x.step \in Copying => x \in flows
    BY <2>2, <2>3, AddedCopies DEF Copying
  <2> QED
    BY <2>1, <2>4, CopiedFrame
<1>7. ASSUME NEW h \in handlers, RegisterWrite(h) PROVE CopiedInv'
  <2>1. UNCHANGED <<messages, promised>>
    BY <1>7 DEF RegisterWrite
  <2> QED
    BY <1>0, <1>7, <2>1, WriteEases, EasedCopies, SameMessages, CopiedFrame
<1>8. ASSUME ContactSends PROVE CopiedInv'
  <2>1. UNCHANGED <<flows, promised>>
    BY <1>8 DEF ContactSends
  <2>2. KeysStay
    BY <1>0, <1>8, ContactDoes, MoreMessages
  <2> QED
    BY <2>1, <2>2, CopiedFrame
<1> QED
  BY <1>1, <1>2, <1>3, <1>4, <1>5, <1>6, <1>7, <1>8, SyncPageCopies, SyncBatchCopies, SyncSteps DEF Heavy

-----------------------------------------------------------------------------
(* The keyring of a browser and the pairs that its pages register.         *)

\* The key is the one that was generated with the id, unless the browser is in m.
Own(i, key, m) == i[1] \in m \/ key = i

\* A flow that registers a pair which is not stored yet.
Fresh(f) == f.step \in Registering /\ ~f.keyed

Rightful(f) ==
  /\ f.step \in Registering => f.id[1] = f.b /\ Own(f.id, f.key, mixed)
  /\ f.b \notin mixed => /\ Fresh(f) => idb[f.b].key = None
                         /\ f.step = "key" => idb[f.b].id = f.id
                         /\ f.step \in Registering /\ f.keyed => f.id = idb[f.b].id

\* A browser that did not mix two pairs registers one at a time.
KeyringInv ==
  /\ \A b \in Browsers : /\ idb[b].id # None => idb[b].id[1] = b
                         /\ b \notin mixed /\ idb[b].key # None => idb[b].key = idb[b].id
  /\ \A f \in flows : Rightful(f)
  /\ \A f, g \in flows : Fresh(f) /\ Fresh(g) /\ f.b = g.b /\ f.b \notin mixed => f = g

LEMMA KeyringFrame ==
  ASSUME KeyringInv, UNCHANGED <<idb, mixed>>, Calm(flows')
  PROVE  KeyringInv'
<1>1. ASSUME NEW g \in flows' PROVE Rightful(g)'
  <2>1. CASE g.step \in Registering
    <3>1. Rightful(g)
      BY <2>1 DEF Calm, KeyringInv
    <3> QED
      BY <3>1 DEF Rightful
  <2>2. CASE g.step \notin Registering
    BY <2>2 DEF Rightful, Fresh, Registering
  <2> QED
    BY <2>1, <2>2
<1>2. \A f, g \in flows' : Fresh(f) /\ Fresh(g) /\ f.b = g.b /\ f.b \notin mixed' => f = g
  BY DEF KeyringInv, Calm, Fresh
<1> QED
  BY <1>1, <1>2 DEF KeyringInv

\* A flow that registers a pair posts it again, or goes on to store it.
LEMMA KeyringGoesOn ==
  ASSUME KeyringInv, UNCHANGED <<idb, mixed>>, NEW f \in flows, f.step \in Registering,
         NEW g, Alike(f, g), Named(f, g), g.step \in Registering, g.step # "key",
         \A x \in flows' : x.step \in Registering => x = g \/ x \in flows \ {f}
  PROVE  KeyringInv'
<1>1. Rightful(f) /\ g.b = f.b /\ g.keyed = f.keyed /\ g.id = f.id /\ g.key = f.key /\ Fresh(g) = Fresh(f)
  BY DEF KeyringInv, Alike, Named, Fresh
<1>2. Rightful(g)
  BY <1>1 DEF Rightful
<1>3. ASSUME NEW x \in flows' PROVE Rightful(x)'
  <2>1. CASE x.step \in Registering
    <3>1. Rightful(x)
      BY <1>2, <2>1 DEF KeyringInv
    <3> QED
      BY <3>1 DEF Rightful
  <2>2. CASE x.step \notin Registering
    BY <2>2 DEF Rightful, Fresh, Registering
  <2> QED
    BY <2>1, <2>2
<1>4. ASSUME NEW x \in flows', NEW y \in flows', Fresh(x), Fresh(y), x.b = y.b, x.b \notin mixed'
      PROVE  x = y
  <2>1. (x = g \/ x \in flows \ {f}) /\ (y = g \/ y \in flows \ {f})
    BY <1>4 DEF Fresh
  <2>2. CASE x = g /\ y \in flows \ {f}
    BY <1>1, <1>4, <2>2 DEF KeyringInv
  <2>3. CASE y = g /\ x \in flows \ {f}
    BY <1>1, <1>4, <2>3 DEF KeyringInv
  <2>4. CASE x \in flows /\ y \in flows
    BY <1>4, <2>4 DEF KeyringInv
  <2> QED
    BY <2>1, <2>2, <2>3, <2>4
<1> QED
  BY <1>3, <1>4 DEF KeyringInv

LEMMA KeyedRightful ==
  ASSUME SyncForms, KeyringInv, NEW f \in flows, Keyed(f)
  PROVE  KeyringInv'
<1>0. SyncTypes /\ Provided /\ f.b \in Browsers
  BY FlowTyped DEF SyncForms
<1>1. UNCHANGED <<idb, mixed>>
  BY DEF Keyed
<1>2. PICK g \in Flow :
           /\ Alike(f, g) /\ g.id = idb[f.b].id /\ g.key = idb[f.b].key
           /\ g.id # None /\ g.key # None /\ f.keyed
           /\ \/ g.step = "register" /\ Becomes(f, g) /\ UNCHANGED page
              \/ /\ g.step = "devices"
                 /\ \E p \in Page : Paged(f.b, p) /\ Shows(f.b, p, (flows \ {f}) \cup {g})
  BY <1>0, KeyedDoes
<1>3. g.b = f.b /\ g.keyed /\ Added(g)
  BY <1>0, <1>2, BecomesAdds, ShowsAdds DEF Alike
<1>4. g.id[1] = g.b /\ Own(g.id, g.key, mixed)
  BY <1>0, <1>2, <1>3 DEF KeyringInv, Own
<1>5. Rightful(g)' /\ ~Fresh(g)
  BY <1>1, <1>2, <1>3, <1>4 DEF Rightful, Fresh, Registering
<1>6. \A x \in flows' : x = g \/ x \in flows \/ x.step \notin Registering
  BY <1>3 DEF Added, Light, Registering
<1>7. ASSUME NEW x \in flows' PROVE Rightful(x)'
  <2>1. CASE x \in flows
    <3>1. Rightful(x)
      BY <2>1 DEF KeyringInv
    <3> QED
      BY <1>1, <3>1 DEF Rightful
  <2>2. CASE x.step \notin Registering
    BY <2>2 DEF Rightful, Fresh, Registering
  <2> QED
    BY <1>5, <1>6, <2>1, <2>2
<1>8. \A x \in flows' : Fresh(x) => x \in flows
  BY <1>5, <1>6 DEF Fresh
<1> QED
  BY <1>1, <1>7, <1>8 DEF KeyringInv

LEMMA NewPairRightful ==
  ASSUME SyncForms, KeyringInv, NEW f \in flows, NewPair(f)
  PROVE  KeyringInv'
<1>0. SyncTypes /\ Provided /\ f.b \in Browsers
  BY FlowTyped DEF SyncForms
<1> DEFINE others == {g \in FlowsOf(f.b) \ {f} : ~g.keyed /\ g.step \in {"register", "posted", "store", "key"}}
           beside == others # {} \/ idb[f.b] # [id |-> f.id, key |-> None]
<1>1. UNCHANGED idb /\ mixed' = mixed \cup (IF beside THEN {f.b} ELSE {}) /\ ~f.keyed
  BY DEF NewPair
<1>2. PICK g \in Flow, p \in Page :
           /\ Alike(f, g) /\ g.id = g.key /\ g.id[1] = f.b /\ g.step = "register"
           /\ Shows(f.b, p, (flows \ {f}) \cup {g})
  BY <1>0, NewPairDoes
<1>3. g.b = f.b /\ ~g.keyed
  BY <1>1, <1>2 DEF Alike
<1>4. \A x \in flows' : x.step \in Registering => x = g \/ x \in flows \ {f}
  BY <1>2 DEF Shows, Begun, Registering
<1>5. ASSUME f.b \notin mixed'
      PROVE  /\ idb[f.b].key = None
             /\ \A x \in flows \ {f} : x.b = f.b => ~Fresh(x)
  <2>1. ~beside
    BY <1>1, <1>5
  <2>2. idb[f.b].key = None
    BY <2>1
  <2>3. \A x \in flows \ {f} : x.b = f.b => ~Fresh(x)
    BY <2>1 DEF FlowsOf, Fresh, Registering
  <2> QED
    BY <2>2, <2>3
<1> HIDE DEF beside
<1>6. Rightful(g)'
  BY <1>1, <1>2, <1>3, <1>5 DEF Rightful, Own, Fresh, Registering
<1>7. ASSUME NEW x \in flows' PROVE Rightful(x)'
  <2>1. CASE x \in flows
    <3>1. Rightful(x)
      BY <2>1 DEF KeyringInv
    <3> QED
      BY <1>1, <3>1 DEF Rightful, Own
  <2>2. CASE x.step \notin Registering
    BY <2>2 DEF Rightful, Fresh, Registering
  <2> QED
    BY <1>4, <1>6, <2>1, <2>2
<1>8. ASSUME NEW x \in flows', NEW y \in flows', Fresh(x), Fresh(y), x.b = y.b, x.b \notin mixed'
      PROVE  x = y
  <2>1. (x = g \/ x \in flows \ {f}) /\ (y = g \/ y \in flows \ {f})
    BY <1>4, <1>8 DEF Fresh
  <2>2. CASE x = g \/ y = g
    BY <1>3, <1>5, <1>8, <2>1, <2>2
  <2>3. CASE x \in flows /\ y \in flows
    BY <1>1, <1>8, <2>3 DEF KeyringInv
  <2> QED
    BY <2>1, <2>2, <2>3
<1>9. \A b \in Browsers : /\ idb'[b].id # None => idb'[b].id[1] = b
                          /\ b \notin mixed' /\ idb'[b].key # None => idb'[b].key = idb'[b].id
  BY <1>1 DEF KeyringInv
<1> QED
  BY <1>7, <1>8, <1>9 DEF KeyringInv

LEMMA StoreIdRightful ==
  ASSUME SyncForms, KeyringInv, NEW f \in flows, StoreId(f)
  PROVE  KeyringInv'
<1>0. SyncTypes /\ Provided /\ f.b \in Browsers
  BY FlowTyped DEF SyncForms
<1>1. UNCHANGED mixed /\ StoresId(f.b, f.id) /\ f.step = "store" /\ Rightful(f)
  BY <1>0, StoreIdDoes DEF StoreId, KeyringInv
<1>2. PICK g \in Flow :
              /\ Alike(f, g) /\ Named(f, g)
              /\ \/ g.step = "key" /\ ~f.keyed /\ Becomes(f, g) /\ UNCHANGED page
                 \/ /\ g.step = "devices" /\ f.keyed
                    /\ \E p \in Page : Paged(f.b, p) /\ Shows(f.b, p, (flows \ {f}) \cup {g})
  BY <1>0, StoreIdDoes
<1>3. g.b = f.b /\ g.keyed = f.keyed /\ g.id = f.id /\ g.key = f.key
  BY <1>2 DEF Alike, Named
<1>4. \A x \in flows' : x.step \in Registering => x = g \/ x \in flows \ {f}
  BY <1>2 DEF Becomes, Shows, Begun, Registering
<1>5. f.id[1] = f.b /\ Own(f.id, f.key, mixed)
  BY <1>1 DEF Rightful, Registering
<1>6. f.b \notin mixed /\ ~f.keyed => idb[f.b].key = None /\ Fresh(f)
  BY <1>1 DEF Rightful, Fresh, Registering
<1>7. f.b \notin mixed /\ f.keyed => idb[f.b].id = f.id
  BY <1>1 DEF Rightful, Registering
<1>8. idb'[f.b].id = f.id /\ idb'[f.b].key = idb[f.b].key /\ \A e \in Browsers \ {f.b} : idb'[e] = idb[e]
  BY <1>1 DEF StoresId
<1>9. ASSUME NEW b \in Browsers
      PROVE  /\ idb'[b].id # None => idb'[b].id[1] = b
             /\ b \notin mixed' /\ idb'[b].key # None => idb'[b].key = idb'[b].id
  <2>1. CASE b = f.b
    BY <1>1, <1>5, <1>6, <1>7, <1>8, <2>1 DEF KeyringInv
  <2>2. CASE b # f.b
    BY <1>1, <1>8, <2>2 DEF KeyringInv
  <2> QED
    BY <2>1, <2>2
<1>10. Rightful(g)'
  <2>1. g.step = "key" => ~g.keyed
    BY <1>2, <1>3
  <2>2. g.step \in Registering => g.step = "key"
    BY <1>2 DEF Registering
  <2> QED
    BY <1>1, <1>3, <1>5, <1>6, <1>8, <2>1, <2>2 DEF Rightful, Fresh
<1>11. ASSUME NEW x \in flows' PROVE Rightful(x)'
  <2>1. CASE x.step \in Registering /\ x # g
    <3>1. x \in flows /\ x # f /\ x.b \in Browsers /\ Rightful(x) /\ Ready(x)
      BY <1>0, <1>4, <2>1, FlowTyped DEF KeyringInv, Provided
    <3>2. CASE x.b # f.b
      BY <1>1, <1>8, <3>1, <3>2 DEF Rightful
    <3>3. CASE x.b = f.b /\ f.b \notin mixed /\ f.keyed
      <4>1. idb'[x.b].id = idb[x.b].id /\ idb'[x.b].key = idb[x.b].key
        BY <1>7, <1>8, <3>3
      <4> QED
        BY <1>1, <3>1, <4>1 DEF Rightful
    <3>4. CASE x.b = f.b /\ f.b \notin mixed /\ ~f.keyed
      <4>1. ~Fresh(x)
        BY <1>6, <3>1, <3>4 DEF KeyringInv
      <4>2. x.keyed
        BY <2>1, <4>1 DEF Fresh
      <4> QED
        BY <1>6, <3>1, <3>4, <4>2 DEF Ready
    <3>5. CASE x.b \in mixed
      BY <1>1, <3>1, <3>5 DEF Rightful
    <3> QED
      BY <3>2, <3>3, <3>4, <3>5
  <2>2. CASE x.step \notin Registering
    BY <2>2 DEF Rightful, Fresh, Registering
  <2> QED
    BY <1>10, <2>1, <2>2
<1>12. ASSUME NEW x \in flows', NEW y \in flows', Fresh(x), Fresh(y), x.b = y.b, x.b \notin mixed'
       PROVE  x = y
  <2>1. (x = g \/ x \in flows \ {f}) /\ (y = g \/ y \in flows \ {f})
    BY <1>4, <1>12 DEF Fresh
  <2>2. Fresh(g) => Fresh(f)
    BY <1>1, <1>3 DEF Fresh, Registering
  <2>3. CASE x = g /\ y \in flows \ {f}
    BY <1>1, <1>3, <1>12, <2>2, <2>3 DEF KeyringInv
  <2>4. CASE y = g /\ x \in flows \ {f}
    BY <1>1, <1>3, <1>12, <2>2, <2>4 DEF KeyringInv
  <2>5. CASE x \in flows /\ y \in flows
    BY <1>1, <1>12, <2>5 DEF KeyringInv
  <2> QED
    BY <2>1, <2>3, <2>4, <2>5
<1> QED
  BY <1>9, <1>11, <1>12 DEF KeyringInv

LEMMA StoreKeyRightful ==
  ASSUME SyncForms, KeyringInv, NEW f \in flows, StoreKey(f)
  PROVE  KeyringInv'
<1>0. SyncTypes /\ Provided /\ f.b \in Browsers /\ Ready(f)
  BY FlowTyped DEF SyncForms, Provided
<1>1. UNCHANGED mixed /\ StoresKey(f.b, f.key) /\ f.step = "key" /\ Rightful(f)
  BY <1>0, StoreKeyDoes DEF StoreKey, KeyringInv
<1>2. Calm(flows')
  BY <1>0, StepEases DEF Light1, StoreKey, RegisterFind, AnswerLost
<1>3. f \notin flows'
  <2>1. PICK g \in Flow : Becomes(f, g) /\ g.step = "devices"
    BY <1>0, StoreKeyDoes
  <2> QED
    BY <1>1, <2>1 DEF Becomes
<1>4. idb'[f.b].key = f.key /\ idb'[f.b].id = idb[f.b].id /\ \A e \in Browsers \ {f.b} : idb'[e] = idb[e]
  BY <1>1 DEF StoresKey
<1>5. Fresh(f) /\ f.id[1] = f.b /\ Own(f.id, f.key, mixed) /\ (f.b \notin mixed => idb[f.b].id = f.id)
  BY <1>0, <1>1 DEF Ready, Rightful, Fresh, Registering
<1>6. ASSUME NEW b \in Browsers
      PROVE  /\ idb'[b].id # None => idb'[b].id[1] = b
             /\ b \notin mixed' /\ idb'[b].key # None => idb'[b].key = idb'[b].id
  <2>1. CASE b = f.b
    BY <1>1, <1>4, <1>5, <2>1 DEF KeyringInv, Own
  <2>2. CASE b # f.b
    BY <1>1, <1>4, <2>2 DEF KeyringInv
  <2> QED
    BY <2>1, <2>2
<1>7. ASSUME NEW x \in flows' PROVE Rightful(x)'
  <2>1. CASE x.step \in Registering
    <3>1. x \in flows /\ x # f /\ x.b \in Browsers /\ Rightful(x)
      BY <1>0, <1>2, <1>3, <2>1, FlowTyped DEF KeyringInv, Calm
    <3>2. CASE x.b # f.b
      BY <1>1, <1>4, <3>1, <3>2 DEF Rightful
    <3>3. CASE x.b = f.b
      <4>1. f.b \notin mixed => ~Fresh(x)
        BY <1>5, <3>1, <3>3 DEF KeyringInv
      <4> QED
        BY <1>1, <1>4, <3>1, <3>3, <4>1 DEF Rightful
    <3> QED
      BY <3>2, <3>3
  <2>2. CASE x.step \notin Registering
    BY <2>2 DEF Rightful, Fresh, Registering
  <2> QED
    BY <2>1, <2>2
<1>8. \A x, y \in flows' : Fresh(x) /\ Fresh(y) /\ x.b = y.b /\ x.b \notin mixed' => x = y
  BY <1>1, <1>2 DEF KeyringInv, Calm, Fresh
<1> QED
  BY <1>6, <1>7, <1>8 DEF KeyringInv

LEMMA KeyringKept ==
  ASSUME SyncForms, KeyringInv, Next
  PROVE  KeyringInv'
<1>0. SyncTypes /\ Provided
  BY DEF SyncForms
<1>1. ASSUME NEW b \in Browsers, Plain(b) \/ Handle(b) PROVE KeyringInv'
  <2>1. UNCHANGED <<idb, mixed>>
    BY <1>0, <1>1, PlainKeeps DEF Handle
  <2> QED
    BY <1>0, <1>1, <2>1, PlainEases, HandleEases, KeyringFrame
<1>2. ASSUME NEW b \in Browsers, Approve(b) PROVE KeyringInv'
  <2>1. UNCHANGED <<idb, mixed>>
    BY <1>2 DEF Approve
  <2>2. Calm(flows')
    BY <1>0, <1>2, ApproveDoes DEF Calm, Registering
  <2> QED
    BY <2>1, <2>2, KeyringFrame
<1>3. ASSUME NEW f \in flows, Light1(f) \/ Light2(f), ~RegisterFind(f), ~AnswerLost(f), ~StoreKey(f)
      PROVE  KeyringInv'
  <2>1. UNCHANGED <<idb, mixed>>
    BY <1>3 DEF Light1, Light2, Stuck, Evaluate, SetSyncState,
                OwnRows, FetchFulfilled, Post, Revoke, logout, Fails
  <2> QED
    BY <1>0, <1>3, <2>1, StepEases, KeyringFrame
<1>4. ASSUME NEW f \in flows, RegisterFind(f) \/ AnswerLost(f) PROVE KeyringInv'
  <2>1. UNCHANGED <<idb, mixed>> /\ f.step \in {"register", "posted"}
    BY <1>4 DEF RegisterFind, AnswerLost
  <2>2. CASE Ends(f)
    BY <1>0, <2>1, <2>2, FewerEase, KeyringFrame DEF Ends
  <2>3. CASE ~Ends(f)
    <3>1. PICK g \in Flow : Becomes(f, g) /\ Alike(f, g) /\ Named(f, g) /\ g.step \in {"register", "posted"}
      BY <1>0, <1>4, <2>3, RegisterFindDoes, AnswerLostDoes
    <3>2. \A x \in flows' : x = g \/ x \in flows \ {f}
      BY <3>1 DEF Becomes
    <3> QED
      BY <2>1, <3>1, <3>2, KeyringGoesOn DEF Registering
  <2> QED
    BY <2>2, <2>3
<1>5. ASSUME NEW f \in flows, Heavy(f), ~Keyed(f), ~NewPair(f), ~StoreId(f) PROVE KeyringInv'
  <2>1. UNCHANGED <<idb, mixed>>
    BY <1>5 DEF Heavy, List, FetchRead, Wrap, Check, SyncPage, SyncBatch
  <2>2. Ends(f) \/ \E g \in Flow : Becomes(f, g) /\ g.step \in {"listed", "got", "post", "page", "batch"}
    <3>1. CASE List(f) \/ FetchRead(f) \/ Wrap(f) \/ Check(f)
      BY <1>0, <3>1, ListDoes, FetchReadDoes, WrapDoes, CheckDoes
    <3>2. CASE SyncPage(f) \/ SyncBatch(f)
      BY <1>0, <3>2, SyncPageDoes, SyncBatchDoes DEF syncCompleted
    <3> QED
      BY <1>5, <3>1, <3>2 DEF Heavy
  <2>3. Calm(flows')
    BY <2>2 DEF Ends, Becomes, Calm, Registering
  <2> QED
    BY <2>1, <2>3, KeyringFrame
<1>6. ASSUME NEW h \in handlers, RegisterWrite(h) PROVE KeyringInv'
  <2>1. UNCHANGED <<idb, mixed>>
    BY <1>6 DEF RegisterWrite
  <2>2. CASE UNCHANGED <<page, flows>>
    BY <1>0, <2>1, <2>2, FewerEase, KeyringFrame
  <2>3. CASE ~UNCHANGED <<page, flows>>
    <3>1. PICK f \in flows, g \in Flow :
            /\ f.step = "posted" /\ Alike(f, g) /\ Named(f, g)
            /\ \/ g.step = "register" /\ Becomes(f, g) /\ UNCHANGED page
               \/ /\ g.step = "store"
                  /\ \E p \in Page : Registered(f.b, p) /\ Shows(f.b, p, (flows \ {f}) \cup {g})
      BY <1>0, <1>6, <2>3, WriteDoes
    <3>2. \A x \in flows' : x.step \in Registering => x = g \/ x \in flows \ {f}
      BY <3>1 DEF Becomes, Shows, Begun, Registering
    <3> QED
      BY <2>1, <3>1, <3>2, KeyringGoesOn DEF Registering
  <2> QED
    BY <2>2, <2>3
<1>7. ASSUME ContactSends PROVE KeyringInv'
  <2>1. UNCHANGED <<idb, mixed, flows>>
    BY <1>7 DEF ContactSends
  <2> QED
    BY <1>0, <2>1, FewerEase, KeyringFrame
<1> QED
  BY <1>1, <1>2, <1>3, <1>4, <1>5, <1>6, <1>7,
     KeyedRightful, NewPairRightful, StoreIdRightful, StoreKeyRightful, SyncSteps DEF Heavy

-----------------------------------------------------------------------------
(* The keys that the account's devices are known by.                       *)

OwnKeys(L, m) == \A i \in Listed(L) : Own(i, L[i], m)
OwnEvent(e, m) == OwnKeys(e.wraps, m) /\ (e.kind = "sync_requested" => Own(e.id, e.key, m))
OwnFlow(f, m) == OwnKeys(f.seen, m) /\ (f.step \in Copying => Own(f.id, f.key, m))

OwnStored == /\ OwnKeys(rows, mixed) /\ OwnKeys(contact, mixed)
             /\ \A k \in DOMAIN messages : OwnKeys(messages[k], mixed)
OwnPages == \A b \in Browsers : /\ OwnKeys(page[b].items, mixed)
                                /\ page[b].asked # None => Own(page[b].asked[1], page[b].asked[2], mixed)
OwnEvents == \A b \in Browsers : \A e \in Heard(b) : OwnEvent(e, mixed)
OwnHandlers == \A h \in handlers : Own(h.id, h.key, mixed)
OwnFlows == \A f \in flows : OwnFlow(f, mixed)

\* Whoever lists, announces, posts or approves the pair of a browser names the id and the
\* key that were generated together.
OwnedInv == OwnStored /\ OwnPages /\ OwnEvents /\ OwnHandlers /\ OwnFlows

LEMMA OwnGrows ==
  ASSUME NEW m, NEW n, m \subseteq n
  PROVE  /\ \A i, k : Own(i, k, m) => Own(i, k, n)
         /\ \A L : OwnKeys(L, m) => OwnKeys(L, n)
         /\ \A e : OwnEvent(e, m) => OwnEvent(e, n)
         /\ \A f : OwnFlow(f, m) => OwnFlow(f, n)
BY DEF Own, OwnKeys, OwnEvent, OwnFlow

LEMMA BlankIsOwn == \A m : OwnKeys(Blank, m)
BY BlankFacts DEF OwnKeys

LEMMA SameStored ==
  ASSUME OwnStored, mixed \subseteq mixed', UNCHANGED <<rows, messages, contact>>
  PROVE  OwnStored'
BY OwnGrows DEF OwnStored

LEMMA EasedPages ==
  ASSUME OwnPages, mixed \subseteq mixed', PagesEased
  PROVE  OwnPages'
<1>1. ASSUME NEW b \in Browsers
      PROVE  /\ OwnKeys(page'[b].items, mixed')
             /\ page'[b].asked # None => Own(page'[b].asked[1], page'[b].asked[2], mixed')
  <2>1. page'[b].items \in {page[b].items, Blank} /\ page'[b].asked \in {page[b].asked, None}
    BY DEF PagesEased
  <2>2. OwnKeys(page[b].items, mixed)
    BY DEF OwnPages
  <2>3. OwnKeys(page'[b].items, mixed')
    BY <2>1, <2>2, OwnGrows, BlankIsOwn
  <2>4. ASSUME page'[b].asked # None
        PROVE  Own(page'[b].asked[1], page'[b].asked[2], mixed')
    <3>1. page'[b].asked = page[b].asked
      BY <2>1, <2>4
    <3>2. Own(page[b].asked[1], page[b].asked[2], mixed)
      BY <2>4, <3>1 DEF OwnPages
    <3> QED
      BY <3>1, <3>2 DEF Own
  <2> QED
    BY <2>3, <2>4
<1> QED
  BY <1>1 DEF OwnPages

LEMMA SameEvents ==
  ASSUME OwnEvents, mixed \subseteq mixed', \A b \in Browsers : Heard(b)' \subseteq Heard(b)
  PROVE  OwnEvents'
BY OwnGrows DEF OwnEvents

LEMMA SpreadEvents ==
  ASSUME SyncTypes, OwnEvents, mixed \subseteq mixed', NEW e \in Event, Emit(e), OwnEvent(e, mixed)
  PROVE  OwnEvents'
<1>1. \A b \in Browsers : Heard(b)' \subseteq Heard(b) \cup {e}
  BY SpreadDoes
<1> QED
  BY <1>1, OwnGrows DEF OwnEvents

LEMMA SameHandlers ==
  ASSUME OwnHandlers, mixed \subseteq mixed',
         \A h \in handlers' : \E k \in handlers : h.id = k.id /\ h.key = k.key
  PROVE  OwnHandlers'
BY OwnGrows DEF OwnHandlers

LEMMA EasedFlows ==
  ASSUME OwnFlows, mixed \subseteq mixed', Eased
  PROVE  OwnFlows'
<1>1. ASSUME NEW g \in flows' PROVE OwnFlow(g, mixed')
  <2>1. g \in flows \/ Light(g) \/ \E f \in flows : Passes(f, g)
    BY DEF Eased, Eases
  <2>2. CASE g \in flows
    BY <2>2, OwnGrows DEF OwnFlows
  <2>3. CASE Light(g)
    BY <2>3, BlankIsOwn DEF Light, OwnFlow, Copying
  <2>4. CASE \E f \in flows : Passes(f, g)
    <3>1. PICK f \in flows : Passes(f, g)
      BY <2>4
    <3>2. OwnKeys(f.seen, mixed')
      BY OwnGrows DEF OwnFlows, OwnFlow
    <3> QED
      BY <3>1, <3>2, BlankIsOwn DEF Passes, OwnFlow, Copying
  <2> QED
    BY <2>1, <2>2, <2>3, <2>4
<1> QED
  BY <1>1 DEF OwnFlows

LEMMA AddedFlows ==
  ASSUME OwnFlows, mixed \subseteq mixed', NEW g, Added(g), OwnFlow(g, mixed')
  PROVE  OwnFlows'
<1>1. ASSUME NEW x \in flows' PROVE OwnFlow(x, mixed')
  <2>1. x = g \/ x \in flows \/ Light(x)
    BY DEF Added
  <2>2. CASE x \in flows
    BY <2>2, OwnGrows DEF OwnFlows
  <2>3. CASE Light(x)
    BY <2>3, BlankIsOwn DEF Light, OwnFlow, Copying
  <2> QED
    BY <2>1, <2>2, <2>3
<1> QED
  BY <1>1 DEF OwnFlows

LEMMA PlainOwned ==
  ASSUME SyncForms, OwnedInv, NEW b \in Browsers, Plain(b)
  PROVE  OwnedInv'
<1>0. SyncTypes /\ Provided
  BY DEF SyncForms
<1>1. /\ UNCHANGED <<rows, messages, contact, mixed>>
      /\ \A h \in handlers' : \E k \in handlers : h.id = k.id /\ h.key = k.key
  BY <1>0, PlainKeeps
<1>2. Eased /\ PagesEased
  BY <1>0, PlainEases
<1>3. OwnEvents'
  <2>1. CASE NotifyAgain(b)
    <3>1. PICK i \in Pairs : /\ rows[i] # None /\ Emit(Requested(i, rows[i]))
                             /\ Requested(i, rows[i]) \in Event
      BY <1>0, <2>1, NotifyDoes
    <3>2. Own(i, rows[i], mixed)
      BY <3>1 DEF OwnedInv, OwnStored, OwnKeys, Listed
    <3>3. OwnEvent(Requested(i, rows[i]), mixed)
      BY <3>2, BlankIsOwn DEF OwnEvent, Requested
    <3> QED
      BY <1>0, <1>1, <3>1, <3>3, SpreadEvents DEF OwnedInv
  <2>2. CASE ~NotifyAgain(b)
    BY <1>0, <1>1, <2>2, PlainHears, SameEvents DEF OwnedInv
  <2> QED
    BY <2>1, <2>2
<1> QED
  BY <1>1, <1>2, <1>3, SameStored, EasedPages, SameHandlers, EasedFlows DEF OwnedInv

LEMMA HandleOwned ==
  ASSUME SyncForms, OwnedInv, NEW b \in Browsers, Handle(b)
  PROVE  OwnedInv'
<1>0. SyncTypes /\ Provided
  BY DEF SyncForms
<1>1. UNCHANGED <<rows, messages, contact, mixed, handlers>>
  BY DEF Handle
<1> DEFINE e == Head(inbox[b])
<1>2. /\ e \in Heard(b) /\ Heard(b)' \subseteq Heard(b) /\ \A a \in Browsers \ {b} : Heard(a)' = Heard(a)
      /\ Turned(b) /\ page'[b].items \in {Blank, page[b].items}
      /\ \/ page'[b].asked = page[b].asked
         \/ e.kind = "sync_requested" /\ page'[b].asked = <<e.id, e.key>>
  BY <1>0, HandleDoes
<1>3. OwnEvents'
  <2>1. \A a \in Browsers : Heard(a)' \subseteq Heard(a)
    BY <1>2
  <2> QED
    BY <1>1, <2>1, SameEvents DEF OwnedInv
<1>4. OwnPages'
  <2> HIDE DEF e
  <2>1. OwnKeys(page'[b].items, mixed')
    BY <1>1, <1>2, BlankIsOwn DEF OwnedInv, OwnPages
  <2>2. page'[b].asked # None => Own(page'[b].asked[1], page'[b].asked[2], mixed')
    <3>1. CASE page'[b].asked = page[b].asked
      BY <1>1, <3>1 DEF OwnedInv, OwnPages
    <3>2. CASE e.kind = "sync_requested" /\ page'[b].asked = <<e.id, e.key>>
      <4>1. Own(e.id, e.key, mixed)
        BY <1>2, <3>2 DEF OwnedInv, OwnEvents, OwnEvent
      <4> QED
        BY <1>1, <3>2, <4>1
    <3> QED
      BY <1>2, <3>1, <3>2
  <2>3. \A a \in Browsers \ {b} : page'[a] = page[a]
    BY <1>2 DEF Turned
  <2> QED
    BY <1>1, <2>1, <2>2, <2>3 DEF OwnedInv, OwnPages
<1>5. Eased
  BY <1>0, HandleEases
<1> QED
  BY <1>1, <1>3, <1>4, <1>5, SameStored, SameHandlers, EasedFlows DEF OwnedInv

LEMMA ApproveOwned ==
  ASSUME SyncForms, OwnedInv, NEW b \in Browsers, Approve(b)
  PROVE  OwnedInv'
<1>0. SyncTypes /\ Provided
  BY DEF SyncForms
<1>1. UNCHANGED <<rows, messages, contact, mixed, handlers, inbox, page>>
  BY DEF Approve
<1>2. page[b].asked # None
  BY <1>0, ApproveDoes
<1>3. PICK g \in Flow : /\ g.seen = Blank /\ g.id = page[b].asked[1] /\ g.key = page[b].asked[2]
                        /\ flows' = flows \cup {g}
  BY <1>0, ApproveDoes
<1>4. OwnFlow(g, mixed')
  <2>1. Own(g.id, g.key, mixed)
    BY <1>2, <1>3 DEF OwnedInv, OwnPages
  <2> QED
    BY <1>1, <1>3, <2>1, BlankIsOwn DEF OwnFlow
<1>5. OwnFlows'
  BY <1>1, <1>3, <1>4 DEF OwnedInv, OwnFlows
<1>6. OwnEvents'
  BY <1>1, SameHeard, SameEvents DEF OwnedInv
<1> QED
  BY <1>0, <1>1, <1>5, <1>6, SameStored, SamePages, EasedPages, SameHandlers DEF OwnedInv

LEMMA StepOwned ==
  ASSUME SyncForms, OwnedInv, KeyringInv, NEW f \in flows, Light1(f) \/ Light2(f)
  PROVE  OwnedInv'
<1>0. SyncTypes /\ Provided /\ f.b \in Browsers
  BY FlowTyped DEF SyncForms
<1>1. UNCHANGED mixed /\ mixed \subseteq mixed' /\ UNCHANGED contact
  BY DEF Light1, Light2, Stuck, RegisterFind, AnswerLost, StoreKey, Evaluate, SetSyncState,
         OwnRows, FetchFulfilled, Post, Revoke, logout, Fails
<1>2. Eased /\ OwnFlow(f, mixed)
  BY <1>0, StepEases DEF OwnedInv, OwnFlows
<1>3. OwnPages'
  <2>1. CASE FetchFulfilled(f)
    <3>1. Relisted(f.b, f.seen)
      BY <1>0, <2>1, FetchFulfilledDoes
    <3> QED
      BY <1>0, <1>1, <1>2, <3>1 DEF OwnedInv, OwnPages, OwnFlow, Relisted, Turned
  <2>2. CASE ~FetchFulfilled(f)
    BY <1>0, <1>1, <2>2, StepEases, EasedPages DEF OwnedInv
  <2> QED
    BY <2>1, <2>2
<1>4. OwnStored'
  <2>1. CASE Post(f)
    <3>1. /\ f.seen \in Listings /\ Len(messages) < MaxMessages /\ messages' = Append(messages, f.seen)
      BY <1>0, <2>1, PostDoes
    <3>2. /\ DOMAIN messages' = DOMAIN messages \cup {Len(messages) + 1}
          /\ \A k \in DOMAIN messages : messages'[k] = messages[k]
          /\ messages'[Len(messages) + 1] = f.seen
      BY <1>0, <3>1, AppendDoes
    <3>3. UNCHANGED rows
      BY <2>1 DEF Post
    <3> QED
      BY <1>1, <1>2, <3>2, <3>3 DEF OwnedInv, OwnStored, OwnFlow
  <2>2. CASE Revoke(f)
    <3>1. \A i \in Pairs : rows'[i] = IF i = f.id THEN None ELSE rows[i]
      BY <1>0, <2>2, RevokeDoes
    <3>2. UNCHANGED messages
      BY <2>2 DEF Revoke
    <3> QED
      BY <1>1, <3>1, <3>2 DEF OwnedInv, OwnStored, OwnKeys, Listed
  <2>3. CASE ~Post(f) /\ ~Revoke(f)
    <3>1. UNCHANGED <<rows, messages>>
      BY <2>3 DEF Light1, Light2, Stuck, RegisterFind, AnswerLost, StoreKey, Evaluate, SetSyncState,
                  OwnRows, FetchFulfilled, logout, Fails
    <3> QED
      BY <1>1, <3>1, SameStored DEF OwnedInv
  <2> QED
    BY <2>1, <2>2, <2>3
<1>5. OwnEvents'
  <2>1. CASE Post(f)
    <3>1. Emit(MessageNew(f.seen)) /\ MessageNew(f.seen) \in Event
      BY <1>0, <2>1, PostDoes
    <3>2. OwnEvent(MessageNew(f.seen), mixed)
      BY <1>2 DEF OwnEvent, MessageNew, OwnFlow
    <3> QED
      BY <1>0, <1>1, <3>1, <3>2, SpreadEvents DEF OwnedInv
  <2>2. CASE logout(f)
    <3>1. Heard(f.b)' = {} /\ \A e \in Browsers \ {f.b} : Heard(e)' = Heard(e)
      BY <1>0, <2>2, LogoutDoes
    <3>2. \A e \in Browsers : Heard(e)' \subseteq Heard(e)
      BY <3>1
    <3> QED
      BY <1>1, <3>2, SameEvents DEF OwnedInv
  <2>3. CASE ~Post(f) /\ ~logout(f)
    <3>1. UNCHANGED inbox
      BY <2>3 DEF Light1, Light2, Stuck, RegisterFind, AnswerLost, StoreKey, Evaluate, SetSyncState,
                  OwnRows, FetchFulfilled, Revoke, Fails
    <3> QED
      BY <1>1, <3>1, SameHeard, SameEvents DEF OwnedInv
  <2> QED
    BY <2>1, <2>2, <2>3
<1>6. OwnHandlers'
  <2>1. CASE RegisterFind(f)
    <3>1. PICK h \in Handler : handlers' = handlers \cup {h} /\ h.id = f.id /\ h.key = f.key
      BY <1>0, <2>1, RegisterFindDoes
    <3>2. Own(f.id, f.key, mixed)
      <4>1. f.step \in Registering /\ Rightful(f)
        BY <2>1 DEF RegisterFind, Registering, KeyringInv
      <4> QED
        BY <4>1 DEF Rightful
    <3> QED
      BY <1>1, <3>1, <3>2 DEF OwnedInv, OwnHandlers
  <2>2. CASE AnswerLost(f)
    <3>1. \A h \in handlers' : \E k \in handlers : h.id = k.id /\ h.key = k.key
      BY <1>0, <2>2, AnswerLostDoes
    <3> QED
      BY <1>1, <3>1, SameHandlers DEF OwnedInv
  <2>3. CASE ~RegisterFind(f) /\ ~AnswerLost(f)
    <3>1. UNCHANGED handlers
      BY <2>3 DEF Light1, Light2, Stuck, StoreKey, Evaluate, SetSyncState,
                  OwnRows, FetchFulfilled, Post, Revoke, logout, Fails
    <3> QED
      BY <1>1, <3>1, SameHandlers DEF OwnedInv
  <2> QED
    BY <2>1, <2>2, <2>3
<1>7. OwnFlows'
  BY <1>1, <1>2, EasedFlows DEF OwnedInv
<1> QED
  BY <1>3, <1>4, <1>5, <1>6, <1>7 DEF OwnedInv

LEMMA HeavyOwned ==
  ASSUME SyncForms, OwnedInv, NEW f \in flows, Heavy(f), ~SyncBatch(f)
  PROVE  OwnedInv'
<1>0. SyncTypes /\ Provided /\ f.b \in Browsers /\ OwnFlow(f, mixed) /\ mixed \subseteq mixed
  BY FlowTyped DEF SyncForms, OwnedInv, OwnFlows
<1>1. UNCHANGED <<rows, messages, contact, handlers, inbox>>
  BY DEF Heavy, List, FetchRead, Wrap, Check, Keyed, NewPair, StoreId, SyncPage
<1>2. mixed \subseteq mixed'
  <2>1. CASE NewPair(f)
    BY <2>1 DEF NewPair
  <2>2. CASE ~NewPair(f)
    BY <2>2 DEF Heavy, List, FetchRead, Wrap, Check, Keyed, StoreId, SyncPage
  <2> QED
    BY <2>1, <2>2
<1>3. PagesEased
  BY <1>0, ReadTypes, KeyedTypes, NewPairTypes, StoreIdTypes, SyncPageTypes, SamePages DEF Heavy
<1>4. OwnFlows'
  <2>1. CASE Ends(f)
    BY <1>0, <1>2, <2>1, FewerEase, EasedFlows DEF Ends, OwnedInv
  <2>2. CASE ~Ends(f) /\ (List(f) \/ FetchRead(f))
    <3>1. PICK g \in Flow : Becomes(f, g) /\ g.step \in {"listed", "got"} /\ g.seen = rows
      BY <1>0, <2>2, ListDoes, FetchReadDoes
    <3>2. OwnKeys(rows, mixed')
      BY <1>2, OwnGrows DEF OwnedInv, OwnStored
    <3>3. OwnFlow(g, mixed') /\ Added(g)
      BY <1>0, <3>1, <3>2, BecomesAdds DEF OwnFlow, Copying
    <3> QED
      BY <1>2, <3>3, AddedFlows DEF OwnedInv
  <2>3. CASE ~Ends(f) /\ Wrap(f)
    <3>1. PICK g \in Flow : Becomes(f, g) /\ g.step = "post" /\ g.seen = page[f.b].items
      BY <1>0, <2>3, WrapDoes
    <3>2. OwnKeys(page[f.b].items, mixed')
      BY <1>0, <1>2, OwnGrows DEF OwnedInv, OwnPages
    <3>3. OwnFlow(g, mixed') /\ Added(g)
      BY <1>0, <3>1, <3>2, BecomesAdds DEF OwnFlow, Copying
    <3> QED
      BY <1>2, <3>3, AddedFlows DEF OwnedInv
  <2>4. CASE ~Ends(f) /\ (Check(f) \/ SyncPage(f))
    <3>1. PICK g \in Flow : Becomes(f, g) /\ Named(f, g) /\ g.seen = f.seen /\ f.step \in Copying
      BY <1>0, <2>4, CheckDoes, SyncPageDoes DEF syncCompleted, Copying
    <3>2. OwnFlow(f, mixed')
      BY <1>0, <1>2, OwnGrows
    <3>3. OwnFlow(g, mixed') /\ Added(g)
      BY <1>0, <3>1, <3>2, BecomesAdds DEF OwnFlow, Named
    <3> QED
      BY <1>2, <3>3, AddedFlows DEF OwnedInv
  <2>5. CASE Keyed(f) \/ NewPair(f) \/ StoreId(f)
    <3>1. PICK g \in Flow : /\ g.step \in {"register", "devices", "key"} /\ g.seen \in {f.seen, Blank}
                            /\ Becomes(f, g) \/ \E p \in Page : Shows(f.b, p, (flows \ {f}) \cup {g})
      BY <1>0, <2>5, KeyedDoes, NewPairDoes, StoreIdDoes
    <3>2. OwnFlow(f, mixed')
      BY <1>0, <1>2, OwnGrows
    <3>3. OwnFlow(g, mixed') /\ Added(g)
      BY <1>0, <3>1, <3>2, BlankIsOwn, BecomesAdds, ShowsAdds DEF OwnFlow, Copying
    <3> QED
      BY <1>2, <3>3, AddedFlows DEF OwnedInv
  <2> QED
    BY <2>1, <2>2, <2>3, <2>4, <2>5 DEF Heavy
<1>5. OwnEvents'
  BY <1>1, <1>2, SameHeard, SameEvents DEF OwnedInv
<1> QED
  BY <1>1, <1>2, <1>3, <1>4, <1>5, SameStored, EasedPages, SameHandlers DEF OwnedInv

LEMMA SyncBatchOwned ==
  ASSUME SyncForms, OwnedInv, NEW f \in flows, SyncBatch(f)
  PROVE  OwnedInv'
<1>0. SyncTypes /\ Provided /\ f.b \in Browsers /\ OwnFlow(f, mixed)
  BY FlowTyped DEF SyncForms, OwnedInv, OwnFlows
<1>1. UNCHANGED <<rows, contact, handlers, mixed>> /\ PagesEased
  BY <1>0, SyncBatchTypes DEF SyncBatch
<1>2. f.step = "batch" /\ f.id \in Pairs /\ Own(f.id, f.key, mixed)
  BY <1>0, SyncBatchDoes DEF OwnFlow, Copying
<1>3. OwnStored'
  <2>1. CASE UNCHANGED messages
    BY <1>1, <2>1, SameStored DEF OwnedInv
  <2>2. CASE ~UNCHANGED messages
    <3>1. /\ DOMAIN messages' = DOMAIN messages
          /\ \A k \in DOMAIN messages :
               /\ k \in f.picked /\ Wrapped(k, f.src) => messages'[k] = [messages[k] EXCEPT ![f.id] = f.key]
               /\ ~(k \in f.picked /\ Wrapped(k, f.src)) => messages'[k] = messages[k]
      BY <1>0, <2>2, SyncBatchDoes
    <3>2. ASSUME NEW k \in DOMAIN messages PROVE OwnKeys(messages'[k], mixed)
      <4>1. messages[k] \in Listings /\ OwnKeys(messages[k], mixed)
        BY <1>0 DEF SyncTypes, OwnedInv, OwnStored
      <4>2. CASE messages'[k] = messages[k]
        BY <4>1, <4>2
      <4>3. CASE messages'[k] = [messages[k] EXCEPT ![f.id] = f.key]
        BY <1>2, <4>1, <4>3 DEF OwnKeys, Listed, Listings
      <4> QED
        BY <3>1, <4>2, <4>3
    <3> QED
      BY <1>1, <3>1, <3>2 DEF OwnedInv, OwnStored
  <2> QED
    BY <2>1, <2>2
<1>4. OwnEvents'
  <2>1. CASE UNCHANGED inbox
    BY <1>1, <2>1, SameHeard, SameEvents DEF OwnedInv
  <2>2. CASE ~UNCHANGED inbox
    <3>1. Emit(Complete(f.id))
      BY <1>0, <2>2, SyncBatchDoes
    <3>2. Complete(f.id) \in Event
      BY <1>2, BlankFacts DEF Complete, Event
    <3>3. OwnEvent(Complete(f.id), mixed)
      BY BlankIsOwn DEF OwnEvent, Complete
    <3> QED
      BY <1>0, <1>1, <3>1, <3>2, <3>3, SpreadEvents DEF OwnedInv
  <2> QED
    BY <2>1, <2>2
<1>5. OwnFlows'
  <2>1. CASE Ends(f)
    BY <1>0, <1>1, <2>1, FewerEase, EasedFlows DEF Ends, OwnedInv
  <2>2. CASE ~Ends(f)
    <3>1. PICK g \in Flow : Becomes(f, g) /\ Named(f, g) /\ g.step = "page" /\ g.seen = f.seen
      BY <1>0, <2>2, SyncBatchDoes DEF syncCompleted
    <3>2. OwnFlow(g, mixed') /\ Added(g)
      BY <1>0, <1>1, <1>2, <3>1, BecomesAdds DEF OwnFlow, Named
    <3> QED
      BY <1>1, <3>2, AddedFlows DEF OwnedInv
  <2> QED
    BY <2>1, <2>2
<1> QED
  BY <1>1, <1>3, <1>4, <1>5, EasedPages, SameHandlers DEF OwnedInv

LEMMA WriteOwned ==
  ASSUME SyncForms, OwnedInv, NEW h \in handlers, RegisterWrite(h)
  PROVE  OwnedInv'
<1>0. SyncTypes /\ Provided /\ Own(h.id, h.key, mixed)
  BY DEF SyncForms, OwnedInv, OwnHandlers
<1>1. UNCHANGED <<messages, contact, mixed>>
  BY DEF RegisterWrite
<1>2. /\ handlers' = handlers \ {h}
      /\ rows' = rows \/ \A i \in Pairs : rows'[i] = IF i = h.id THEN h.key ELSE rows[i]
      /\ \/ UNCHANGED <<inbox, missed, faults>>
         \/ /\ Emit(Requested(h.id, h.key))
            /\ Requested(h.id, h.key) \in Event
  BY <1>0, WriteDoes
<1>3. OwnStored'
  BY <1>0, <1>1, <1>2 DEF OwnedInv, OwnStored, OwnKeys, Listed
<1>4. OwnEvents'
  <2>1. CASE UNCHANGED inbox
    BY <1>1, <2>1, SameHeard, SameEvents DEF OwnedInv
  <2>2. CASE ~UNCHANGED inbox
    <3>1. OwnEvent(Requested(h.id, h.key), mixed)
      BY <1>0, BlankIsOwn DEF OwnEvent, Requested
    <3> QED
      BY <1>0, <1>1, <1>2, <2>2, <3>1, SpreadEvents DEF OwnedInv
  <2> QED
    BY <2>1, <2>2
<1>5. OwnHandlers'
  BY <1>1, <1>2 DEF OwnedInv, OwnHandlers
<1> QED
  BY <1>0, <1>1, <1>3, <1>4, <1>5, WriteEases, EasedPages, EasedFlows DEF OwnedInv

LEMMA ContactOwned ==
  ASSUME SyncForms, OwnedInv, ContactSends
  PROVE  OwnedInv'
<1>0. SyncTypes /\ Provided
  BY DEF SyncForms
<1>1. UNCHANGED <<rows, page, flows, handlers, mixed>>
  BY DEF ContactSends
<1> DEFINE L == contact'
<1>2. /\ L \in {contact, rows} /\ L \in Listings
      /\ Len(messages) < MaxMessages /\ messages' = Append(messages, L)
      /\ Emit(MessageNew(L)) /\ MessageNew(L) \in Event
  BY <1>0, ContactDoes
<1>3. OwnKeys(L, mixed)
  BY <1>2 DEF OwnedInv, OwnStored
<1>4. OwnEvent(MessageNew(L), mixed)
  BY <1>3 DEF OwnEvent, MessageNew
<1>5. OwnStored'
  <2> HIDE DEF L
  <2>1. /\ DOMAIN messages' = DOMAIN messages \cup {Len(messages) + 1}
        /\ \A k \in DOMAIN messages : messages'[k] = messages[k]
        /\ messages'[Len(messages) + 1] = L
    BY <1>0, <1>2, AppendDoes
  <2>2. OwnKeys(contact', mixed)
    BY <1>3 DEF L
  <2> QED
    BY <1>1, <1>3, <2>1, <2>2 DEF OwnedInv, OwnStored
<1>6. OwnEvents'
  BY <1>0, <1>1, <1>2, <1>4, SpreadEvents DEF OwnedInv
<1> QED
  BY <1>1, <1>5, <1>6 DEF OwnedInv, OwnPages, OwnHandlers, OwnFlows

LEMMA OwnedKept ==
  ASSUME SyncForms, KeyringInv, OwnedInv, Next
  PROVE  OwnedInv'
<1>1. ASSUME NEW b \in Browsers, Plain(b) \/ Handle(b) \/ Approve(b) PROVE OwnedInv'
  BY <1>1, PlainOwned, HandleOwned, ApproveOwned
<1>2. ASSUME NEW f \in flows, Light1(f) \/ Light2(f) PROVE OwnedInv'
  BY <1>2, StepOwned
<1>3. ASSUME NEW f \in flows, Heavy(f) PROVE OwnedInv'
  BY <1>3, HeavyOwned, SyncBatchOwned
<1>4. ASSUME NEW h \in handlers, RegisterWrite(h) PROVE OwnedInv'
  BY <1>4, WriteOwned
<1> QED
  BY <1>1, <1>2, <1>3, <1>4, ContactOwned, SyncSteps

-----------------------------------------------------------------------------
(* What a page that waits for keys is about to find out.                   *)

\* An evaluation, and an event, that tell the device i of b of its keys.
Telling(f, b, i) == f.b = b /\ f.id = i /\ (f.step = "devices" \/ (f.step = "set" /\ f.next # "pending"))
Tidings(e, i) == e = Complete(i) \/ e.wraps[i] # None
FindsOut(b, i) == (\E f \in flows : Telling(f, b, i)) \/ \E e \in Heard(b) : Tidings(e, i)

BlockInv == \A b \in Browsers :
  Banner(page[b]) /\ b \notin missed /\ (\E k : Has(k, page[b].dev)) => FindsOut(b, page[b].dev)

\* What would tell the page of b goes on among the functions of S.
Tells(b, S) == \A f \in flows : Telling(f, b, page[b].dev) => \E g \in S : Telling(g, b, page[b].dev)

\* The page of b no longer waits, is about to look, or waits as before.
Goes(b) ==
  \/ ~Banner(page'[b])
  \/ \E g \in flows' : Telling(g, b, page'[b].dev)
  \/ /\ Banner(page[b]) /\ page'[b].dev = page[b].dev
     /\ b \in missed => b \in missed'
     /\ Tells(b, flows')

LEMMA BlockFrame ==
  ASSUME BlockInv, \A b \in Browsers : Goes(b), UNCHANGED messages,
         \A b \in Browsers : ~Banner(page'[b]) \/ Heard(b) \subseteq Heard(b)'
  PROVE  BlockInv'
<1>1. ASSUME NEW b \in Browsers, Banner(page'[b]), b \notin missed', NEW k, Has(k, page[b].dev)'
      PROVE  FindsOut(b, page[b].dev)'
  <2>1. CASE \E g \in flows' : Telling(g, b, page'[b].dev)
    BY <2>1 DEF FindsOut
  <2>2. CASE ~\E g \in flows' : Telling(g, b, page'[b].dev)
    <3>1. Banner(page[b]) /\ page'[b].dev = page[b].dev /\ b \notin missed /\ Tells(b, flows')
      BY <1>1, <2>2 DEF Goes
    <3>2. Has(k, page[b].dev)
      BY <1>1, <3>1 DEF Has
    <3>3. FindsOut(b, page[b].dev)
      BY <3>1, <3>2 DEF BlockInv
    <3>4. \A f \in flows : ~Telling(f, b, page[b].dev)
      BY <2>2, <3>1 DEF Tells
    <3>5. PICK e \in Heard(b) : Tidings(e, page[b].dev)
      BY <3>3, <3>4 DEF FindsOut
    <3>6. e \in Heard(b)' /\ Tidings(e, page'[b].dev)
      BY <1>1, <3>1, <3>5
    <3> QED
      BY <3>6 DEF FindsOut
  <2> QED
    BY <2>1, <2>2
<1> QED
  BY <1>1 DEF BlockInv

\* The event e is sent, and tells of whatever is wrapped now.
LEMMA NewsFrame ==
  ASSUME BlockInv, NEW e, \A b \in Browsers : Goes(b),
         \A b \in Browsers : Heard(b) \subseteq Heard(b)' /\ (page[b].on => b \in missed' \/ e \in Heard(b)'),
         \A k, i : Has(k, i)' => Has(k, i) \/ Tidings(e, i)
  PROVE  BlockInv'
<1>1. ASSUME NEW b \in Browsers, Banner(page'[b]), b \notin missed', NEW k, Has(k, page[b].dev)'
      PROVE  FindsOut(b, page[b].dev)'
  <2>1. CASE \E g \in flows' : Telling(g, b, page'[b].dev)
    BY <2>1 DEF FindsOut
  <2>2. CASE ~\E g \in flows' : Telling(g, b, page'[b].dev)
    <3>1. Banner(page[b]) /\ page'[b].dev = page[b].dev /\ b \notin missed /\ Tells(b, flows')
      BY <1>1, <2>2 DEF Goes
    <3>2. Has(k, page[b].dev) \/ Tidings(e, page[b].dev)
      <4> DEFINE i == page[b].dev
      <4>1. PICK j : j = i
        OBVIOUS
      <4>2. Has(k, j)'
        BY <1>1, <3>1, <4>1 DEF Has
      <4>3. Has(k, j) \/ Tidings(e, j)
        BY <4>2
      <4> QED
        BY <4>1, <4>3
    <3>3. CASE Tidings(e, page[b].dev)
      <4>1. e \in Heard(b)'
        BY <1>1, <3>1 DEF Banner
      <4> QED
        BY <3>1, <3>3, <4>1 DEF FindsOut
    <3>4. CASE Has(k, page[b].dev)
      <4>1. FindsOut(b, page[b].dev)
        BY <3>1, <3>4 DEF BlockInv
      <4>2. \A f \in flows : ~Telling(f, b, page[b].dev)
        BY <2>2, <3>1 DEF Tells
      <4>3. PICK t \in Heard(b) : Tidings(t, page[b].dev)
        BY <4>1, <4>2 DEF FindsOut
      <4>4. t \in Heard(b)' /\ Tidings(t, page'[b].dev)
        BY <1>1, <3>1, <4>3
      <4> QED
        BY <4>4 DEF FindsOut
    <3> QED
      BY <3>2, <3>3, <3>4
  <2> QED
    BY <2>1, <2>2
<1> QED
  BY <1>1 DEF BlockInv

LEMMA ShowsGo ==
  ASSUME NEW b \in Browsers, NEW p \in Page, NEW running, Shows(b, p, running),
         NEW c \in Browsers, Tells(c, running), c \in missed => c \in missed'
  PROVE  Goes(c)
<1>1. running \subseteq flows' /\ Tells(c, flows')
  BY DEF Shows, Tells
<1>2. CASE c = b
  <2>1. page'[b] = p
    BY DEF Shows
  <2>2. Banner(p) /\ ~(Banner(page[b]) /\ page[b].dev = p.dev) => \E g \in flows' : Telling(g, b, p.dev)
    BY DEF Shows, Telling
  <2> QED
    BY <1>1, <1>2, <2>1, <2>2 DEF Goes
<1>3. CASE c # b
  <2>1. page'[c] = page[c]
    BY <1>3 DEF Shows
  <2> QED
    BY <1>1, <2>1 DEF Goes
<1> QED
  BY <1>2, <1>3

LEMMA TurnedGoes ==
  ASSUME NEW b \in Browsers, Turned(b),
         page'[b].sync = page[b].sync, page'[b].dev = page[b].dev, page'[b].on = page[b].on,
         NEW c \in Browsers, Tells(c, flows'), c \in missed => c \in missed'
  PROVE  Goes(c)
<1>1. page'[c].sync = page[c].sync /\ page'[c].dev = page[c].dev /\ page'[c].on = page[c].on
  BY DEF Turned
<1> QED
  BY <1>1 DEF Goes, Banner

LEMMA SameGoes ==
  ASSUME UNCHANGED page, NEW c \in Browsers, Tells(c, flows'), c \in missed => c \in missed'
  PROVE  Goes(c)
BY DEF Goes

\* A function that is neither reading nor to report its answer goes on, ends or calls another.
LEMMA TellsOn ==
  ASSUME NEW f, f.step \notin {"devices", "set"}, NEW S, flows \ {f} \subseteq S
  PROVE  \A b \in Browsers : Tells(b, S)
BY DEF Tells, Telling

LEMMA TellsBecomes ==
  ASSUME NEW f, f.step \notin {"devices", "set"}, Ends(f) \/ \E g : Becomes(f, g)
  PROVE  \A b \in Browsers : Tells(b, flows')
BY DEF Ends, Becomes, Tells, Telling

LEMMA TellsMore ==
  ASSUME NEW S, flows \subseteq S
  PROVE  \A b \in Browsers : Tells(b, S)
BY DEF Tells

LEMMA PlainBlock ==
  ASSUME SyncTypes, BlockInv, NEW b \in Browsers, Plain(b)
  PROVE  BlockInv'
<1>0. UNCHANGED messages
  BY PlainKeeps
<1>1. CASE SignIn(b)
  <2>1. PICK p \in Page, g \in Flow : Shows(b, p, flows \cup {g})
    BY <1>1, OpensDoes
  <2>2. ~Banner(page[b]) /\ missed' = missed \ {b} /\ UNCHANGED inbox
    BY <1>1 DEF SignIn, Banner
  <2>3. ASSUME NEW c \in Browsers, c # b PROVE Goes(c)
    BY <2>1, <2>2, <2>3, ShowsGo, TellsMore
  <2>4. Goes(b)
    BY <2>1, <2>2 DEF Shows, Goes, Telling
  <2> QED
    BY <1>0, <2>2, <2>3, <2>4, SameHeard, BlockFrame
<1>2. CASE Visible(b) \/ Send(b)
  <2>1. PICK p \in Page, g \in Flow : Shows(b, p, flows \cup {g})
    BY <1>2, OpensDoes
  <2>2. UNCHANGED <<missed, inbox>>
    BY <1>2 DEF Visible, Send
  <2>3. \A c \in Browsers : Goes(c)
    BY <2>1, <2>2, ShowsGo, TellsMore
  <2> QED
    BY <1>0, <2>2, <2>3, SameHeard, BlockFrame
<1>3. CASE Reload(b)
  <2>1. /\ \A e \in Browsers \ {b} : page'[e] = page[e] /\ Heard(e)' = Heard(e)
        /\ page'[b].sync = "idle" /\ \E g \in Flow : flows' = (flows \ FlowsOf(b)) \cup {g}
    BY <1>3, ReloadDoes
  <2>2. missed' = missed \ {b} /\ ~Banner(page'[b])
    BY <1>3, <2>1 DEF Reload, Banner
  <2>3. ASSUME NEW c \in Browsers, c # b PROVE Tells(c, flows')
    BY <2>1, <2>3 DEF Tells, Telling, FlowsOf
  <2>4. \A c \in Browsers : Goes(c)
    BY <2>1, <2>2, <2>3 DEF Goes
  <2> QED
    BY <1>0, <2>1, <2>2, <2>4, BlockFrame
<1>4. CASE Prefetch(b) \/ Expires(b) \/ syncDismissed(b)
  <2>1. /\ Turned(b) /\ page'[b].sync = page[b].sync /\ page'[b].dev = page[b].dev /\ page'[b].on = page[b].on
    BY <1>4, PrefetchDoes, PageDoes
  <2>2. UNCHANGED <<missed, inbox>> /\ flows \subseteq flows'
    BY <1>4, PrefetchDoes DEF Prefetch, Expires, syncDismissed
  <2>3. \A c \in Browsers : Goes(c)
    BY <2>1, <2>2, TurnedGoes, TellsMore
  <2> QED
    BY <1>0, <2>2, <2>3, SameHeard, BlockFrame
<1>5. CASE Revalidate(b) \/ Leave(b)
  <2>1. UNCHANGED <<missed, inbox, page>>
    BY <1>5 DEF Revalidate, Leave
  <2>2. flows \subseteq flows'
    BY <1>5, RevalidateDoes, LeaveDoes
  <2>3. \A c \in Browsers : Goes(c)
    BY <2>1, <2>2, SameGoes, TellsMore
  <2> QED
    BY <1>0, <2>1, <2>3, SameHeard, BlockFrame
<1>6. CASE NotifyAgain(b)
  <2>1. UNCHANGED <<page, flows>>
    BY <1>6 DEF NotifyAgain
  <2>2. missed \subseteq missed' /\ \A c \in Browsers : Heard(c) \subseteq Heard(c)'
    BY <1>6, NotifyDoes, SpreadDoes
  <2>3. \A c \in Browsers : Goes(c)
    BY <2>1, <2>2, SameGoes, TellsMore
  <2> QED
    BY <1>0, <2>2, <2>3, BlockFrame
<1> QED
  BY <1>1, <1>2, <1>3, <1>4, <1>5, <1>6 DEF Plain

\* An event that tells the page of its keys makes it look.
LEMMA HandleBlock ==
  ASSUME SyncTypes, Provided, BlockInv, NEW b \in Browsers, Handle(b)
  PROVE  BlockInv'
<1> DEFINE e == Head(inbox[b])
<1>1. /\ Heard(b) \subseteq Heard(b)' \cup {e} /\ \A a \in Browsers \ {b} : Heard(a)' = Heard(a)
      /\ Turned(b) /\ page'[b].sync = page[b].sync /\ page'[b].dev = page[b].dev /\ page'[b].on = page[b].on
      /\ flows \subseteq flows'
      /\ Banner(page[b]) /\ (e = Complete(page[b].dev) \/ e.wraps[page[b].dev] # None) =>
           \E g \in flows' : g.b = b /\ g.step = "devices" /\ g.id = page[b].dev
  BY HandleDoes
<1> HIDE DEF e
<1>2. UNCHANGED <<messages, missed>>
  BY DEF Handle
<1>3. \A c \in Browsers : Goes(c)
  BY <1>1, <1>2, TurnedGoes, TellsMore
<1>4. \A c \in Browsers : Banner(page'[c]) => Banner(page[c]) /\ page'[c].dev = page[c].dev
  BY <1>1 DEF Turned, Banner
<1>5. ASSUME NEW c \in Browsers, Banner(page'[c]), c \notin missed', NEW k, Has(k, page[c].dev)'
      PROVE  FindsOut(c, page[c].dev)'
  <2>1. Banner(page[c]) /\ page'[c].dev = page[c].dev /\ Has(k, page[c].dev)
    BY <1>2, <1>4, <1>5 DEF Has
  <2>2. FindsOut(c, page[c].dev)
    BY <1>2, <1>5, <2>1 DEF BlockInv
  <2>3. CASE \E f \in flows : Telling(f, c, page[c].dev)
    BY <1>1, <2>1, <2>3 DEF FindsOut
  <2>4. CASE ~\E f \in flows : Telling(f, c, page[c].dev)
    <3>1. PICK t \in Heard(c) : Tidings(t, page[c].dev)
      BY <2>2, <2>4 DEF FindsOut
    <3>2. CASE t \in Heard(c)'
      BY <2>1, <3>1, <3>2 DEF FindsOut
    <3>3. CASE t \notin Heard(c)'
      <4>1. c = b /\ t = e
        BY <1>1, <3>1, <3>3
      <4>2. \E g \in flows' : Telling(g, c, page[c].dev)
        BY <1>1, <2>1, <3>1, <4>1 DEF Telling, Tidings
      <4> QED
        BY <2>1, <4>2 DEF FindsOut
    <3> QED
      BY <3>2, <3>3
  <2> QED
    BY <2>3, <2>4
<1> QED
  BY <1>5 DEF BlockInv

\* An evaluation that finds keys does not answer that the page has to wait, nor does
\* one that fails.
LEMMA ReadingBlock ==
  ASSUME SyncTypes, BlockInv, NEW f \in flows, Evaluate(f) \/ (Fails(f) /\ f.step = "devices")
  PROVE  BlockInv'
<1>1. f.b \in Browsers /\ f.step = "devices"
  BY FlowTyped DEF Evaluate
<1>2. PICK g \in Flow : /\ Becomes(f, g) /\ Alike(f, g) /\ Named(f, g) /\ g.step = "set"
                        /\ (\E k \in DOMAIN messages : Wrapped(k, f.id)) => g.next # "pending"
  BY <1>1, EvaluateDoes, FailsDoes DEF Ends
<1>3. UNCHANGED <<messages, inbox>>
  BY DEF Evaluate, Fails
<1>4. \A c \in Browsers : page'[c].sync = page[c].sync /\ page'[c].dev = page[c].dev /\ page'[c].on = page[c].on
  BY <1>1 DEF Evaluate, Fails
<1>5. UNCHANGED missed
  BY DEF Evaluate, Fails
<1>6. ASSUME NEW c \in Browsers, Banner(page'[c]), c \notin missed', NEW k, Has(k, page[c].dev)'
      PROVE  FindsOut(c, page[c].dev)'
  <2>1. Banner(page[c]) /\ page'[c].dev = page[c].dev /\ Has(k, page[c].dev)
    BY <1>3, <1>4, <1>6 DEF Has, Banner
  <2>2. FindsOut(c, page[c].dev)
    BY <1>5, <1>6, <2>1 DEF BlockInv
  <2>3. CASE \E t \in Heard(c) : Tidings(t, page[c].dev)
    BY <1>3, <2>1, <2>3, SameHeard DEF FindsOut
  <2>4. CASE ~\E t \in Heard(c) : Tidings(t, page[c].dev)
    <3>1. PICK t \in flows : Telling(t, c, page[c].dev)
      BY <2>2, <2>4 DEF FindsOut
    <3>2. CASE t = f
      <4>1. \E j \in DOMAIN messages : Wrapped(j, f.id)
        BY <2>1, <3>1, <3>2 DEF Has, Wrapped, Telling
      <4>2. Telling(g, c, page[c].dev) /\ g \in flows'
        BY <1>2, <3>1, <3>2, <4>1 DEF Telling, Alike, Named, Becomes
      <4> QED
        BY <2>1, <4>2 DEF FindsOut
    <3>3. CASE t # f
      <4>1. t \in flows'
        BY <1>2, <3>3 DEF Becomes
      <4> QED
        BY <2>1, <3>1, <4>1 DEF FindsOut
    <3> QED
      BY <3>2, <3>3
  <2> QED
    BY <2>3, <2>4
<1> QED
  BY <1>6 DEF BlockInv

\* A function that is neither reading nor to report its answer leaves the pages waiting
\* as they are.
LEMMA QuietBlock ==
  ASSUME BlockInv, NEW f, f.step \notin {"devices", "set"}, Ends(f) \/ \E g : Becomes(f, g),
         UNCHANGED <<messages, missed, inbox>>,
         \/ UNCHANGED page
         \/ \E b \in Browsers : /\ Turned(b) /\ page'[b].sync = page[b].sync
                                /\ page'[b].dev = page[b].dev /\ page'[b].on = page[b].on
  PROVE  BlockInv'
<1>1. \A c \in Browsers : Tells(c, flows')
  BY TellsBecomes
<1>2. \A c \in Browsers : Goes(c)
  BY <1>1, SameGoes, TurnedGoes
<1> QED
  BY <1>2, SameHeard, BlockFrame

\* A pending answer makes the page wait or go on waiting; any other ends the waiting.
LEMMA SetSyncBlock ==
  ASSUME SyncTypes, BlockInv, NEW f \in flows, SetSyncState(f)
  PROVE  BlockInv'
<1>1. f.b \in Browsers
  BY FlowTyped
<1>2. PICK running \in SUBSET Flow, p \in Page :
        /\ f.step = "set" /\ flows \ {f} \subseteq running
        /\ p.sync = f.next /\ Shows(f.b, p, running)
  BY SetSyncDoes
<1>3. UNCHANGED <<messages, missed, inbox>>
  BY DEF SetSyncState
<1>4. ASSUME NEW c \in Browsers PROVE Goes(c)
  <2>1. CASE Telling(f, c, page[c].dev)
    <3>1. c = f.b /\ f.next # "pending"
      BY <1>2, <2>1 DEF Telling
    <3>2. page'[c] = p
      BY <1>2, <3>1 DEF Shows
    <3> QED
      BY <1>2, <3>1, <3>2 DEF Goes, Banner
  <2>2. CASE ~Telling(f, c, page[c].dev)
    <3>1. Tells(c, running)
      BY <1>2, <2>2 DEF Tells
    <3> QED
      BY <1>1, <1>2, <1>3, <3>1, ShowsGo
  <2> QED
    BY <2>1, <2>2
<1> QED
  BY <1>3, <1>4, SameHeard, BlockFrame

\* A new message is announced.
LEMMA AnnouncedBlock ==
  ASSUME SyncTypes, BlockInv, NEW L \in Listings, Len(messages) < MaxMessages,
         messages' = Append(messages, L), Emit(MessageNew(L)), MessageNew(L) \in Event,
         UNCHANGED page, \A b \in Browsers : Tells(b, flows')
  PROVE  BlockInv'
<1> DEFINE e == MessageNew(L)
<1>1. e.wraps = L
  BY DEF MessageNew
<1>2. \A k, i : Has(k, i)' => Has(k, i) \/ Tidings(e, i)
  BY <1>1, AppendDoes DEF Has, Tidings
<1> HIDE DEF e
<1>3. /\ missed \subseteq missed'
      /\ \A b \in Browsers : Heard(b) \subseteq Heard(b)' /\ (page[b].on => b \in missed' \/ e \in Heard(b)')
  BY SpreadDoes DEF e
<1>4. \A b \in Browsers : Goes(b)
  BY <1>3, SameGoes
<1> QED
  BY <1>2, <1>3, <1>4, NewsFrame

LEMMA LightBlock ==
  ASSUME SyncTypes, Provided, BlockInv, NEW f \in flows, Light1(f) \/ Light2(f)
  PROVE  BlockInv'
<1>0. f.b \in Browsers
  BY FlowTyped
<1>1. CASE Evaluate(f) \/ (Fails(f) /\ f.step = "devices")
  BY <1>1, ReadingBlock
<1>2. CASE SetSyncState(f)
  BY <1>2, SetSyncBlock
<1>3. CASE Stuck(f) \/ RegisterFind(f) \/ AnswerLost(f) \/ StoreKey(f) \/ Revoke(f)
  <2>1. /\ UNCHANGED <<messages, missed, inbox, page>>
        /\ f.step \in {"listed", "register", "posted", "key", "revoke"}
    BY <1>3 DEF Stuck, RegisterFind, AnswerLost, StoreKey, Revoke
  <2>2. Ends(f) \/ \E g : Becomes(f, g)
    BY <1>3 DEF Stuck, RegisterFind, AnswerLost, StoreKey, Revoke
  <2> QED
    BY <2>1, <2>2, QuietBlock
<1>4. CASE OwnRows(f)
  <2>1. UNCHANGED <<messages, missed, inbox>> /\ f.step = "rows"
    BY <1>4 DEF OwnRows
  <2>2. Carried(f.b) /\ \E g : Becomes(f, g)
    BY <1>4, OwnRowsDoes
  <2> QED
    BY <1>0, <2>1, <2>2, QuietBlock DEF Carried
<1>5. CASE FetchFulfilled(f)
  <2>1. UNCHANGED <<messages, missed, inbox>>
    BY <1>5 DEF FetchFulfilled
  <2>2. f.step = "got" /\ Relisted(f.b, f.seen) /\ (Ends(f) \/ \E g : Becomes(f, g))
    BY <1>5, FetchFulfilledDoes
  <2> QED
    BY <1>0, <2>1, <2>2, QuietBlock DEF Relisted
<1>6. CASE Post(f)
  <2>1. /\ f.step = "post" /\ Ends(f) /\ f.seen \in Listings
        /\ Len(messages) < MaxMessages /\ messages' = Append(messages, f.seen)
        /\ Emit(MessageNew(f.seen)) /\ MessageNew(f.seen) \in Event
    BY <1>6, PostDoes
  <2>2. UNCHANGED page
    BY <1>6 DEF Post
  <2>3. \A b \in Browsers : Tells(b, flows')
    BY <2>1, TellsBecomes
  <2> QED
    BY <2>1, <2>2, <2>3, AnnouncedBlock
<1>7. CASE logout(f)
  <2>1. /\ f.step = "leave" /\ Ends(f) /\ Turned(f.b) /\ ~page'[f.b].on
        /\ \A e \in Browsers \ {f.b} : Heard(e)' = Heard(e)
    BY <1>7, LogoutDoes
  <2>2. UNCHANGED <<messages, missed>>
    BY <1>7 DEF logout
  <2>3. \A c \in Browsers : Tells(c, flows')
    BY <2>1, TellsBecomes
  <2>4. \A c \in Browsers : Goes(c)
    BY <2>1, <2>2, <2>3 DEF Goes, Turned, Banner
  <2>5. ~Banner(page'[f.b])
    BY <2>1 DEF Banner
  <2> QED
    BY <2>1, <2>2, <2>4, <2>5, BlockFrame
<1>8. CASE Fails(f) /\ f.step # "devices"
  <2>1. UNCHANGED <<messages, missed, inbox>> /\ f.step \notin {"devices", "set"}
    BY <1>8 DEF Fails
  <2>2. (Carried(f.b) \/ Relisted(f.b, Blank)) /\ (Ends(f) \/ \E g : Becomes(f, g))
    BY <1>8, FailsDoes
  <2> QED
    BY <1>0, <2>1, <2>2, QuietBlock DEF Carried, Relisted
<1> QED
  BY <1>1, <1>2, <1>3, <1>4, <1>5, <1>6, <1>7, <1>8 DEF Light1, Light2

\* A copied key is announced to its device.
LEMMA SyncBatchBlock ==
  ASSUME SyncTypes, Provided, BlockInv, NEW f \in flows, SyncBatch(f)
  PROVE  BlockInv'
<1>0. f.b \in Browsers /\ f.step = "batch" /\ f.id \in Pairs /\ f.key \in Pairs
  BY FlowTyped, SyncBatchDoes
<1>1. CASE Ends(f) /\ UNCHANGED <<messages, inbox, missed, faults, page, promised>>
  BY <1>0, <1>1, QuietBlock
<1>2. CASE ~(Ends(f) /\ UNCHANGED <<messages, inbox, missed, faults, page, promised>>)
  <2> DEFINE e == Complete(f.id)
  <2>1. /\ DOMAIN messages' = DOMAIN messages
        /\ \A k \in DOMAIN messages : \/ messages'[k] = [messages[k] EXCEPT ![f.id] = f.key]
                                      \/ messages'[k] = messages[k]
        /\ Emit(e)
        /\ \/ syncCompleted(f)
           \/ UNCHANGED page /\ \E g \in Flow : Becomes(f, g)
    BY <1>2, SyncBatchDoes
  <2>2. e \in Event
    BY <1>0, BlankFacts, EventsTyped
  <2>3. Tidings(e, f.id)
    BY DEF Tidings
  <2> HIDE DEF e
  <2>4. messages \in Seq(Listings) /\ \A k \in DOMAIN messages : messages[k] \in [Pairs -> Pairs \cup {None}]
    BY DEF SyncTypes, Listings
  <2>5. ASSUME NEW k, NEW i, Has(k, i)', ~Has(k, i) PROVE Tidings(e, i)
    <3>1. k \in DOMAIN messages /\ i \in Pairs /\ messages'[k][i] # messages[k][i]
      BY <2>1, <2>5 DEF Has
    <3>2. messages'[k] = [messages[k] EXCEPT ![f.id] = f.key]
      BY <2>1, <3>1
    <3>3. i = f.id
      BY <2>4, <3>1, <3>2
    <3> QED
      BY <2>3, <3>3
  <2>6. /\ missed \subseteq missed'
        /\ \A b \in Browsers : Heard(b) \subseteq Heard(b)' /\ (page[b].on => b \in missed' \/ e \in Heard(b)')
    BY <2>1, <2>2, SpreadDoes
  <2>7. Ends(f) \/ \E g : Becomes(f, g)
    BY <2>1 DEF syncCompleted
  <2>8. \A c \in Browsers : Tells(c, flows')
    BY <1>0, <2>7, TellsBecomes
  <2>9. ASSUME NEW c \in Browsers PROVE Goes(c)
    <3>1. CASE syncCompleted(f)
      <4>1. Dismissed(f.b)
        BY <1>0, <3>1, CompletedDoes
      <4> QED
        BY <1>0, <2>6, <2>8, <4>1, TurnedGoes DEF Dismissed
    <3>2. CASE UNCHANGED page
      BY <2>6, <2>8, <3>2, SameGoes
    <3> QED
      BY <2>1, <3>1, <3>2
  <2> QED
    BY <2>5, <2>6, <2>9, NewsFrame
<1> QED
  BY <1>1, <1>2

LEMMA HeavyBlock ==
  ASSUME SyncTypes, Provided, BlockInv, NEW f \in flows, Heavy(f)
  PROVE  BlockInv'
<1>0. f.b \in Browsers
  BY FlowTyped
<1>1. CASE List(f) \/ FetchRead(f) \/ Wrap(f) \/ Check(f)
  <2>1. /\ UNCHANGED <<messages, missed, inbox, page>>
        /\ f.step \in {"list", "ask", "wrap", "check"} /\ (Ends(f) \/ \E g : Becomes(f, g))
    BY <1>1 DEF List, FetchRead, Wrap, Check
  <2> QED
    BY <2>1, QuietBlock
<1>2. CASE Keyed(f) \/ NewPair(f) \/ StoreId(f)
  <2>1. UNCHANGED <<messages, missed, inbox>> /\ f.step \in {"listed", "store"}
    BY <1>2 DEF Keyed, NewPair, StoreId
  <2>2. \E g \in Flow : \/ Becomes(f, g) /\ UNCHANGED page
                        \/ \E p \in Page : Shows(f.b, p, (flows \ {f}) \cup {g})
    BY <1>2, KeyedDoes, NewPairDoes, StoreIdDoes
  <2>3. ASSUME NEW c \in Browsers PROVE Goes(c)
    BY <1>0, <2>1, <2>2, TellsBecomes, TellsOn, SameGoes, ShowsGo
  <2> QED
    BY <2>1, <2>3, SameHeard, BlockFrame
<1>3. CASE SyncPage(f)
  <2>1. UNCHANGED <<messages, missed, inbox>> /\ f.step = "page"
    BY <1>3 DEF SyncPage
  <2>2. \/ UNCHANGED page
        \/ Dismissed(f.b)
    <3>1. CASE syncCompleted(f)
      <4>1. f.id \in Pairs
        BY <2>1, FlowTyped DEF Provided, Ready, Copying, Flow
      <4> QED
        BY <3>1, <4>1, CompletedDoes
    <3> QED
      BY <1>3, <3>1, SyncPageDoes
  <2>3. Ends(f) \/ \E g : Becomes(f, g)
    BY <1>3, SyncPageDoes DEF syncCompleted
  <2> QED
    BY <1>0, <2>1, <2>2, <2>3, QuietBlock DEF Dismissed
<1> QED
  BY <1>1, <1>2, <1>3, SyncBatchBlock DEF Heavy

LEMMA WriteBlock ==
  ASSUME SyncTypes, BlockInv, NEW h \in handlers, RegisterWrite(h)
  PROVE  BlockInv'
<1>1. UNCHANGED messages
  BY DEF RegisterWrite
<1>2. missed \subseteq missed' /\ \A b \in Browsers : Heard(b) \subseteq Heard(b)'
  <2>1. CASE UNCHANGED <<inbox, missed, faults>>
    BY <2>1, SameHeard
  <2>2. CASE ~UNCHANGED <<inbox, missed, faults>>
    BY <2>2, WriteDoes, SpreadDoes
  <2> QED
    BY <2>1, <2>2
<1>3. ASSUME NEW c \in Browsers PROVE Goes(c)
  <2>1. CASE UNCHANGED <<page, flows>>
    BY <1>2, <2>1, SameGoes, TellsMore
  <2>2. CASE ~UNCHANGED <<page, flows>>
    <3>1. PICK f \in flows, g \in Flow :
            /\ f.step = "posted"
            /\ \/ Becomes(f, g) /\ UNCHANGED page
               \/ \E p \in Page : Shows(f.b, p, (flows \ {f}) \cup {g})
      BY <2>2, WriteDoes
    <3>2. f.b \in Browsers
      BY FlowTyped
    <3> QED
      BY <1>2, <3>1, <3>2, TellsBecomes, TellsOn, SameGoes, ShowsGo
  <2> QED
    BY <2>1, <2>2
<1> QED
  BY <1>1, <1>2, <1>3, BlockFrame

LEMMA BlockKept ==
  ASSUME SyncForms, BlockInv, Next
  PROVE  BlockInv'
<1>0. SyncTypes /\ Provided
  BY DEF SyncForms
<1>1. ASSUME NEW b \in Browsers, Plain(b) \/ Handle(b) PROVE BlockInv'
  BY <1>0, <1>1, PlainBlock, HandleBlock
<1>2. ASSUME NEW b \in Browsers, Approve(b) PROVE BlockInv'
  <2>1. UNCHANGED <<messages, missed, inbox, page>>
    BY <1>2 DEF Approve
  <2>2. flows \subseteq flows'
    BY <1>0, <1>2, ApproveDoes
  <2>3. \A c \in Browsers : Goes(c)
    BY <2>1, <2>2, SameGoes, TellsMore
  <2> QED
    BY <2>1, <2>3, SameHeard, BlockFrame
<1>3. ASSUME NEW f \in flows, Light1(f) \/ Light2(f) \/ Heavy(f) PROVE BlockInv'
  BY <1>0, <1>3, LightBlock, HeavyBlock
<1>4. ASSUME NEW h \in handlers, RegisterWrite(h) PROVE BlockInv'
  BY <1>0, <1>4, WriteBlock
<1>5. ASSUME ContactSends PROVE BlockInv'
  <2>1. UNCHANGED <<page, flows>>
    BY <1>5 DEF ContactSends
  <2>2. /\ contact' \in Listings /\ Len(messages) < MaxMessages /\ messages' = Append(messages, contact')
        /\ Emit(MessageNew(contact')) /\ MessageNew(contact') \in Event
    BY <1>0, <1>5, ContactDoes
  <2>3. \A b \in Browsers : Tells(b, flows')
    BY <2>1, TellsMore
  <2>4. PICK L : L = contact'
    OBVIOUS
  <2> QED
    BY <1>0, <2>1, <2>2, <2>3, <2>4, AnnouncedBlock
<1> QED
  BY <1>1, <1>2, <1>3, <1>4, <1>5, SyncSteps

-----------------------------------------------------------------------------
(* The theorems.                                                           *)

KeysInv == SyncForms /\ ToldInv /\ CopiedInv /\ KeyringInv /\ OwnedInv /\ BlockInv

LEMMA KeysStart ==
  ASSUME Init
  PROVE  KeysInv
<1> DEFINE known == {First(b) : b \in Established}
           wrapped == [i \in Pairs |-> IF i \in known THEN i ELSE None]
<1>1. 1 \in 1 .. MaxPairs /\ Established \subseteq Browsers /\ History \in Nat /\ History <= MaxMessages
  BY DeviceAssumption
<1>2. \A b \in Browsers : First(b) \in Pairs /\ First(b)[1] = b
  BY <1>1 DEF First, Pairs
<1>3. known \subseteq Pairs
  BY <1>1, <1>2
<1> HIDE DEF known
<1>4. wrapped \in Listings /\ \A i \in Pairs : wrapped[i] \in {None, i}
  BY <1>3 DEF Listings
<1>5. \A m : OwnKeys(wrapped, m)
  BY <1>4 DEF OwnKeys, Own, Listed
<1>6. /\ rows = wrapped /\ contact = wrapped /\ messages = [k \in 1 .. History |-> wrapped]
      /\ flows = {} /\ handlers = {} /\ inbox = [b \in Browsers |-> <<>>]
      /\ told = [b \in Browsers |-> {}] /\ missed = {} /\ mixed = {} /\ promised = {}
  BY DEF Init, known
<1> HIDE DEF wrapped
<1>7. idb = [b \in Browsers |-> IF b \in Established THEN [id |-> First(b), key |-> First(b)]
                                                    ELSE [id |-> None, key |-> None]]
  BY DEF Init
<1>8. made \in [Browsers -> 0 .. MaxPairs]
  <2>1. 0 \in 0 .. MaxPairs /\ 1 \in 0 .. MaxPairs
    BY DeviceAssumption
  <2>2. made = [b \in Browsers |-> IF b \in Established THEN 1 ELSE 0]
    BY DEF Init
  <2> QED
    BY <2>1, <2>2
<1>9. idb \in [Browsers -> [id: Pairs \cup {None}, key: Pairs \cup {None}]]
      /\ \A b \in Browsers : idb[b].key = idb[b].id /\ (idb[b].id # None => idb[b].id[1] = b)
  BY <1>2, <1>7
<1>10. page \in [Browsers -> Page]
       /\ \A b \in Browsers : page[b].items = Blank /\ page[b].asked = None /\ page[b].sync = "idle"
  <2> DEFINE on(b) == [cryptoInitialState EXCEPT !.dev = First(b)]
             off == [cryptoInitialState EXCEPT !.on = FALSE]
  <2>1. \A b \in Browsers : on(b) \in Page /\ on(b).items = Blank /\ on(b).asked = None /\ on(b).sync = "idle"
    BY <1>2, BlankFacts DEF cryptoInitialState, Page
  <2>2. off \in Page /\ off.items = Blank /\ off.asked = None /\ off.sync = "idle"
    BY BlankFacts DEF cryptoInitialState, Page
  <2>3. page = [b \in Browsers |-> IF b \in Established THEN on(b) ELSE off]
    BY DEF Init
  <2> HIDE DEF on, off
  <2> QED
    BY <2>1, <2>2, <2>3
<1>11. \A b \in Browsers : Heard(b) = {}
  BY <1>6 DEF Heard
<1>12. messages \in Seq(Listings) /\ Len(messages) = History /\ \A k \in DOMAIN messages : messages[k] = wrapped
  BY <1>1, <1>4, <1>6
<1>13. SyncForms
  <2>1. inbox \in [Browsers -> Seq(Event)] /\ told \in [Browsers -> SUBSET Pairs]
    BY <1>6
  <2>2. SyncTypes
    BY <1>1, <1>4, <1>6, <1>8, <1>9, <1>10, <1>12, <2>1 DEF SyncTypes
  <2> QED
    BY <1>6, <1>9, <1>11, <2>2 DEF SyncForms, Provided
<1>14. ToldInv
  BY <1>6 DEF ToldInv
<1>15. CopiedInv /\ KeyringInv
  BY <1>6, <1>9 DEF CopiedInv, KeyringInv
<1>16. OwnedInv
  BY <1>5, <1>6, <1>10, <1>11, <1>12, BlankIsOwn
     DEF OwnedInv, OwnStored, OwnPages, OwnEvents, OwnHandlers, OwnFlows
<1>17. BlockInv
  BY <1>10 DEF BlockInv, Banner
<1> QED
  BY <1>13, <1>14, <1>15, <1>16, <1>17 DEF KeysInv

LEMMA KeysStutter ==
  ASSUME KeysInv, UNCHANGED vars
  PROVE  KeysInv'
<1>1. UNCHANGED <<rows, messages, idb, page, flows, handlers, inbox, contact, made,
                  told, missed, mixed, promised>>
  BY DEF vars
<1>2. \A b \in Browsers : Heard(b)' = Heard(b)
  BY <1>1, SameHeard
<1>3. SyncForms'
  BY <1>1, <1>2 DEF KeysInv, SyncForms, SyncTypes, Provided, Ready
<1>4. ToldInv'
  BY <1>1 DEF KeysInv, ToldInv
<1>5. CopiedInv'
  BY <1>1 DEF KeysInv, CopiedInv, Copies, Has
<1>6. KeyringInv'
  BY <1>1 DEF KeysInv, KeyringInv, Rightful, Fresh
<1>7. OwnedInv'
  BY <1>1, <1>2 DEF KeysInv, OwnedInv, OwnStored, OwnPages, OwnEvents, OwnHandlers, OwnFlows
<1>8. BlockInv'
  BY <1>1, <1>2 DEF KeysInv, BlockInv, FindsOut, Has
<1> QED
  BY <1>3, <1>4, <1>5, <1>6, <1>7, <1>8 DEF KeysInv

\* Messages, listings, events, handlers and functions keep the conditions of the sections
\* above together in every state.
THEOREM KeysInvariant == Spec => []KeysInv
<1>1. Init => KeysInv
  BY KeysStart
<1>2. KeysInv /\ [Next]_vars => KeysInv'
  <2>1. KeysInv /\ Next => KeysInv'
    BY FormsKept, ToldKept, CopiedKept, KeyringKept, OwnedKept, BlockKept DEF KeysInv
  <2> QED
    BY <2>1, KeysStutter
<1> QED
  BY <1>1, <1>2, PTL DEF Spec

\* ensureUserKeypairReadyForMessaging, registerOrUpdateDevice: the directory names for the
\* stored id of a browser the key it holds, or nothing, whatever is registered, revoked or
\* signed out meanwhile.
THEOREM KeyringRegistered == Spec => []KeyringMatchesDirectory
<1>1. ASSUME KeysInv PROVE KeyringMatchesDirectory
  <2>1. ASSUME NEW b \in Browsers, b \notin mixed, idb[b].id # None, idb[b].key # None
        PROVE  rows[idb[b].id] \in {None, idb[b].key}
    <3>1. idb[b].id \in Pairs /\ idb[b].id[1] = b /\ idb[b].key = idb[b].id
      BY <1>1, <2>1 DEF KeysInv, SyncForms, SyncTypes, KeyringInv
    <3>2. OwnKeys(rows, mixed)
      BY <1>1 DEF KeysInv, OwnedInv, OwnStored
    <3> QED
      BY <2>1, <3>1, <3>2 DEF OwnKeys, Own, Listed
  <2> QED
    BY <2>1 DEF KeyringMatchesDirectory
<1> QED
  BY <1>1, KeysInvariant, PTL

\* useSendEncryptedMessage, applyBatchSyncMessageKeys: whatever is wrapped for the id of a
\* browser, by a device, an approval or the peer, it can unwrap.
THEOREM WrapsRead == Spec => []WrapsAreReadable
<1>1. ASSUME KeysInv PROVE WrapsAreReadable
  <2>1. ASSUME NEW b \in Browsers, b \notin mixed, idb[b].id # None, idb[b].key # None,
               NEW k \in DOMAIN messages, Wrapped(k, idb[b].id)
        PROVE  Readable(k, idb[b])
    <3>1. idb[b].id \in Pairs /\ idb[b].id[1] = b /\ idb[b].key = idb[b].id
      BY <1>1, <2>1 DEF KeysInv, SyncForms, SyncTypes, KeyringInv
    <3>2. OwnKeys(messages[k], mixed)
      BY <1>1 DEF KeysInv, OwnedInv, OwnStored
    <3> QED
      BY <2>1, <3>1, <3>2 DEF OwnKeys, Own, Listed, Wrapped, Readable
  <2> QED
    BY <2>1 DEF WrapsAreReadable
<1> QED
  BY <1>1, KeysInvariant, PTL

\* executeApproveDeviceKeySync: the pages of an approval leave out no key that its device
\* had when it began, although others send meanwhile.
THEOREM ApprovalsCopied == Spec => []ApprovedIsCopied
<1>1. KeysInv => ApprovedIsCopied
  BY DEF KeysInv, CopiedInv, Has, ApprovedIsCopied
<1> QED
  BY <1>1, KeysInvariant, PTL

\* invalidateDevicePublicKeys('me'): a page that has handled the announcement of a device
\* that still has a row wraps for it, unless a listing read earlier was under way then.
THEOREM ToldWrapped == Spec => []ToldIsWrapped
<1>1. KeysInv => ToldIsWrapped
  BY DEF KeysInv, ToldInv, ToldIsWrapped
<1> QED
  BY <1>1, KeysInvariant, PTL

\* NewDeviceSyncBanner, evaluateDeviceSyncBootstrapState and the events of the socket: no
\* page waits behind the blocking gate for keys that have been wrapped for it, unless an
\* event missed it, without an evaluation or an event that will tell it.
THEOREM NobodyBlocked == Spec => []NoNeedlessBlock
<1>1. ASSUME KeysInv PROVE NoNeedlessBlock
  <2>1. ASSUME NEW b \in Browsers, Banner(page[b]), b \notin missed,
               NEW k \in DOMAIN messages, Wrapped(k, page[b].dev)
        PROVE  FindsOut(b, page[b].dev)
    <3>1. page[b].dev \in Pairs
      BY <1>1, <2>1 DEF KeysInv, SyncForms, SyncTypes, Page, Banner
    <3>2. Has(k, page[b].dev)
      BY <2>1, <3>1 DEF Has, Wrapped
    <3> QED
      BY <1>1, <2>1, <3>2 DEF KeysInv, BlockInv
  <2>2. ASSUME NEW b \in Browsers, FindsOut(b, page[b].dev)
        PROVE  \/ \E f \in FlowsOf(b) : /\ f.id = page[b].dev
                                        /\ f.step = "devices" \/ (f.step = "set" /\ f.next # "pending")
               \/ \E k \in DOMAIN inbox[b] :
                    \/ inbox[b][k] = Complete(page[b].dev)
                    \/ inbox[b][k].wraps[page[b].dev] # None
    <3>1. CASE \E f \in flows : Telling(f, b, page[b].dev)
      BY <3>1 DEF Telling, FlowsOf
    <3>2. CASE \E e \in Heard(b) : Tidings(e, page[b].dev)
      BY <3>2 DEF Heard, Tidings
    <3> QED
      BY <2>2, <3>1, <3>2 DEF FindsOut
  <2>3. ASSUME NEW b \in Browsers,
               /\ Banner(page[b]) /\ page[b].dev \in Listed(rows) /\ b \notin missed
               /\ \E k \in DOMAIN messages : Wrapped(k, page[b].dev)
        PROVE  FindsOut(b, page[b].dev)
    BY <2>1, <2>3
  <2> QED
    BY <2>2, <2>3 DEF NoNeedlessBlock
<1> QED
  BY <1>1, KeysInvariant, PTL


-----------------------------------------------------------------------------
(* A call.                                                                 *)

\* The events on their way to d.
Coming(d) == {callInbox[d][k] : k \in DOMAIN callInbox[d]}

\* A session has a call and a peer, and calls are numbered in the order they were made.
Engaged == \A d \in Devices : client[d].phase # "idle" => client[d].call # NoCall /\ client[d].peer # Nobody
Numbered ==
  /\ \A d \in Devices : client[d].call <= callsMade
  /\ \A s \in starts : s.call <= callsMade
  /\ \A r \in sent : r.call <= callsMade
  /\ \A d \in Devices : \A m \in Coming(d) : m.call <= callsMade
  /\ \A t \in callTold : t[2] <= callsMade

\* What may yet become the offer of a call: there is one at most, and it is not
\* relayed before it is gone.
Offers(s) == s.as = "offer"
Offered(r) == r.ev = "offer" /\ r.state = "sent"
OfferedOnce ==
  /\ \A s, t \in starts : Offers(s) /\ Offers(t) /\ s.call = t.call => s = t
  /\ \A r, q \in sent : Offered(r) /\ Offered(q) /\ r.call = q.call => r = q
  /\ \A s \in starts, r \in sent : Offers(s) /\ Offered(r) => s.call # r.call
  /\ \A d \in Devices : \A m \in Coming(d) : m.ev = "offer" =>
       /\ \A s \in starts : Offers(s) => s.call # m.call
       /\ \A r \in sent : Offered(r) => r.call # m.call
  /\ \A d \in Devices : \A j, k \in DOMAIN callInbox[d] :
       /\ callInbox[d][j].ev = "offer" /\ callInbox[d][k].ev = "offer"
       /\ callInbox[d][j].call = callInbox[d][k].call
       => j = k

\* Who is in a call, or has left it, will not be offered it.
Involved(d, c) == client[d].call = c \/ <<d, c>> \in callTold
NotOffered ==
  \A d \in Devices, c \in CallIds : Involved(d, c) =>
    /\ \A s \in starts : Offers(s) /\ s.call = c => s.peer # UserOf[d]
    /\ \A r \in sent : Offered(r) /\ r.call = c => r.to # UserOf[d]
    /\ \A m \in Coming(d) : m.ev = "offer" => m.call # c

\* An answer comes from a device that has answered, a hang-up from one that has hung up.
Answers ==
  /\ \A s \in starts : s.as = "answer" => <<s.dev, s.call>> \in accepted
  /\ \A r \in sent : r.ev = "answer" => <<r.from, r.call>> \in accepted
  /\ \A d \in Devices : \A m \in Coming(d) : m.ev = "answer" =>
       \E e \in Devices : UserOf[e] = m.from /\ <<e, m.call>> \in accepted
HangUps ==
  /\ \A r \in sent : r.ev = "hangup" => <<r.from, r.call>> \in callTold
  /\ \A d \in Devices : \A m \in Coming(d) : m.ev = "hangup" =>
       \E e \in Devices : UserOf[e] = m.from /\ <<e, m.call>> \in callTold

CallInv ==
  /\ CallTypeOK /\ Engaged /\ Numbered /\ OfferedOnce /\ NotOffered /\ Answers /\ HangUps
  /\ ActiveIsAgreed /\ OneConnection /\ EarlyCandidatesApplied /\ HangUpEnds

-----------------------------------------------------------------------------
(* What a commit does to a call.                                           *)

Moves(p, q) == <<p.phase, p.call, p.peer>> # <<q.phase, q.call, q.peer>>

\* The page takes the state q; a negotiation that begins and a hang-up that goes out
\* are about its call.
Committed(d, q, running, requests) ==
  /\ client' \in [Devices -> Client] /\ starts' \subseteq Start /\ sent' \subseteq Request
  /\ callTold' \subseteq Devices \X CallIds
  /\ \A e \in Devices \ {d} : client'[e] = client[e]
  /\ LET p == client'[d] IN
       /\ p.phase = q.phase /\ p.call = q.call /\ p.peer = q.peer /\ p.sdp = q.sdp /\ p.end = q.end
       /\ p.pc = NoCall \/ (p.pc = q.pc /\ p.remote = q.remote /\ p.ice = q.ice)
       /\ q.phase = "idle" => p.pc = NoCall
  /\ \A s \in starts' \ running :
       /\ s.dev = d /\ s.call = q.call /\ s.peer = q.peer /\ Moves(client[d], q)
       /\ s.as = "offer" => q.phase = "outgoing_ring"
       /\ s.as = "answer" => q.phase = "active" /\ q.role # "caller"
  /\ \A s, t \in starts' \ running : s = t
  /\ \A r \in sent' \ requests : r.from = d /\ r.ev = "hangup" /\ r.call = q.call /\ r.hears
  /\ \A r \in requests : r.ev = "hangup" /\ r.hears => r \in sent'
  /\ callTold \subseteq callTold'
  /\ \A t \in callTold' \ callTold :
       \/ \E r \in requests : r.ev = "hangup" /\ t = <<r.from, r.call>>
       \/ /\ t = <<d, q.call>> /\ q.phase # "idle"
          /\ \E r \in sent' : r.from = d /\ r.ev = "hangup" /\ r.call = q.call /\ r.hears
  /\ \A r \in sent' : r.ev = "hangup" => <<r.from, r.call>> \in callTold'

LEMMA CleanupDoes ==
  ASSUME NEW q \in Client
  PROVE  /\ Cleanup(q) \in Client
         /\ LET p == Cleanup(q) IN
              /\ p.phase = q.phase /\ p.call = q.call /\ p.peer = q.peer /\ p.sdp = q.sdp /\ p.end = q.end
              /\ p.pc = NoCall \/ (p.pc = q.pc /\ p.remote = q.remote /\ p.ice = q.ice)
              /\ q.phase = "idle" => p.pc = NoCall
<1>1. CASE q.phase = "idle"
  <2>1. Cleanup(q) = [q EXCEPT !.role = "none", !.negotiated = NoCall, !.pc = NoCall, !.remote = FALSE, !.ice = {}]
    BY <1>1 DEF Cleanup
  <2> QED
    BY <2>1 DEF Client
<1>2. CASE q.phase # "idle"
  BY <1>2 DEF Cleanup
<1> QED
  BY <1>1, <1>2

LEMMA EmitDoes ==
  ASSUME CallTypeOK, NEW d \in Devices, NEW to \in Users, NEW ev \in Events, NEW call \in CallIds
  PROVE  LET r == emitWebRtcSignaling(d, to, ev, call) IN
           /\ r \in Request /\ r.from = d /\ r.to = to /\ r.ev = ev /\ r.call = call
           /\ (ev # "candidate" => r.hears) /\ r.state \in {"sent", "refused"}
BY DEF CallTypeOK, emitWebRtcSignaling, Request

LEMMA CallPosted ==
  ASSUME CallTypeOK, NEW requests \in SUBSET Request, CallPost(requests)
  PROVE  /\ sent' \subseteq Request /\ sent' \subseteq requests
         /\ callTold' \subseteq Devices \X CallIds /\ callTold \subseteq callTold'
         /\ \A r \in requests : r.ev = "hangup" => <<r.from, r.call>> \in callTold'
         /\ \A r \in requests : r.hears \/ r.state = "sent" => r \in sent'
         /\ \A t \in callTold' \ callTold : \E r \in requests : r.ev = "hangup" /\ t = <<r.from, r.call>>
<1>1. \A r \in requests : r.from \in Devices /\ r.call \in CallIds
  BY DEF Request
<1> QED
  BY <1>1 DEF CallTypeOK, CallPost

LEMMA CommitDoes ==
  ASSUME CallTypeOK, NEW d \in Devices, NEW q \in Client,
         NEW running \in SUBSET Start, NEW requests \in SUBSET Request,
         q.phase # "idle" => q.call \in CallIds /\ q.peer \in Users,
         Commit(d, q, running, requests)
  PROVE  Committed(d, q, running, requests)
<1> DEFINE p == client[d]
           moved == Moves(p, q)
           begins == moved /\ (q.phase = "outgoing_ring" \/ Negotiates(q))
           new == [dev |-> d, call |-> q.call, peer |-> q.peer, step |-> "media",
                   as |-> IF q.phase = "active" THEN "answer" ELSE "offer"]
           leaves == /\ q.phase \in {"outgoing_ring", "active"} /\ q.view # q.peer
                     /\ moved \/ p.view # q.view
           r == emitWebRtcSignaling(d, q.peer, "hangup", q.call)
           all == requests \cup IF leaves THEN {r} ELSE {}
           next == IF ~begins THEN Cleanup(q)
                   ELSE IF new.as = "offer" THEN [q EXCEPT !.role = "caller"]
                   ELSE [q EXCEPT !.role = "callee", !.negotiated = q.call]
<1>1. /\ client' = [client EXCEPT ![d] = next]
      /\ starts' = running \cup (IF begins THEN {new} ELSE {})
      /\ CallPost(all)
  BY DEF Commit, Moves
<1>2. /\ next \in Client
      /\ next.phase = q.phase /\ next.call = q.call /\ next.peer = q.peer /\ next.sdp = q.sdp /\ next.end = q.end
      /\ next.pc = NoCall \/ (next.pc = q.pc /\ next.remote = q.remote /\ next.ice = q.ice)
      /\ q.phase = "idle" => next.pc = NoCall
  <2>1. CASE ~begins
    BY <2>1, CleanupDoes
  <2>2. CASE begins
    <3>1. q.phase # "idle"
      BY <2>2 DEF Negotiates
    <3>2. CASE new.as = "offer"
      <4>1. next = [q EXCEPT !.role = "caller"]
        BY <2>2, <3>2
      <4> QED
        BY <3>1, <4>1 DEF Client
    <3>3. CASE new.as # "offer"
      <4>1. next = [q EXCEPT !.role = "callee", !.negotiated = q.call]
        BY <2>2, <3>3
      <4>2. q.call \in CallIds
        BY <3>1
      <4> QED
        BY <3>1, <4>1, <4>2 DEF Client
    <3> QED
      BY <3>2, <3>3
  <2> QED
    BY <2>1, <2>2
<1>3. begins => /\ new \in Start
                /\ new.as = "offer" => q.phase = "outgoing_ring"
                /\ new.as = "answer" => q.phase = "active" /\ q.role # "caller"
  BY DEF Negotiates, Start
<1>4. leaves => /\ r \in Request /\ r.from = d /\ r.ev = "hangup" /\ r.call = q.call /\ r.hears
                /\ q.phase # "idle"
  <2> SUFFICES ASSUME leaves
               PROVE  r \in Request /\ r.from = d /\ r.ev = "hangup" /\ r.call = q.call /\ r.hears
                      /\ q.phase # "idle"
    OBVIOUS
  <2>1. q.phase # "idle"
    OBVIOUS
  <2>2. q.call \in CallIds /\ q.peer \in Users /\ "hangup" \in Events
    BY <2>1 DEF Events
  <2>3. "hangup" # "candidate"
    OBVIOUS
  <2> HIDE DEF leaves
  <2> QED
    BY <2>1, <2>2, <2>3, EmitDoes
<1>5. all \in SUBSET Request
  BY <1>4
<1> HIDE DEF next, r
<1>6. /\ sent' \subseteq Request /\ sent' \subseteq all
      /\ callTold' \subseteq Devices \X CallIds /\ callTold \subseteq callTold'
      /\ \A x \in all : x.ev = "hangup" => <<x.from, x.call>> \in callTold'
      /\ \A x \in all : x.hears \/ x.state = "sent" => x \in sent'
      /\ \A t \in callTold' \ callTold : \E x \in all : x.ev = "hangup" /\ t = <<x.from, x.call>>
  <2> HIDE DEF all
  <2> QED
    BY <1>1, <1>5, CallPosted
<1>7. /\ client' \in [Devices -> Client] /\ \A e \in Devices \ {d} : client'[e] = client[e]
      /\ client'[d] = next
  <2>1. client \in [Devices -> Client]
    BY DEF CallTypeOK
  <2> QED
    BY <1>1, <1>2, <2>1
<1>8. /\ starts' \subseteq Start
      /\ \A s \in starts' \ running :
           /\ s.dev = d /\ s.call = q.call /\ s.peer = q.peer /\ Moves(client[d], q)
           /\ s.as = "offer" => q.phase = "outgoing_ring"
           /\ s.as = "answer" => q.phase = "active" /\ q.role # "caller"
      /\ \A s, t \in starts' \ running : s = t
  <2>1. CASE begins
    BY <1>1, <1>3, <2>1
  <2>2. CASE ~begins
    BY <1>1, <2>2
  <2> QED
    BY <2>1, <2>2
<1>9. \A x \in sent' \ requests : x.from = d /\ x.ev = "hangup" /\ x.call = q.call /\ x.hears
  BY <1>4, <1>6
<1>10. \A x \in requests : x.ev = "hangup" /\ x.hears => x \in sent'
  BY <1>6
<1>11. ASSUME NEW t \in callTold' \ callTold
       PROVE  \/ \E x \in requests : x.ev = "hangup" /\ t = <<x.from, x.call>>
              \/ /\ t = <<d, q.call>> /\ q.phase # "idle"
                 /\ \E x \in sent' : x.from = d /\ x.ev = "hangup" /\ x.call = q.call /\ x.hears
  <2>1. PICK x \in all : x.ev = "hangup" /\ t = <<x.from, x.call>>
    BY <1>6
  <2>2. CASE x \in requests
    BY <2>1, <2>2
  <2>3. CASE x \notin requests
    <3>1. leaves /\ x = r
      BY <2>3
    <3>2. x \in sent'
      BY <1>4, <1>6, <3>1
    <3> QED
      BY <1>4, <2>1, <3>1, <3>2
  <2> QED
    BY <2>2, <2>3
<1>12. \A x \in sent' : x.ev = "hangup" => <<x.from, x.call>> \in callTold'
  BY <1>6
<1> HIDE DEF new, begins, leaves, all, moved
<1> QED
  BY <1>2, <1>6, <1>7, <1>8, <1>9, <1>10, <1>11, <1>12 DEF Committed

\* Where the session of the new state comes from: it is the one there was, none, the one
\* that rings, or a new call.
Rung(d, q) ==
  /\ Arrives(d, "offer") /\ Taken(d)
  /\ q.call = Head(callInbox[d]).call /\ q.phase = "incoming_ring"
Called(d, q) ==
  /\ q.phase = "outgoing_ring" /\ q.call = callsMade + 1 /\ callsMade' = callsMade + 1
  /\ q.peer # UserOf[d]
Kept(d, q) ==
  /\ q.call = client[d].call /\ q.peer = client[d].peer
  /\ client[d].phase = "idle" => q.phase = "idle"
  /\ q.phase = "outgoing_ring" => client[d].phase = "outgoing_ring"
Over(q) == q.phase = "idle" /\ q.call = NoCall
Comes(d, q) == Kept(d, q) \/ Over(q) \/ Rung(d, q) \/ Called(d, q)

\* A step of the page of d, with what the step does to the requests and the events.
PageStep(d, q, running, requests) ==
  /\ Committed(d, q, running, requests) /\ Comes(d, q)
  /\ running \subseteq starts /\ requests \subseteq sent
  /\ \A r \in sent \ requests : r.ev = "hangup" => r.from = d /\ q.phase = "idle"
  /\ callInbox' = callInbox \/ (callInbox[d] # <<>> /\ Taken(d))
  /\ q.phase # "idle" => q.call \in CallIds /\ q.peer \in Users
  /\ callsMade' \in {callsMade, callsMade + 1} /\ q.call <= callsMade'
  /\ accepted \subseteq accepted' /\ deaf' = deaf
  /\ q.phase = "active" =>
       /\ \E e \in Devices : <<e, q.call>> \in accepted' /\ (e = d \/ UserOf[e] = q.peer)
       /\ q.role = "caller" \/ ~Moves(client[d], q) \/ <<d, q.call>> \in accepted'
  /\ q.pc # NoCall => q.phase = "idle" \/ q.pc = q.call \/ q.sdp
  /\ q.pc # NoCall /\ q.remote => q.pc \notin q.ice

LEMMA TakenFacts ==
  ASSUME CallTypeOK, NEW d \in Devices, callInbox[d] # <<>>, Taken(d)
  PROVE  /\ callInbox' \in [Devices -> Seq([ev: Events, from: Users, call: CallIds])]
         /\ Head(callInbox[d]) \in Coming(d) /\ Head(callInbox[d]) = callInbox[d][1] /\ 1 \in DOMAIN callInbox[d]
         /\ \A e \in Devices : Coming(e)' \subseteq Coming(e)
         /\ \A e \in Devices \ {d} : callInbox'[e] = callInbox[e]
         /\ \A k \in DOMAIN callInbox'[d] : /\ k + 1 \in DOMAIN callInbox[d] /\ k \in Nat /\ k + 1 # 1
                                            /\ callInbox'[d][k] = callInbox[d][k + 1]
<1> DEFINE M == [ev: Events, from: Users, call: CallIds]
<1> HIDE DEF M
<1>1. callInbox \in [Devices -> Seq(M)]
  BY DEF CallTypeOK, M
<1>2. callInbox' = [callInbox EXCEPT ![d] = Tail(callInbox[d])]
  BY DEF Taken
<1>3. /\ Tail(callInbox[d]) \in Seq(M)
      /\ Head(callInbox[d]) = callInbox[d][1] /\ 1 \in DOMAIN callInbox[d]
      /\ \A k \in DOMAIN Tail(callInbox[d]) : /\ k + 1 \in DOMAIN callInbox[d] /\ k \in Nat /\ k + 1 # 1
                                              /\ Tail(callInbox[d])[k] = callInbox[d][k + 1]
  BY <1>1
<1>4. callInbox' \in [Devices -> Seq(M)] /\ callInbox'[d] = Tail(callInbox[d])
      /\ \A e \in Devices \ {d} : callInbox'[e] = callInbox[e]
  BY <1>1, <1>2, <1>3
<1>5. ASSUME NEW e \in Devices PROVE Coming(e)' \subseteq Coming(e)
  <2>1. CASE e = d
    <3> SUFFICES ASSUME NEW k \in DOMAIN callInbox'[d]
                 PROVE  callInbox'[d][k] \in {callInbox[d][j] : j \in DOMAIN callInbox[d]}
      BY <2>1 DEF Coming
    <3>1. k + 1 \in DOMAIN callInbox[d] /\ callInbox'[d][k] = callInbox[d][k + 1]
      BY <1>3, <1>4
    <3> QED
      BY <3>1
  <2>2. CASE e # d
    BY <1>4, <2>2 DEF Coming
  <2> QED
    BY <2>1, <2>2
<1>6. Head(callInbox[d]) \in Coming(d)
  BY <1>3 DEF Coming
<1>7. callInbox' \in [Devices -> Seq([ev: Events, from: Users, call: CallIds])]
  BY <1>4 DEF M
<1> QED
  BY <1>3, <1>4, <1>5, <1>6, <1>7

LEMMA NumbersTyped ==
  ASSUME CallTypeOK
  PROVE  /\ callsMade \in Nat
         /\ \A d \in Devices : client[d] \in Client /\ client[d].call \in Nat
         /\ \A s \in starts : s \in Start /\ s.call \in Nat /\ s.call # NoCall
         /\ \A r \in sent : r \in Request /\ r.call \in Nat /\ r.call # NoCall
         /\ \A d \in Devices : \A m \in Coming(d) : m.call \in CallIds /\ m.call \in Nat /\ m.call # NoCall
         /\ \A t \in callTold : t[2] \in Nat /\ t[2] # NoCall
<1>1. CallIds \subseteq Nat /\ NoCall \in Nat /\ NoCall \notin CallIds
  BY CallAssumption DEF CallIds, NoCall
<1>2. \A d \in Devices : client[d] \in Client /\ client[d].call \in Nat
  BY <1>1 DEF CallTypeOK, Client
<1>3. \A s \in starts : s \in Start /\ s.call \in Nat /\ s.call # NoCall
  BY <1>1 DEF CallTypeOK, Start
<1>4. \A r \in sent : r \in Request /\ r.call \in Nat /\ r.call # NoCall
  BY <1>1 DEF CallTypeOK, Request
<1>5. \A d \in Devices : \A m \in Coming(d) : m.call \in CallIds /\ m.call \in Nat /\ m.call # NoCall
  <2> SUFFICES ASSUME NEW d \in Devices, NEW k \in DOMAIN callInbox[d]
               PROVE  callInbox[d][k].call \in CallIds
    BY <1>1 DEF Coming
  <2> DEFINE M == [ev: Events, from: Users, call: CallIds]
  <2>1. callInbox[d] \in Seq(M)
    BY DEF CallTypeOK
  <2>2. callInbox[d][k] \in M
    <3> HIDE DEF M
    <3> QED
      BY <2>1
  <2> QED
    BY <2>2
<1>6. \A t \in callTold : t[2] \in Nat /\ t[2] # NoCall
  BY <1>1 DEF CallTypeOK
<1>7. callsMade \in Nat
  BY CallAssumption DEF CallTypeOK
<1> QED
  BY <1>2, <1>3, <1>4, <1>5, <1>6, <1>7


\* What a step of a page does to the numbers of the calls.
LEMMA StepNumbered ==
  ASSUME CallInv, NEW d \in Devices, NEW q \in Client, NEW running, NEW requests,
         PageStep(d, q, running, requests)
  PROVE  Engaged' /\ Numbered'
<1>1. Committed(d, q, running, requests) /\ running \subseteq starts /\ requests \subseteq sent
  BY DEF PageStep
<1>2. q.phase # "idle" => q.call \in CallIds /\ q.peer \in Users
  BY DEF PageStep
<1>3. CallTypeOK /\ Numbered /\ Engaged /\ HangUps
  BY DEF CallInv
<1>4. q.call <= callsMade' /\ callsMade' \in Nat /\ callsMade <= callsMade' /\ q.call \in Nat
  <2>1. q.call \in Nat
    BY CallAssumption DEF Client, CallIds, NoCall
  <2> QED
    BY <1>3, <2>1, NumbersTyped DEF PageStep
<1>5. Engaged'
  <2>1. \A u \in Users : u # Nobody
    BY CallAssumption DEF Users
  <2>2. q.phase # "idle" => q.call # NoCall /\ q.peer # Nobody
    BY <1>2, <2>1 DEF CallIds, NoCall
  <2> QED
    BY <1>1, <1>3, <2>2 DEF Engaged, Committed
<1>6. \A e \in Devices : client'[e].call <= callsMade'
  BY <1>1, <1>3, <1>4, NumbersTyped DEF Committed, Numbered
<1>7. \A s \in starts' : s.call <= callsMade'
  BY <1>1, <1>3, <1>4, NumbersTyped DEF Committed, Numbered
<1>8. \A r \in sent' : r.call <= callsMade'
  BY <1>1, <1>3, <1>4, NumbersTyped DEF Committed, Numbered
<1>9. \A e \in Devices : \A m \in Coming(e)' : m.call <= callsMade'
  <2>1. \A e \in Devices : Coming(e)' \subseteq Coming(e)
    <3>1. CASE callInbox' = callInbox
      BY <3>1 DEF Coming
    <3>2. CASE callInbox[d] # <<>> /\ Taken(d)
      BY <1>3, <3>2, TakenFacts
    <3> QED
      BY <3>1, <3>2 DEF PageStep
  <2> HIDE DEF Coming
  <2> QED
    BY <1>3, <1>4, <2>1, NumbersTyped DEF Numbered
<1>10. \A t \in callTold' : t[2] <= callsMade'
  <2> SUFFICES ASSUME NEW t \in callTold' PROVE t[2] <= callsMade'
    OBVIOUS
  <2>1. CASE t \in callTold
    BY <1>3, <1>4, <2>1, NumbersTyped DEF Numbered
  <2>2. CASE \E r \in requests : r.ev = "hangup" /\ t = <<r.from, r.call>>
    BY <1>1, <1>3, <1>4, <2>2, NumbersTyped DEF Numbered
  <2>3. CASE t = <<d, q.call>>
    BY <1>4, <2>3
  <2> QED
    BY <1>1, <2>1, <2>2, <2>3 DEF Committed
<1> QED
  BY <1>5, <1>6, <1>7, <1>8, <1>9, <1>10 DEF Numbered

\* The offers that a step of a page leaves are those there were, or one of a new call.
LEMMA StepOffers ==
  ASSUME CallInv, NEW d \in Devices, NEW q \in Client, NEW running, NEW requests,
         PageStep(d, q, running, requests)
  PROVE  /\ \A s \in starts' : Offers(s) /\ s \notin starts =>
              /\ Called(d, q) /\ s.call = callsMade + 1 /\ s.peer # UserOf[d] /\ s.dev = d
         /\ \A s, t \in starts' : Offers(s) /\ Offers(t) /\ s \notin starts /\ t \notin starts => s = t
         /\ \A r \in sent' : Offered(r) => r \in sent
<1>1. Committed(d, q, running, requests) /\ running \subseteq starts /\ requests \subseteq sent /\ Comes(d, q)
  BY DEF PageStep
<1>2. ASSUME NEW s \in starts', Offers(s), s \notin starts
      PROVE  Called(d, q) /\ s.call = callsMade + 1 /\ s.peer # UserOf[d] /\ s.dev = d
  <2>1. s \in starts' \ running /\ s.as = "offer"
    BY <1>1, <1>2 DEF Offers
  <2>2. /\ s.dev = d /\ s.call = q.call /\ s.peer = q.peer /\ Moves(client[d], q)
        /\ q.phase = "outgoing_ring"
    BY <1>1, <2>1 DEF Committed
  <2>3. ~Kept(d, q) /\ ~Over(q) /\ ~Rung(d, q)
    BY <2>2 DEF Kept, Over, Rung, Moves
  <2> QED
    BY <1>1, <2>2, <2>3 DEF Comes, Called
<1>3. \A r \in sent' : Offered(r) => r \in sent
  BY <1>1 DEF Committed, Offered
<1>4. \A s, t \in starts' : s \notin starts /\ t \notin starts => s = t
  BY <1>1 DEF Committed
<1> QED
  BY <1>2, <1>3, <1>4

LEMMA StepOfferedOnce ==
  ASSUME CallInv, NEW d \in Devices, NEW q \in Client, NEW running, NEW requests,
         PageStep(d, q, running, requests)
  PROVE  OfferedOnce'
<1>1. /\ \A s \in starts' : Offers(s) /\ s \notin starts => s.call = callsMade + 1
      /\ \A s, t \in starts' : Offers(s) /\ Offers(t) /\ s \notin starts /\ t \notin starts => s = t
      /\ \A r \in sent' : Offered(r) => r \in sent
  BY StepOffers
<1>2. /\ CallTypeOK /\ Numbered /\ OfferedOnce
      /\ callsMade \in Nat
      /\ \A s \in starts : s.call \in Nat /\ s.call <= callsMade
      /\ \A r \in sent : r.call \in Nat /\ r.call <= callsMade
      /\ \A e \in Devices : \A m \in Coming(e) : m.call \in Nat /\ m.call <= callsMade
  BY NumbersTyped DEF CallInv, Numbered
<1>3. /\ \A e \in Devices : Coming(e)' \subseteq Coming(e)
      /\ \A e \in Devices : \A j, k \in DOMAIN callInbox'[e] :
           /\ callInbox'[e][j].ev = "offer" /\ callInbox'[e][k].ev = "offer"
           /\ callInbox'[e][j].call = callInbox'[e][k].call
           => j = k
  <2>1. CASE callInbox' = callInbox
    BY <1>2, <2>1 DEF Coming, OfferedOnce
  <2>2. CASE callInbox[d] # <<>> /\ Taken(d)
    <3>1. /\ \A e \in Devices : Coming(e)' \subseteq Coming(e)
          /\ \A e \in Devices \ {d} : callInbox'[e] = callInbox[e]
          /\ \A k \in DOMAIN callInbox'[d] : /\ k + 1 \in DOMAIN callInbox[d] /\ k \in Nat
                                             /\ callInbox'[d][k] = callInbox[d][k + 1]
      BY <1>2, <2>2, TakenFacts
    <3>2. ASSUME NEW e \in Devices, NEW j \in DOMAIN callInbox'[e], NEW k \in DOMAIN callInbox'[e],
                 callInbox'[e][j].ev = "offer" /\ callInbox'[e][k].ev = "offer",
                 callInbox'[e][j].call = callInbox'[e][k].call
          PROVE  j = k
      <4>1. CASE e # d
        BY <1>2, <3>1, <3>2, <4>1 DEF OfferedOnce
      <4>2. CASE e = d
        <5>1. j + 1 = k + 1
          BY <1>2, <3>1, <3>2, <4>2 DEF OfferedOnce
        <5> QED
          BY <3>1, <4>2, <5>1
      <4> QED
        BY <4>1, <4>2
    <3> QED
      BY <3>1, <3>2
  <2> QED
    BY <2>1, <2>2 DEF PageStep
<1>4. \A s, t \in starts' : Offers(s) /\ Offers(t) /\ s.call = t.call => s = t
  BY <1>1, <1>2 DEF OfferedOnce
<1>5. \A r, p \in sent' : Offered(r) /\ Offered(p) /\ r.call = p.call => r = p
  BY <1>1, <1>2 DEF OfferedOnce
<1>6. \A s \in starts', r \in sent' : Offers(s) /\ Offered(r) => s.call # r.call
  BY <1>1, <1>2 DEF OfferedOnce
<1>7. ASSUME NEW e \in Devices, NEW m \in Coming(e)', m.ev = "offer"
      PROVE  /\ \A s \in starts' : Offers(s) => s.call # m.call
             /\ \A r \in sent' : Offered(r) => r.call # m.call
  <2>1. m \in Coming(e)
    BY <1>3, <1>7
  <2> QED
    BY <1>1, <1>2, <1>7, <2>1 DEF OfferedOnce
<1> QED
  BY <1>3, <1>4, <1>5, <1>6, <1>7 DEF OfferedOnce, Offers, Offered

\* Whoever comes into a call will not be offered it again: a call that rings has just
\* been offered, and a new one goes to somebody else.
LEMMA StepNotOffered ==
  ASSUME CallInv, NEW d \in Devices, NEW q \in Client, NEW running, NEW requests,
         PageStep(d, q, running, requests)
  PROVE  NotOffered'
<1>1. /\ \A s \in starts' : Offers(s) /\ s \notin starts =>
           /\ Called(d, q) /\ s.call = callsMade + 1 /\ s.peer # UserOf[d] /\ s.dev = d
      /\ \A r \in sent' : Offered(r) => r \in sent
  BY StepOffers
<1>2. /\ CallTypeOK /\ Numbered /\ OfferedOnce /\ NotOffered /\ HangUps
      /\ callsMade \in Nat
      /\ \A e \in Devices : client[e].call \in Nat /\ client[e].call <= callsMade
      /\ \A s \in starts : s.call \in Nat /\ s.call <= callsMade
      /\ \A r \in sent : r.call \in Nat /\ r.call <= callsMade
      /\ \A t \in callTold : t[2] \in Nat /\ t[2] <= callsMade
      /\ \A e \in Devices : \A m \in Coming(e) : m.call \in Nat /\ m.call <= callsMade
  BY NumbersTyped DEF CallInv, Numbered
<1>3. /\ Committed(d, q, running, requests) /\ Comes(d, q)
      /\ running \subseteq starts /\ requests \subseteq sent
  BY DEF PageStep
<1>4. \A e \in Devices : Coming(e)' \subseteq Coming(e)
  <2>1. CASE callInbox' = callInbox
    BY <2>1 DEF Coming
  <2>2. CASE callInbox[d] # <<>> /\ Taken(d)
    BY <1>2, <2>2, TakenFacts
  <2> QED
    BY <2>1, <2>2 DEF PageStep
<1> SUFFICES ASSUME NEW e \in Devices, NEW c \in CallIds, Involved(e, c)'
             PROVE  /\ \A s \in starts' : Offers(s) /\ s.call = c => s.peer # UserOf[e]
                    /\ \A r \in sent' : Offered(r) /\ r.call = c => r.to # UserOf[e]
                    /\ \A m \in Coming(e)' : m.ev = "offer" => m.call # c
  BY DEF NotOffered, Offers, Offered
<1>5. c \in Nat /\ c # NoCall
  BY CallAssumption DEF CallIds, NoCall
<1>6. Involved(e, c) \/ (e = d /\ c = q.call)
  <2>1. CASE client'[e].call = c
    BY <1>3, <2>1 DEF Committed, Involved
  <2>2. CASE <<e, c>> \in callTold'
    <3>1. CASE <<e, c>> \in callTold
      BY <3>1 DEF Involved
    <3>2. CASE \E r \in requests : r.ev = "hangup" /\ <<e, c>> = <<r.from, r.call>>
      BY <1>2, <1>3, <3>2 DEF Involved, HangUps
    <3>3. CASE <<e, c>> = <<d, q.call>>
      BY <3>3
    <3> QED
      BY <1>3, <2>2, <3>1, <3>2, <3>3 DEF Committed
  <2> QED
    BY <2>1, <2>2 DEF Involved
<1>7. CASE Involved(e, c)
  <2>1. /\ \A s \in starts : Offers(s) /\ s.call = c => s.peer # UserOf[e]
        /\ \A r \in sent : Offered(r) /\ r.call = c => r.to # UserOf[e]
        /\ \A m \in Coming(e) : m.ev = "offer" => m.call # c
    BY <1>2, <1>7 DEF NotOffered
  <2>2. c <= callsMade
    BY <1>2, <1>7 DEF Involved
  <2> QED
    BY <1>1, <1>2, <1>4, <1>5, <2>1, <2>2
<1>8. CASE ~Involved(e, c) /\ e = d /\ c = q.call
  <2>1. ~Kept(d, q) /\ ~Over(q)
    BY <1>5, <1>8 DEF Kept, Over, Involved
  <2>2. CASE Called(d, q)
    BY <1>1, <1>2, <1>4, <1>8, <2>2 DEF Called
  <2>3. CASE Rung(d, q)
    <3>1. callInbox[d] # <<>> /\ Taken(d) /\ Head(callInbox[d]).ev = "offer" /\ Head(callInbox[d]).call = c
      BY <1>8, <2>3 DEF Rung, Arrives
    <3>2. /\ Head(callInbox[d]) \in Coming(d) /\ Head(callInbox[d]) = callInbox[d][1] /\ 1 \in DOMAIN callInbox[d]
          /\ \A k \in DOMAIN callInbox'[d] : /\ k + 1 \in DOMAIN callInbox[d] /\ k \in Nat /\ k + 1 # 1
                                             /\ callInbox'[d][k] = callInbox[d][k + 1]
      BY <1>2, <3>1, TakenFacts
    <3>3. /\ \A s \in starts : Offers(s) => s.call # c
          /\ \A r \in sent : Offered(r) => r.call # c
      BY <1>2, <3>1, <3>2 DEF OfferedOnce
    <3>4. ~Called(d, q)
      BY <2>3 DEF Rung, Called
    <3>5. ASSUME NEW k \in DOMAIN callInbox'[d], callInbox'[d][k].ev = "offer"
          PROVE  callInbox'[d][k].call # c
      BY <1>2, <3>1, <3>2, <3>5 DEF OfferedOnce
    <3>6. \A m \in Coming(d)' : m.ev = "offer" => m.call # c
      BY <3>5 DEF Coming
    <3> QED
      BY <1>1, <1>8, <3>3, <3>4, <3>6
  <2> QED
    BY <1>3, <2>1, <2>2, <2>3 DEF Comes
<1> QED
  BY <1>6, <1>7, <1>8

LEMMA StepAnswers ==
  ASSUME CallInv, NEW d \in Devices, NEW q \in Client, NEW running, NEW requests,
         PageStep(d, q, running, requests)
  PROVE  Answers' /\ ActiveIsAgreed'
<1>1. /\ Committed(d, q, running, requests)
      /\ running \subseteq starts /\ requests \subseteq sent /\ accepted \subseteq accepted'
  BY DEF PageStep
<1>2. CallTypeOK /\ Answers /\ ActiveIsAgreed
  BY DEF CallInv
<1>3. \A e \in Devices : Coming(e)' \subseteq Coming(e)
  <2>1. CASE callInbox' = callInbox
    BY <2>1 DEF Coming
  <2>2. CASE callInbox[d] # <<>> /\ Taken(d)
    BY <1>2, <2>2, TakenFacts
  <2> QED
    BY <2>1, <2>2 DEF PageStep
<1>4. ASSUME NEW s \in starts', s.as = "answer" PROVE <<s.dev, s.call>> \in accepted'
  <2>1. CASE s \in running
    BY <1>1, <1>2, <1>4, <2>1 DEF Answers
  <2>2. CASE s \notin running
    <3>1. /\ s.dev = d /\ s.call = q.call /\ Moves(client[d], q)
          /\ q.phase = "active" /\ q.role # "caller"
      BY <1>1, <1>4, <2>2 DEF Committed
    <3> QED
      BY <3>1 DEF PageStep
  <2> QED
    BY <2>1, <2>2
<1>5. ASSUME NEW r \in sent', r.ev = "answer" PROVE <<r.from, r.call>> \in accepted'
  BY <1>1, <1>2, <1>5 DEF Answers, Committed
<1>6. ASSUME NEW e \in Devices, NEW m \in Coming(e)', m.ev = "answer"
      PROVE  \E f \in Devices : UserOf[f] = m.from /\ <<f, m.call>> \in accepted'
  BY <1>1, <1>2, <1>3, <1>6 DEF Answers
<1>7. ASSUME NEW e \in Devices, client'[e].phase = "active"
      PROVE  \E f \in Devices : <<f, client'[e].call>> \in accepted' /\ (f = e \/ UserOf[f] = client'[e].peer)
  <2>1. CASE e = d
    BY <1>1, <1>7, <2>1 DEF PageStep, Committed
  <2>2. CASE e # d
    <3>1. client'[e] = client[e]
      BY <1>1, <2>2 DEF Committed
    <3> QED
      BY <1>1, <1>2, <1>7, <3>1 DEF ActiveIsAgreed
  <2> QED
    BY <2>1, <2>2
<1> QED
  BY <1>4, <1>5, <1>6, <1>7 DEF Answers, ActiveIsAgreed

\* A hang-up that is open keeps its session, and settled it ends it.
LEMMA StepHangUps ==
  ASSUME CallInv, NEW d \in Devices, NEW q \in Client, NEW running, NEW requests,
         PageStep(d, q, running, requests)
  PROVE  HangUps' /\ HangUpEnds'
<1>1. /\ Committed(d, q, running, requests) /\ Comes(d, q)
      /\ requests \subseteq sent /\ deaf' = deaf /\ callTold \subseteq callTold'
      /\ \A r \in sent \ requests : r.ev = "hangup" => r.from = d /\ q.phase = "idle"
  BY DEF PageStep, Committed
<1>2. CallTypeOK /\ HangUps /\ HangUpEnds /\ NotOffered /\ Numbered
  BY DEF CallInv
<1>3. \A e \in Devices : Coming(e)' \subseteq Coming(e)
  <2>1. CASE callInbox' = callInbox
    BY <2>1 DEF Coming
  <2>2. CASE callInbox[d] # <<>> /\ Taken(d)
    BY <1>2, <2>2, TakenFacts
  <2> QED
    BY <2>1, <2>2 DEF PageStep
<1>4. HangUps'
  <2>1. \A r \in sent' : r.ev = "hangup" => <<r.from, r.call>> \in callTold'
    BY <1>1 DEF Committed
  <2>2. ASSUME NEW e \in Devices, NEW m \in Coming(e)', m.ev = "hangup"
        PROVE  \E f \in Devices : UserOf[f] = m.from /\ <<f, m.call>> \in callTold'
    BY <1>1, <1>2, <1>3, <2>2 DEF HangUps
  <2> QED
    BY <2>1, <2>2 DEF HangUps
<1>5. ASSUME NEW e \in Devices, client'[e].phase # "idle", <<e, client'[e].call>> \in callTold', e \notin deaf
      PROVE  \E r \in sent' : r.from = e /\ r.ev = "hangup" /\ r.call = client'[e].call /\ r.hears
  <2>1. CASE <<e, client'[e].call>> \notin callTold
    <3>1. CASE \E r \in requests : r.ev = "hangup" /\ <<e, client'[e].call>> = <<r.from, r.call>>
      BY <1>1, <1>2, <2>1, <3>1 DEF HangUps
    <3>2. CASE /\ <<e, client'[e].call>> = <<d, q.call>>
               /\ \E r \in sent' : r.from = d /\ r.ev = "hangup" /\ r.call = q.call /\ r.hears
      BY <3>2
    <3> QED
      BY <1>1, <1>5, <2>1, <3>1, <3>2 DEF Committed
  <2>2. CASE <<e, client'[e].call>> \in callTold /\ e # d
    <3>1. client'[e] = client[e]
      BY <1>1, <2>2 DEF Committed
    <3>2. PICK r \in sent : r.from = e /\ r.ev = "hangup" /\ r.call = client[e].call /\ r.hears
      BY <1>2, <1>5, <2>2, <3>1 DEF HangUpEnds
    <3>3. r \in sent'
      BY <1>1, <2>2, <3>2 DEF Committed
    <3> QED
      BY <3>1, <3>2, <3>3
  <2>3. CASE <<e, client'[e].call>> \in callTold /\ e = d
    <3>1. client'[d].call = q.call /\ client'[d].phase = q.phase /\ q.phase # "idle" /\ <<d, q.call>> \in callTold
      BY <1>1, <1>5, <2>3 DEF Committed
    <3>2. q.call \in CallIds
      BY <3>1 DEF PageStep
    <3>3. ~Called(d, q)
      <4>1. q.call <= callsMade /\ callsMade \in Nat
        BY <1>2, <3>1, NumbersTyped DEF Numbered
      <4> QED
        BY <4>1 DEF Called
    <3>4. ~Rung(d, q)
      <4>1. SUFFICES ASSUME Rung(d, q) PROVE FALSE
        OBVIOUS
      <4>2. callInbox[d] # <<>> /\ Taken(d) /\ Head(callInbox[d]).ev = "offer" /\ Head(callInbox[d]).call = q.call
        BY <4>1 DEF Rung, Arrives
      <4>3. Head(callInbox[d]) \in Coming(d)
        BY <1>2, <4>2, TakenFacts
      <4> QED
        BY <1>2, <3>1, <3>2, <4>2, <4>3 DEF NotOffered, Involved
    <3>5. q.call = client[d].call /\ client[d].phase # "idle"
      BY <1>1, <3>1, <3>3, <3>4 DEF Comes, Kept, Over
    <3>6. PICK r \in sent : r.from = d /\ r.ev = "hangup" /\ r.call = client[d].call /\ r.hears
      BY <1>2, <1>5, <2>3, <3>1, <3>5 DEF HangUpEnds
    <3>7. r \in sent'
      BY <1>1, <3>1, <3>6 DEF Committed
    <3> QED
      BY <2>3, <3>1, <3>5, <3>6, <3>7
  <2> QED
    BY <2>1, <2>2, <2>3
<1>6. HangUpEnds'
  BY <1>1, <1>5 DEF HangUpEnds
<1> QED
  BY <1>4, <1>6

LEMMA StepConnection ==
  ASSUME CallInv, NEW d \in Devices, NEW q \in Client, NEW running, NEW requests,
         PageStep(d, q, running, requests)
  PROVE  OneConnection' /\ EarlyCandidatesApplied'
<1>1. Committed(d, q, running, requests)
  BY DEF PageStep
<1>2. OneConnection /\ EarlyCandidatesApplied
  BY DEF CallInv
<1>3. \A e \in Devices \ {d} : client'[e] = client[e]
  BY <1>1 DEF Committed
<1>4. LET p == client'[d] IN
        /\ p.phase = q.phase /\ p.call = q.call /\ p.sdp = q.sdp
        /\ p.pc = NoCall \/ (p.pc = q.pc /\ p.remote = q.remote /\ p.ice = q.ice)
        /\ q.phase = "idle" => p.pc = NoCall
  BY <1>1 DEF Committed
<1>5. /\ q.pc # NoCall => q.phase = "idle" \/ q.pc = q.call \/ q.sdp
      /\ q.pc # NoCall /\ q.remote => q.pc \notin q.ice
  BY DEF PageStep
<1>6. OneConnection'
  BY <1>2, <1>3, <1>4, <1>5 DEF OneConnection
<1>7. EarlyCandidatesApplied'
  BY <1>2, <1>3, <1>4, <1>5 DEF EarlyCandidatesApplied
<1> QED
  BY <1>6, <1>7

LEMMA StepTyped ==
  ASSUME CallInv, NEW d \in Devices, NEW q \in Client, NEW running, NEW requests,
         PageStep(d, q, running, requests)
  PROVE  /\ client' \in [Devices -> Client]
         /\ starts' \subseteq Start /\ sent' \subseteq Request /\ callTold' \subseteq Devices \X CallIds
         /\ callInbox' \in [Devices -> Seq([ev: Events, from: Users, call: CallIds])]
<1>1. CallTypeOK /\ Committed(d, q, running, requests)
  BY DEF CallInv, PageStep
<1>2. callInbox' \in [Devices -> Seq([ev: Events, from: Users, call: CallIds])]
  <2>1. CASE callInbox' = callInbox
    BY <1>1, <2>1 DEF CallTypeOK
  <2>2. CASE callInbox[d] # <<>> /\ Taken(d)
    BY <1>1, <2>2, TakenFacts
  <2> QED
    BY <2>1, <2>2 DEF PageStep
<1> QED
  BY <1>1, <1>2 DEF Committed

\* A step of a page keeps the invariant.
LEMMA StepKeeps ==
  ASSUME CallInv, NEW d \in Devices, NEW q \in Client, NEW running, NEW requests,
         PageStep(d, q, running, requests),
         online' = online, callsMade' \in 0 .. MaxCalls, accepted' \subseteq Devices \X CallIds,
         callActs' \in 0 .. MaxCallActs, callFaults' \in 0 .. MaxCallFaults
  PROVE  CallInv'
<1>1. deaf' = deaf /\ CallTypeOK
  BY DEF PageStep, CallInv
<1>2. CallTypeOK'
  BY <1>1, StepTyped DEF CallTypeOK
<1>3. Engaged' /\ Numbered'
  BY StepNumbered
<1>4. OfferedOnce'
  BY StepOfferedOnce
<1>5. NotOffered'
  BY StepNotOffered
<1>6. Answers' /\ ActiveIsAgreed'
  BY StepAnswers
<1>7. HangUps' /\ HangUpEnds'
  BY StepHangUps
<1>8. OneConnection' /\ EarlyCandidatesApplied'
  BY StepConnection
<1> QED
  BY <1>2, <1>3, <1>4, <1>5, <1>6, <1>7, <1>8 DEF CallInv

-----------------------------------------------------------------------------
(* The steps of a page.                                                    *)

\* The state of a page that stays in its session.
LEMMA SameSession ==
  ASSUME CallInv, NEW d \in Devices, NEW q \in Client, accepted \subseteq accepted',
         q.phase = client[d].phase, q.call = client[d].call, q.peer = client[d].peer, q.sdp = client[d].sdp,
         q.pc = client[d].pc, q.remote = client[d].remote, q.ice = client[d].ice
  PROVE  /\ Comes(d, q) /\ q.call <= callsMade
         /\ q.phase # "idle" => q.call \in CallIds /\ q.peer \in Users
         /\ q.phase = "active" =>
              /\ \E e \in Devices : <<e, q.call>> \in accepted' /\ (e = d \/ UserOf[e] = q.peer)
              /\ ~Moves(client[d], q)
         /\ q.pc # NoCall => q.phase = "idle" \/ q.pc = q.call \/ q.sdp
         /\ q.pc # NoCall /\ q.remote => q.pc \notin q.ice
<1>1. Comes(d, q) /\ ~Moves(client[d], q)
  BY DEF Comes, Kept, Moves
<1>2. q.call <= callsMade
  BY DEF CallInv, Numbered
<1>3. q.phase # "idle" => q.call \in CallIds /\ q.peer \in Users
  BY DEF CallInv, Engaged, Client
<1>4. q.phase = "active" => \E e \in Devices : <<e, q.call>> \in accepted' /\ (e = d \/ UserOf[e] = q.peer)
  BY DEF CallInv, ActiveIsAgreed
<1>5. /\ q.pc # NoCall => q.phase = "idle" \/ q.pc = q.call \/ q.sdp
      /\ q.pc # NoCall /\ q.remote => q.pc \notin q.ice
  BY DEF CallInv, OneConnection, EarlyCandidatesApplied
<1> QED
  BY <1>1, <1>2, <1>3, <1>4, <1>5

\* ... and of one whose session ends.
LEMMA EndedSession ==
  ASSUME CallInv, NEW d \in Devices, NEW why \in {"local", "remote", "system"}
  PROVE  LET q == hangupCall(client[d], why) IN
         /\ q \in Client /\ Comes(d, q) /\ q.phase = "idle" /\ q.call = NoCall /\ q.end = why
         /\ q.pc # NoCall /\ q.remote => q.pc \notin q.ice
<1> DEFINE p == client[d]
           q == [p EXCEPT !.phase = "idle", !.call = NoCall, !.peer = Nobody, !.sdp = FALSE, !.end = why, !.off = {}]
<1>1. p \in Client
  BY DEF CallInv, CallTypeOK
<1>2. q \in Client /\ q.phase = "idle" /\ q.call = NoCall /\ q.end = why
      /\ q.pc = p.pc /\ q.remote = p.remote /\ q.ice = p.ice
  BY <1>1 DEF Client
<1>3. q.pc # NoCall /\ q.remote => q.pc \notin q.ice
  BY <1>2 DEF CallInv, EarlyCandidatesApplied
<1> HIDE DEF q
<1>4. Comes(d, q)
  BY <1>2 DEF Comes, Over
<1> QED
  BY <1>2, <1>3, <1>4 DEF hangupCall, q

\* A commit of a state that stays in its session or ends it.
LEMMA CommitKeeps ==
  ASSUME CallInv, NEW d \in Devices, NEW q \in Client,
         NEW running \in SUBSET starts, NEW requests \in SUBSET sent,
         Commit(d, q, running, requests),
         Comes(d, q), q.call <= callsMade',
         \A r \in sent \ requests : r.ev = "hangup" => r.from = d /\ q.phase = "idle",
         callInbox' = callInbox \/ (callInbox[d] # <<>> /\ Taken(d)),
         q.phase # "idle" => q.call \in CallIds /\ q.peer \in Users,
         callsMade' \in {callsMade, callsMade + 1} /\ callsMade' \in 0 .. MaxCalls,
         accepted \subseteq accepted' /\ accepted' \subseteq Devices \X CallIds,
         q.phase = "active" =>
           /\ \E e \in Devices : <<e, q.call>> \in accepted' /\ (e = d \/ UserOf[e] = q.peer)
           /\ q.role = "caller" \/ ~Moves(client[d], q) \/ <<d, q.call>> \in accepted',
         q.pc # NoCall => q.phase = "idle" \/ q.pc = q.call \/ q.sdp,
         q.pc # NoCall /\ q.remote => q.pc \notin q.ice,
         UNCHANGED <<deaf, online>>,
         callActs' \in 0 .. MaxCallActs, callFaults' \in 0 .. MaxCallFaults
  PROVE  CallInv' /\ client'[d].end = q.end /\ \A e \in Devices \ {d} : client'[e] = client[e]
<1>1. CallTypeOK /\ running \in SUBSET Start /\ requests \in SUBSET Request
  BY DEF CallInv, CallTypeOK
<1>2. Committed(d, q, running, requests)
  BY <1>1, CommitDoes
<1>3. PageStep(d, q, running, requests)
  BY <1>2 DEF PageStep
<1>4. CallInv'
  BY <1>3, StepKeeps
<1> QED
  BY <1>2, <1>4 DEF Committed

\* A session of this step that ends as ended by the peer was hung up by the peer.
EndMeant ==
  \A d \in Devices :
    client[d].phase # "idle" /\ client'[d].end = "remote" /\ client[d].end # "remote" =>
      \E e \in Devices : UserOf[e] = client[d].peer /\ <<e, client[d].call>> \in callTold

LEMMA ViewKeeps ==
  ASSUME CallInv, NEW d \in Devices, NEW u \in Users \cup {Nobody}, OpenThread(d, u)
  PROVE  CallInv' /\ EndMeant
<1> DEFINE q == [client[d] EXCEPT !.view = u]
<1>1. CallTypeOK /\ client[d] \in Client
  BY DEF CallInv, CallTypeOK
<1>2. /\ q \in Client /\ q.phase = client[d].phase /\ q.call = client[d].call /\ q.peer = client[d].peer
      /\ q.sdp = client[d].sdp /\ q.pc = client[d].pc /\ q.remote = client[d].remote /\ q.ice = client[d].ice
      /\ q.end = client[d].end
  BY <1>1 DEF Client
<1>3. /\ Commit(d, q, starts, sent) /\ callActs' \in 0 .. MaxCallActs
      /\ UNCHANGED <<callInbox, online, callsMade, accepted, deaf, callFaults>>
  BY <1>1, CallAssumption DEF OpenThread, CallActs, CallTypeOK
<1> HIDE DEF q
<1>4. /\ Comes(d, q) /\ q.call <= callsMade
      /\ q.phase # "idle" => q.call \in CallIds /\ q.peer \in Users
      /\ q.phase = "active" =>
           /\ \E e \in Devices : <<e, q.call>> \in accepted' /\ (e = d \/ UserOf[e] = q.peer)
           /\ ~Moves(client[d], q)
      /\ q.pc # NoCall => q.phase = "idle" \/ q.pc = q.call \/ q.sdp
      /\ q.pc # NoCall /\ q.remote => q.pc \notin q.ice
  BY <1>2, <1>3, SameSession
<1>5. CallInv' /\ client'[d].end = q.end /\ \A e \in Devices \ {d} : client'[e] = client[e]
  BY <1>1, <1>2, <1>3, <1>4, CommitKeeps DEF CallTypeOK
<1> QED
  BY <1>2, <1>5 DEF EndMeant

LEMMA StartKeeps ==
  ASSUME CallInv, NEW d \in Devices, NEW u \in Users, startOutgoingCall(d, u)
  PROVE  CallInv' /\ EndMeant
<1> DEFINE q == [client[d] EXCEPT !.phase = "outgoing_ring", !.call = callsMade + 1, !.peer = u,
                                 !.sdp = FALSE, !.end = "none", !.off = {}]
<1>1. CallTypeOK /\ client[d] \in Client /\ callsMade \in Nat
  BY NumbersTyped DEF CallInv, CallTypeOK
<1>2. callsMade < MaxCalls /\ callsMade + 1 \in CallIds /\ callsMade + 1 \in 0 .. MaxCalls
  BY <1>1, CallAssumption DEF startOutgoingCall, CallIds
<1>3. /\ q \in Client /\ q.phase = "outgoing_ring" /\ q.call = callsMade + 1 /\ q.peer = u
      /\ q.pc = client[d].pc /\ q.remote = client[d].remote /\ q.ice = client[d].ice
      /\ q.end = "none"
  BY <1>1, <1>2 DEF Client
<1>4. /\ Commit(d, q, starts, sent) /\ callsMade' = callsMade + 1 /\ u # UserOf[d]
      /\ client[d].phase = "idle"
      /\ UNCHANGED <<callInbox, online, accepted, deaf, callActs, callFaults>>
  BY DEF startOutgoingCall
<1> HIDE DEF q
<1>5. Comes(d, q)
  BY <1>3, <1>4 DEF Comes, Called
<1>6. q.pc = NoCall
  BY <1>3, <1>4 DEF CallInv, OneConnection
<1>7. q.call <= callsMade'
  BY <1>1, <1>3, <1>4
<1>8. CallInv' /\ client'[d].end = q.end /\ \A e \in Devices \ {d} : client'[e] = client[e]
  BY <1>1, <1>2, <1>3, <1>4, <1>5, <1>6, <1>7, CommitKeeps DEF CallTypeOK
<1> QED
  BY <1>3, <1>8 DEF EndMeant

LEMMA AnswerKeeps ==
  ASSUME CallInv, NEW d \in Devices, answerCall(d)
  PROVE  CallInv' /\ EndMeant
<1> DEFINE q == [client[d] EXCEPT !.phase = "active"]
<1>1. CallTypeOK /\ client[d] \in Client
  BY DEF CallInv, CallTypeOK
<1>2. /\ q \in Client /\ q.phase = "active" /\ q.call = client[d].call /\ q.peer = client[d].peer
      /\ q.sdp = client[d].sdp /\ q.pc = client[d].pc /\ q.remote = client[d].remote /\ q.ice = client[d].ice
      /\ q.end = client[d].end
  BY <1>1 DEF Client
<1>3. /\ Commit(d, q, starts, sent) /\ client[d].phase = "incoming_ring"
      /\ accepted' = accepted \cup {<<d, client[d].call>>}
      /\ UNCHANGED <<callInbox, online, callsMade, deaf, callActs, callFaults>>
  BY DEF answerCall
<1> HIDE DEF q
<1>4. q.call \in CallIds /\ q.peer \in Users
  BY <1>1, <1>2, <1>3 DEF CallInv, Engaged, Client
<1>5. Comes(d, q) /\ q.call <= callsMade
  BY <1>2, <1>3 DEF Comes, Kept, CallInv, Numbered
<1>6. /\ q.pc # NoCall => q.phase = "idle" \/ q.pc = q.call \/ q.sdp
      /\ q.pc # NoCall /\ q.remote => q.pc \notin q.ice
  BY <1>2 DEF CallInv, OneConnection, EarlyCandidatesApplied
<1>7. <<d, q.call>> \in accepted' /\ accepted' \subseteq Devices \X CallIds /\ accepted \subseteq accepted'
  BY <1>1, <1>2, <1>3, <1>4 DEF CallTypeOK
<1>8. CallInv' /\ client'[d].end = q.end /\ \A e \in Devices \ {d} : client'[e] = client[e]
  BY <1>1, <1>2, <1>3, <1>4, <1>5, <1>6, <1>7, CommitKeeps DEF CallTypeOK
<1> QED
  BY <1>2, <1>8 DEF EndMeant

\* A commit that leaves the session of d as it is, or ends it.
Settles(d, q, why, running, requests) ==
  /\ q = client[d] \/ q = hangupCall(client[d], why)
  /\ running \subseteq starts /\ requests \subseteq sent
  /\ Commit(d, q, running, requests)
  /\ \A r \in sent \ requests : r.ev = "hangup" => r.from = d /\ q = hangupCall(client[d], why)
  /\ callInbox' = callInbox \/ (callInbox[d] # <<>> /\ Taken(d))
  /\ UNCHANGED <<callsMade, accepted, deaf, online>>
  /\ callActs' \in 0 .. MaxCallActs /\ callFaults' \in 0 .. MaxCallFaults

LEMMA StaysOrEnds ==
  ASSUME CallInv, NEW d \in Devices, NEW q, NEW why \in {"local", "remote", "system"},
         NEW running, NEW requests, Settles(d, q, why, running, requests)
  PROVE  /\ CallInv' /\ \A e \in Devices \ {d} : client'[e] = client[e]
         /\ client'[d].end = q.end /\ q.end \in {client[d].end, why}
<1> USE DEF Settles
<1>1. CallTypeOK /\ client[d] \in Client
  BY DEF CallInv, CallTypeOK
<1>2. CASE q = client[d]
  <2>1. /\ Comes(d, q) /\ q.call <= callsMade
        /\ q.phase # "idle" => q.call \in CallIds /\ q.peer \in Users
        /\ q.phase = "active" =>
             /\ \E e \in Devices : <<e, q.call>> \in accepted' /\ (e = d \/ UserOf[e] = q.peer)
             /\ ~Moves(client[d], q)
        /\ q.pc # NoCall => q.phase = "idle" \/ q.pc = q.call \/ q.sdp
        /\ q.pc # NoCall /\ q.remote => q.pc \notin q.ice
    BY <1>1, <1>2, SameSession
  <2>2. \A r \in sent \ requests : r.ev = "hangup" => r.from = d /\ q.phase = "idle"
    <3>1. CASE q = hangupCall(client[d], why)
      BY <3>1, EndedSession
    <3>2. CASE q # hangupCall(client[d], why)
      BY <3>2
    <3> QED
      BY <3>1, <3>2
  <2>3. /\ q \in Client /\ q.call <= callsMade' /\ callsMade' \in 0 .. MaxCalls
        /\ accepted \subseteq accepted' /\ accepted' \subseteq Devices \X CallIds
    BY <1>1, <1>2, <2>1 DEF CallTypeOK
  <2>4. CallInv' /\ client'[d].end = q.end /\ \A e \in Devices \ {d} : client'[e] = client[e]
    BY <2>1, <2>2, <2>3, CommitKeeps
  <2> QED
    BY <1>2, <2>4
<1>3. CASE q = hangupCall(client[d], why)
  <2>1. /\ q \in Client /\ Comes(d, q) /\ q.phase = "idle" /\ q.call = NoCall /\ q.end = why
        /\ q.pc # NoCall /\ q.remote => q.pc \notin q.ice
    BY <1>3, EndedSession
  <2>2. q.call <= callsMade'
    BY <1>1, <2>1, NumbersTyped DEF NoCall
  <2>3. CallInv' /\ client'[d].end = q.end /\ \A e \in Devices \ {d} : client'[e] = client[e]
    BY <1>1, <2>1, <2>2, CommitKeeps DEF CallTypeOK
  <2> QED
    BY <2>1, <2>3
<1> QED
  BY <1>2, <1>3

LEMMA FailedKeeps ==
  ASSUME CallInv, NEW s \in starts, NegotiationFails(s)
  PROVE  CallInv' /\ EndMeant
<1> DEFINE d == s.dev
           q == Failed(d, s.call, s.as)
           rest == starts \ {s}
<1>1. CallTypeOK /\ d \in Devices
  BY DEF CallInv, CallTypeOK, Start
<1>2. q = client[d] \/ q = hangupCall(client[d], "system")
  BY DEF Failed
<1>3. /\ Commit(d, q, rest, sent) /\ callFaults' \in 0 .. MaxCallFaults
      /\ UNCHANGED <<callInbox, online, callsMade, accepted, deaf, callActs>>
  BY <1>1, CallAssumption DEF NegotiationFails, CallFault, CallTypeOK
<1>6. rest \in SUBSET starts /\ sent \in SUBSET sent /\ sent \ sent = {}
  OBVIOUS
<1> HIDE DEF q, d, rest
<1>4. callActs' \in 0 .. MaxCallActs
  BY <1>1, <1>3 DEF CallTypeOK
<1>7. Settles(d, q, "system", rest, sent)
  BY <1>2, <1>3, <1>4, <1>6 DEF Settles
<1>5. /\ CallInv' /\ \A e \in Devices \ {d} : client'[e] = client[e]
      /\ client'[d].end = q.end /\ q.end \in {client[d].end, "system"}
  BY <1>1, <1>7, StaysOrEnds
<1> QED
  BY <1>5 DEF EndMeant

LEMMA RefusedKeeps ==
  ASSUME CallInv, NEW r \in sent, SignalRefused(r)
  PROVE  CallInv' /\ EndMeant
<1> DEFINE d == r.from
           q == Failed(d, r.call, r.ev)
           rest == sent \ {r}
<1>1. CallTypeOK /\ d \in Devices
  BY DEF CallInv, CallTypeOK, Request
<1>2. q = client[d] \/ q = hangupCall(client[d], "system")
  BY DEF Failed
<1>3. /\ Commit(d, q, starts, rest) /\ r.ev # "hangup"
      /\ UNCHANGED <<callInbox, online, callsMade, accepted, deaf, callActs, callFaults>>
  BY DEF SignalRefused
<1>6. /\ \A x \in sent \ rest : x.ev # "hangup"
      /\ rest \in SUBSET sent /\ starts \in SUBSET starts
  BY <1>3
<1> HIDE DEF q, d, rest
<1>4. callActs' \in 0 .. MaxCallActs /\ callFaults' \in 0 .. MaxCallFaults
  BY <1>1, <1>3 DEF CallTypeOK
<1>7. Settles(d, q, "system", starts, rest)
  BY <1>2, <1>3, <1>4, <1>6 DEF Settles
<1>5. /\ CallInv' /\ \A e \in Devices \ {d} : client'[e] = client[e]
      /\ client'[d].end = q.end /\ q.end \in {client[d].end, "system"}
  BY <1>1, <1>7, StaysOrEnds
<1> QED
  BY <1>5 DEF EndMeant

LEMMA SettledKeeps ==
  ASSUME CallInv, NEW r \in sent, HangupSettled(r)
  PROVE  CallInv' /\ EndMeant
<1> DEFINE d == r.from
           q == hangupCall(client[d], "local")
           rest == sent \ {r}
<1>1. CallTypeOK /\ d \in Devices
  BY DEF CallInv, CallTypeOK, Request
<1>2. /\ Commit(d, q, starts, rest)
      /\ UNCHANGED <<callInbox, online, callsMade, accepted, deaf, callActs, callFaults>>
  BY DEF HangupSettled
<1>3. q = hangupCall(client[d], "local")
  OBVIOUS
<1>4. /\ \A x \in sent \ rest : x.ev = "hangup" => x.from = d /\ q = hangupCall(client[d], "local")
      /\ rest \in SUBSET sent /\ starts \in SUBSET starts
  BY <1>3
<1> HIDE DEF q, d, rest
<1>5. callActs' \in 0 .. MaxCallActs /\ callFaults' \in 0 .. MaxCallFaults
  BY <1>1, <1>2 DEF CallTypeOK
<1>7. Settles(d, q, "local", starts, rest)
  BY <1>2, <1>3, <1>4, <1>5 DEF Settles
<1>6. /\ CallInv' /\ \A e \in Devices \ {d} : client'[e] = client[e]
      /\ client'[d].end = q.end /\ q.end \in {client[d].end, "local"}
  BY <1>1, <1>7, StaysOrEnds
<1> QED
  BY <1>6 DEF EndMeant

LEMMA RingKeeps ==
  ASSUME CallInv, NEW d \in Devices, incomingCallRinging(d)
  PROVE  CallInv' /\ EndMeant
<1> DEFINE m == Head(callInbox[d])
           q == [client[d] EXCEPT !.phase = "incoming_ring", !.call = m.call, !.peer = m.from,
                                  !.sdp = TRUE, !.end = "none", !.off = {}]
<1>1. CallTypeOK /\ client[d] \in Client
  BY DEF CallInv, CallTypeOK
<1>2. /\ Commit(d, q, starts, sent) /\ Arrives(d, "offer") /\ Taken(d) /\ callInbox[d] # <<>>
      /\ UNCHANGED <<online, callsMade, accepted, deaf, callActs, callFaults>>
  BY DEF incomingCallRinging, Arrives
<1>3. m \in Coming(d)
  BY <1>1, <1>2, TakenFacts
<1>4. m.call \in CallIds /\ m.from \in Users
  <2> DEFINE M == [ev: Events, from: Users, call: CallIds]
  <2>1. callInbox[d] \in Seq(M)
    BY <1>1 DEF CallTypeOK
  <2>2. m \in M
    <3> HIDE DEF M
    <3> QED
      BY <1>2, <2>1
  <2> QED
    BY <2>2
<1>5. /\ q \in Client /\ q.phase = "incoming_ring" /\ q.call = m.call /\ q.peer = m.from /\ q.sdp /\ q.end = "none"
      /\ q.pc = client[d].pc /\ q.remote = client[d].remote /\ q.ice = client[d].ice
  BY <1>1, <1>4 DEF Client
<1>6. m.call <= callsMade
  BY <1>3 DEF CallInv, Numbered
<1> HIDE DEF q
<1>7. Comes(d, q)
  BY <1>2, <1>5 DEF Comes, Rung
<1>8. q.pc # NoCall /\ q.remote => q.pc \notin q.ice
  BY <1>5 DEF CallInv, EarlyCandidatesApplied
<1> HIDE DEF m
<1>9. /\ q.call <= callsMade' /\ callsMade' \in 0 .. MaxCalls /\ accepted' \subseteq Devices \X CallIds
      /\ callActs' \in 0 .. MaxCallActs /\ callFaults' \in 0 .. MaxCallFaults
  BY <1>1, <1>2, <1>5, <1>6 DEF CallTypeOK
<1>10. CallInv' /\ client'[d].end = q.end /\ \A e \in Devices \ {d} : client'[e] = client[e]
  BY <1>2, <1>4, <1>5, <1>7, <1>8, <1>9, CommitKeeps
<1> QED
  BY <1>5, <1>10 DEF EndMeant

LEMMA RemoteKeeps ==
  ASSUME CallInv, NEW d \in Devices, RemoteHangup(d)
  PROVE  CallInv' /\ EndMeant
<1> DEFINE m == Head(callInbox[d])
           q == IF Concerns(d, m) THEN hangupCall(client[d], "remote") ELSE client[d]
<1>1. CallTypeOK
  BY DEF CallInv
<1>2. /\ Commit(d, q, starts, sent) /\ m.ev = "hangup" /\ Taken(d) /\ callInbox[d] # <<>>
      /\ UNCHANGED <<online, callsMade, accepted, deaf, callActs, callFaults>>
  BY DEF RemoteHangup, Arrives
<1>3. q = client[d] \/ q = hangupCall(client[d], "remote")
  OBVIOUS
<1>4. m \in Coming(d)
  BY <1>1, <1>2, TakenFacts
<1>5. q # client[d] => \E e \in Devices : UserOf[e] = client[d].peer /\ <<e, client[d].call>> \in callTold
  <2> SUFFICES ASSUME Concerns(d, m)
               PROVE  \E e \in Devices : UserOf[e] = client[d].peer /\ <<e, client[d].call>> \in callTold
    OBVIOUS
  <2>1. m.call = client[d].call /\ m.from = client[d].peer
    BY DEF Concerns
  <2> HIDE DEF m
  <2> QED
    BY <1>2, <1>4, <2>1 DEF CallInv, HangUps
<1> HIDE DEF q, m
<1>6. callActs' \in 0 .. MaxCallActs /\ callFaults' \in 0 .. MaxCallFaults
  BY <1>1, <1>2 DEF CallTypeOK
<1>8. Settles(d, q, "remote", starts, sent)
  BY <1>2, <1>3, <1>6 DEF Settles
<1>7. /\ CallInv' /\ \A e \in Devices \ {d} : client'[e] = client[e]
      /\ client'[d].end = q.end /\ q.end \in {client[d].end, "remote"}
  BY <1>8, StaysOrEnds
<1> QED
  BY <1>3, <1>5, <1>7 DEF EndMeant

LEMMA AnswerTakenKeeps ==
  ASSUME CallInv, NEW d \in Devices, RemoteAnswer(d)
  PROVE  CallInv' /\ EndMeant
<1> DEFINE m == Head(callInbox[d])
           p == client[d]
           heeded == Concerns(d, m) /\ p.pc # NoCall /\ p.role = "caller"
           q == IF heeded THEN Answered(p) ELSE p
           n == [p EXCEPT !.remote = TRUE, !.ice = {}, !.phase = IF @ = "outgoing_ring" THEN "active" ELSE @]
<1>1. CallTypeOK /\ p \in Client
  BY DEF CallInv, CallTypeOK
<1>2. /\ Commit(d, q, starts, sent) /\ m.ev = "answer" /\ Taken(d) /\ callInbox[d] # <<>>
      /\ UNCHANGED <<online, callsMade, accepted, deaf, callActs, callFaults>>
  BY DEF RemoteAnswer, Arrives
<1>3. m \in Coming(d)
  BY <1>1, <1>2, TakenFacts
<1>4. callActs' \in 0 .. MaxCallActs /\ callFaults' \in 0 .. MaxCallFaults
  BY <1>1, <1>2 DEF CallTypeOK
<1>5. CASE ~heeded \/ p.remote
  <2>1. q = p \/ q = hangupCall(p, "system")
    BY <1>5 DEF Answered
  <2> HIDE DEF q, m, p
  <2>3. Settles(d, q, "system", starts, sent)
    BY <1>2, <1>4, <2>1 DEF p, Settles
  <2>2. /\ CallInv' /\ \A e \in Devices \ {d} : client'[e] = client[e]
        /\ client'[d].end = q.end /\ q.end \in {client[d].end, "system"}
    BY <2>3, StaysOrEnds DEF p
  <2> QED
    BY <2>2 DEF EndMeant
<1>6. CASE heeded /\ ~p.remote
  <2>1. q = n
    BY <1>6 DEF Answered
  <2>2. /\ n \in Client /\ n.phase = (IF p.phase = "outgoing_ring" THEN "active" ELSE p.phase)
        /\ n.call = p.call /\ n.peer = p.peer
        /\ n.sdp = p.sdp /\ n.end = p.end /\ n.role = p.role
        /\ n.pc = p.pc /\ n.ice = {}
    BY <1>1, ZenonT(60) DEF Client
  <2>3. p.role = "caller" /\ p.pc # NoCall /\ p.call # NoCall /\ m.call = p.call /\ m.from = p.peer
    BY <1>6 DEF Concerns
  <2>4. p.phase # "idle" /\ (p.pc = p.call \/ p.sdp)
    BY <2>3 DEF CallInv, OneConnection
  <2>5. p.call \in CallIds /\ p.peer \in Users /\ p.call <= callsMade
    BY <1>1, <2>4 DEF CallInv, Engaged, Numbered, Client
  <2>6. \E e \in Devices : UserOf[e] = p.peer /\ <<e, p.call>> \in accepted
    <3> HIDE DEF m
    <3> QED
      BY <1>2, <1>3, <2>3 DEF CallInv, Answers
  <2> HIDE DEF q, m, n
  <2>7. Comes(d, n)
    BY <2>2, <2>4 DEF Comes, Kept
  <2>8. n.phase = "active" =>
          /\ \E e \in Devices : <<e, n.call>> \in accepted' /\ (e = d \/ UserOf[e] = n.peer)
          /\ n.role = "caller"
    BY <1>2, <2>2, <2>3, <2>6
  <2>9. n.pc = n.call \/ n.sdp
    BY <2>2, <2>4
  <2>10. /\ n.call <= callsMade' /\ callsMade' \in 0 .. MaxCalls
         /\ n.call \in CallIds /\ n.peer \in Users
         /\ accepted \subseteq accepted' /\ accepted' \subseteq Devices \X CallIds
    BY <1>1, <1>2, <2>2, <2>5 DEF CallTypeOK
  <2> HIDE DEF p, heeded
  <2>11. CallInv' /\ client'[d].end = n.end /\ \A e \in Devices \ {d} : client'[e] = client[e]
    BY <1>2, <1>4, <2>1, <2>2, <2>7, <2>8, <2>9, <2>10, CommitKeeps
  <2> QED
    BY <2>2, <2>11 DEF EndMeant, p
<1> QED
  BY <1>5, <1>6

-----------------------------------------------------------------------------
(* The steps of negotiations, of the service and of the connections.        *)

\* Every session is as it was.
SameSessions ==
  /\ \A d \in Devices : /\ client'[d].phase = client[d].phase /\ client'[d].call = client[d].call
                        /\ client'[d].peer = client[d].peer
  /\ UNCHANGED <<callsMade, accepted>>

\* Where the negotiations, requests, events and hang-ups come from.
Descends ==
  /\ \A s \in starts' : \E t \in starts :
       s.call = t.call /\ s.as = t.as /\ s.dev = t.dev /\ s.peer = t.peer
  /\ \A r \in sent' :
       /\ r.call <= callsMade
       /\ r.ev = "answer" => <<r.from, r.call>> \in accepted
       /\ r.ev = "hangup" => <<r.from, r.call>> \in callTold'
       /\ Offered(r) => \/ \E p \in sent : Offered(p) /\ p.call = r.call /\ p.to = r.to
                        \/ \E t \in starts : Offers(t) /\ t.call = r.call /\ t.peer = r.to
  /\ \A e \in Devices : \A m \in Coming(e)' :
       \/ m \in Coming(e)
       \/ \E r \in sent : /\ r.state = "sent" /\ r.to = UserOf[e]
                          /\ m = [ev |-> r.ev, from |-> UserOf[r.from], call |-> r.call]
  /\ callTold \subseteq callTold'
  /\ \A t \in callTold' : t \in callTold \/ \E d \in Devices : t = <<d, client[d].call>>

LEMMA OthersKeep ==
  ASSUME CallInv, SameSessions, Descends
  PROVE  Engaged' /\ Numbered' /\ NotOffered' /\ Answers' /\ HangUps' /\ ActiveIsAgreed'
<1>1. /\ CallTypeOK /\ Engaged /\ Numbered /\ NotOffered /\ Answers /\ HangUps /\ ActiveIsAgreed
      /\ callsMade \in Nat
  BY NumbersTyped DEF CallInv
<1>2. Engaged' /\ ActiveIsAgreed'
  <2>1. \A d \in Devices : /\ client'[d].phase = client[d].phase /\ client'[d].call = client[d].call
                           /\ client'[d].peer = client[d].peer
    BY DEF SameSessions
  <2>2. Engaged'
    BY <1>1, <2>1 DEF Engaged
  <2>3. ActiveIsAgreed'
    <3>1. ASSUME NEW d \in Devices, client'[d].phase = "active"
          PROVE  \E e \in Devices : <<e, client'[d].call>> \in accepted' /\ (e = d \/ UserOf[e] = client'[d].peer)
      <4>1. PICK e \in Devices : <<e, client[d].call>> \in accepted /\ (e = d \/ UserOf[e] = client[d].peer)
        BY <1>1, <2>1, <3>1 DEF ActiveIsAgreed
      <4> QED
        BY <2>1, <4>1 DEF SameSessions
    <3> QED
      BY <3>1 DEF ActiveIsAgreed
  <2> QED
    BY <2>2, <2>3
<1>3. ASSUME NEW e \in Devices, NEW m \in Coming(e)'
      PROVE  \/ m \in Coming(e)
             \/ \E r \in sent : /\ r.state = "sent" /\ r.to = UserOf[e] /\ r.from \in Devices
                                /\ m.ev = r.ev /\ m.from = UserOf[r.from] /\ m.call = r.call
  <2>1. \A r \in sent : r.from \in Devices
    BY <1>1 DEF CallTypeOK, Request
  <2>2. CASE m \notin Coming(e)
    <3>1. PICK r \in sent : /\ r.state = "sent" /\ r.to = UserOf[e]
                           /\ m = [ev |-> r.ev, from |-> UserOf[r.from], call |-> r.call]
      BY <1>3, <2>2 DEF Descends
    <3> QED
      BY <2>1, <3>1
  <2> QED
    BY <2>2
<1>4. Numbered'
  <2>1. \A e \in Devices : \A m \in Coming(e)' : m.call <= callsMade
    BY <1>1, <1>3 DEF Numbered
  <2>2. \A s \in starts' : s.call <= callsMade
    BY <1>1 DEF Numbered, Descends
  <2>3. \A r \in sent' : r.call <= callsMade
    BY DEF Descends
  <2>4. \A t \in callTold' : t[2] <= callsMade
    BY <1>1 DEF Numbered, Descends
  <2> QED
    BY <1>1, <2>1, <2>2, <2>3, <2>4 DEF Numbered, SameSessions
<1>5. Answers'
  <2>1. ASSUME NEW e \in Devices, NEW m \in Coming(e)', m.ev = "answer"
        PROVE  \E f \in Devices : UserOf[f] = m.from /\ <<f, m.call>> \in accepted
    BY <1>1, <1>3, <2>1 DEF Answers
  <2>2. \A s \in starts' : s.as = "answer" => <<s.dev, s.call>> \in accepted
    BY <1>1 DEF Answers, Descends
  <2>3. \A r \in sent' : r.ev = "answer" => <<r.from, r.call>> \in accepted
    BY DEF Descends
  <2> QED
    BY <2>1, <2>2, <2>3 DEF Answers, SameSessions
<1>6. HangUps'
  <2>1. ASSUME NEW e \in Devices, NEW m \in Coming(e)', m.ev = "hangup"
        PROVE  \E f \in Devices : UserOf[f] = m.from /\ <<f, m.call>> \in callTold'
    <3>1. \E f \in Devices : UserOf[f] = m.from /\ <<f, m.call>> \in callTold
      BY <1>1, <1>3, <2>1 DEF HangUps
    <3> QED
      BY <3>1 DEF Descends
  <2> QED
    BY <2>1 DEF HangUps, Descends
<1>7. ASSUME NEW e \in Devices, NEW c \in CallIds, Involved(e, c)'
      PROVE  /\ \A s \in starts' : Offers(s) /\ s.call = c => s.peer # UserOf[e]
             /\ \A r \in sent' : Offered(r) /\ r.call = c => r.to # UserOf[e]
             /\ \A m \in Coming(e)' : m.ev = "offer" => m.call # c
  <2>1. Involved(e, c)
    BY <1>7 DEF Involved, SameSessions, Descends
  <2>2. /\ \A s \in starts : Offers(s) /\ s.call = c => s.peer # UserOf[e]
        /\ \A r \in sent : Offered(r) /\ r.call = c => r.to # UserOf[e]
        /\ \A m \in Coming(e) : m.ev = "offer" => m.call # c
    BY <1>1, <2>1 DEF NotOffered
  <2>3. \A s \in starts' : Offers(s) /\ s.call = c => s.peer # UserOf[e]
    BY <2>2 DEF Descends, Offers
  <2>4. \A r \in sent' : Offered(r) /\ r.call = c => r.to # UserOf[e]
    BY <2>2, ZenonT(60) DEF Descends
  <2>5. \A m \in Coming(e)' : m.ev = "offer" => m.call # c
    BY <1>3, <2>2 DEF Offered
  <2> QED
    BY <2>3, <2>4, <2>5
<1>8. NotOffered'
  BY <1>7 DEF NotOffered, Offers, Offered
<1> QED
  BY <1>2, <1>4, <1>5, <1>6, <1>8

\* No offer is made or relayed.
LEMMA OffersKeep ==
  ASSUME CallInv, starts' \subseteq starts, \A r \in sent' : Offered(r) => r \in sent,
         callInbox' = callInbox \/ \E d \in Devices : callInbox[d] # <<>> /\ Taken(d)
  PROVE  OfferedOnce'
<1>1. CallTypeOK /\ OfferedOnce
  BY DEF CallInv
<1>2. /\ \A e \in Devices : Coming(e)' \subseteq Coming(e)
      /\ \A e \in Devices : \A j, k \in DOMAIN callInbox'[e] :
           /\ callInbox'[e][j].ev = "offer" /\ callInbox'[e][k].ev = "offer"
           /\ callInbox'[e][j].call = callInbox'[e][k].call
           => j = k
  <2>1. CASE callInbox' = callInbox
    BY <1>1, <2>1 DEF Coming, OfferedOnce
  <2>2. ASSUME NEW d \in Devices, callInbox[d] # <<>>, Taken(d)
        PROVE  /\ \A e \in Devices : Coming(e)' \subseteq Coming(e)
               /\ \A e \in Devices : \A j, k \in DOMAIN callInbox'[e] :
                    /\ callInbox'[e][j].ev = "offer" /\ callInbox'[e][k].ev = "offer"
                    /\ callInbox'[e][j].call = callInbox'[e][k].call
                    => j = k
    <3>1. /\ \A e \in Devices : Coming(e)' \subseteq Coming(e)
          /\ \A e \in Devices \ {d} : callInbox'[e] = callInbox[e]
          /\ \A k \in DOMAIN callInbox'[d] : /\ k + 1 \in DOMAIN callInbox[d] /\ k \in Nat
                                             /\ callInbox'[d][k] = callInbox[d][k + 1]
      BY <1>1, <2>2, TakenFacts
    <3>2. ASSUME NEW e \in Devices, NEW j \in DOMAIN callInbox'[e], NEW k \in DOMAIN callInbox'[e],
                 callInbox'[e][j].ev = "offer" /\ callInbox'[e][k].ev = "offer",
                 callInbox'[e][j].call = callInbox'[e][k].call
          PROVE  j = k
      <4>1. CASE e # d
        BY <1>1, <3>1, <3>2, <4>1 DEF OfferedOnce
      <4>2. CASE e = d
        <5>1. /\ j + 1 \in DOMAIN callInbox[d] /\ k + 1 \in DOMAIN callInbox[d] /\ j \in Nat /\ k \in Nat
              /\ callInbox'[d][j] = callInbox[d][j + 1] /\ callInbox'[d][k] = callInbox[d][k + 1]
          BY <3>1, <3>2, <4>2
        <5>2. j + 1 = k + 1
          BY <1>1, <3>2, <4>2, <5>1 DEF OfferedOnce
        <5> QED
          BY <5>1, <5>2
      <4> QED
        BY <4>1, <4>2
    <3> QED
      BY <3>1, <3>2
  <2> QED
    BY <2>1, <2>2
<1>3. /\ \A s, t \in starts' : Offers(s) /\ Offers(t) /\ s.call = t.call => s = t
      /\ \A r, p \in sent' : Offered(r) /\ Offered(p) /\ r.call = p.call => r = p
      /\ \A s \in starts', r \in sent' : Offers(s) /\ Offered(r) => s.call # r.call
  BY <1>1 DEF OfferedOnce
<1>4. \A e \in Devices : \A m \in Coming(e)' : m.ev = "offer" =>
        /\ \A s \in starts' : Offers(s) => s.call # m.call
        /\ \A r \in sent' : Offered(r) => r.call # m.call
  BY <1>1, <1>2 DEF OfferedOnce
<1> QED
  BY <1>2, <1>3, <1>4 DEF OfferedOnce, Offers, Offered

\* A hang-up that is heard of stays open.
LEMMA OpenKeeps ==
  ASSUME CallInv, SameSessions, deaf \subseteq deaf',
         \A r \in sent : r.ev = "hangup" /\ r.hears =>
           \/ r.from \in deaf'
           \/ \E p \in sent' : p.from = r.from /\ p.ev = "hangup" /\ p.call = r.call /\ p.hears,
         \A t \in callTold' \ callTold :
           \E p \in sent' : p.ev = "hangup" /\ t = <<p.from, p.call>> /\ p.hears
  PROVE  HangUpEnds'
<1>1. HangUpEnds
  BY DEF CallInv
<1> SUFFICES ASSUME NEW d \in Devices, client[d].phase # "idle", <<d, client[d].call>> \in callTold', d \notin deaf'
             PROVE  \E p \in sent' : p.from = d /\ p.ev = "hangup" /\ p.call = client[d].call /\ p.hears
  BY DEF HangUpEnds, SameSessions
<1>2. CASE <<d, client[d].call>> \in callTold
  BY <1>1, <1>2 DEF HangUpEnds
<1>3. CASE <<d, client[d].call>> \notin callTold
  <2>1. PICK p \in sent' : p.ev = "hangup" /\ <<d, client[d].call>> = <<p.from, p.call>> /\ p.hears
    BY <1>3
  <2> QED
    BY <2>1
<1> QED
  BY <1>2, <1>3

\* The switches of a track and the toast change nothing that matters.
LEMMA TogglesKeep ==
  ASSUME CallInv, NEW d \in Devices,
         (\E track \in {"mic", "camera"} : Toggle(d, track)) \/ clearCallSessionEndReason(d)
  PROVE  CallInv' /\ EndMeant
<1>1. CallTypeOK /\ client \in [Devices -> Client]
  BY DEF CallInv, CallTypeOK
<1> DEFINE SameCall == \A e \in Devices : LET p == client[e]  q == client'[e] IN
             /\ q.phase = p.phase /\ q.call = p.call /\ q.peer = p.peer /\ q.sdp = p.sdp
             /\ q.pc = p.pc /\ q.remote = p.remote /\ q.ice = p.ice /\ q.end \in {p.end, "none"}
<1>2. client' \in [Devices -> Client] /\ SameCall
  <2>1. ASSUME NEW track \in {"mic", "camera"}, Toggle(d, track)
        PROVE  client' \in [Devices -> Client] /\ SameCall
    <3> DEFINE off == IF track \in client[d].off THEN client[d].off \ {track} ELSE client[d].off \cup {track}
    <3>1. off \in SUBSET {"mic", "camera"}
      BY <1>1 DEF Client
    <3>2. client' = [client EXCEPT ![d].off = off]
      BY <1>1, <2>1 DEF Toggle
    <3> HIDE DEF off
    <3>3. client'[d] = [client[d] EXCEPT !.off = off] /\ \A e \in Devices \ {d} : client'[e] = client[e]
      BY <1>1, <3>2
    <3>4. client'[d] \in Client
      BY <1>1, <3>1, <3>3 DEF Client
    <3>5. client' \in [Devices -> Client]
      BY <1>1, <3>2, <3>3, <3>4
    <3> QED
      BY <1>1, <3>3, <3>5 DEF Client
  <2>2. ASSUME clearCallSessionEndReason(d)
        PROVE  client' \in [Devices -> Client] /\ SameCall
    <3>1. client'[d] = [client[d] EXCEPT !.end = "none"] /\ \A e \in Devices \ {d} : client'[e] = client[e]
      BY <1>1, <2>2 DEF clearCallSessionEndReason
    <3>2. client'[d] \in Client
      BY <1>1, <3>1 DEF Client
    <3>3. client' \in [Devices -> Client]
      BY <1>1, <2>2, <3>1, <3>2 DEF clearCallSessionEndReason
    <3> QED
      BY <1>1, <3>1, <3>3 DEF Client
  <2> QED
    BY <2>1, <2>2
<1>3. /\ UNCHANGED <<starts, sent, callInbox, online, callsMade, callTold, accepted, deaf, callFaults>>
      /\ callActs' \in 0 .. MaxCallActs
  BY <1>1, CallAssumption DEF Toggle, clearCallSessionEndReason, CallActs, CallTypeOK
<1>4. CallTypeOK'
  BY <1>1, <1>2, <1>3 DEF CallTypeOK
<1>5. SameSessions
  BY <1>2, <1>3 DEF SameSessions
<1>6. Descends
  BY <1>1, <1>3 DEF Descends, CallInv, Numbered, Answers, HangUps, Coming
<1>7. Engaged' /\ Numbered' /\ NotOffered' /\ Answers' /\ HangUps' /\ ActiveIsAgreed'
  BY <1>5, <1>6, OthersKeep
<1>8. OfferedOnce'
  BY <1>3, OffersKeep
<1>9. HangUpEnds'
  BY <1>3, <1>5, OpenKeeps
<1>10. OneConnection' /\ EarlyCandidatesApplied'
  BY <1>2 DEF CallInv, OneConnection, EarlyCandidatesApplied
<1>11. EndMeant
  BY <1>2 DEF EndMeant
<1> QED
  BY <1>4, <1>7, <1>8, <1>9, <1>10, <1>11 DEF CallInv

LEMMA AsksKeep ==
  ASSUME CallInv, NEW d \in Devices, requestLocalEndCall(d)
  PROVE  CallInv' /\ EndMeant
<1> DEFINE r == emitWebRtcSignaling(d, client[d].peer, "hangup", client[d].call)
<1>1. CallTypeOK /\ client[d] \in Client
  BY DEF CallInv, CallTypeOK
<1>2. /\ client[d].phase # "idle" /\ CallPost(sent \cup {r})
      /\ UNCHANGED <<client, starts, callInbox, online, callsMade, accepted, deaf, callFaults>>
      /\ callActs' \in 0 .. MaxCallActs
  BY <1>1, CallAssumption DEF requestLocalEndCall, CallActs, CallTypeOK
<1>3. client[d].call \in CallIds /\ client[d].peer \in Users /\ client[d].call <= callsMade
  BY <1>1, <1>2 DEF CallInv, Engaged, Numbered, Client
<1>4. r \in Request /\ r.from = d /\ r.ev = "hangup" /\ r.call = client[d].call /\ r.hears
  <2>1. "hangup" \in Events /\ "hangup" # "candidate"
    BY DEF Events
  <2> QED
    BY <1>1, <1>3, <2>1, EmitDoes
<1> HIDE DEF r
<1>5. sent \cup {r} \in SUBSET Request
  BY <1>1, <1>4 DEF CallTypeOK
<1>6. /\ sent' \subseteq Request /\ sent' \subseteq sent \cup {r}
      /\ callTold' \subseteq Devices \X CallIds /\ callTold \subseteq callTold'
      /\ \A p \in sent \cup {r} : p.ev = "hangup" => <<p.from, p.call>> \in callTold'
      /\ \A p \in sent \cup {r} : p.hears \/ p.state = "sent" => p \in sent'
      /\ \A t \in callTold' \ callTold : \E p \in sent \cup {r} : p.ev = "hangup" /\ t = <<p.from, p.call>>
  BY <1>1, <1>2, <1>5, CallPosted
<1>7. CallTypeOK'
  BY <1>1, <1>2, <1>6 DEF CallTypeOK
<1>8. SameSessions
  BY <1>2 DEF SameSessions
<1>9. \A t \in callTold' \ callTold : t = <<d, client[d].call>>
  BY <1>4, <1>6 DEF CallInv, HangUps
<1>10. Descends
  <2>1. \A p \in sent' : /\ p.call <= callsMade
                         /\ p.ev = "answer" => <<p.from, p.call>> \in accepted
                         /\ Offered(p) => p \in sent
    BY <1>3, <1>4, <1>6 DEF CallInv, Numbered, Answers, Offered
  <2> QED
    BY <1>2, <1>6, <1>9, <2>1 DEF Descends, Coming
<1>11. Engaged' /\ Numbered' /\ NotOffered' /\ Answers' /\ HangUps' /\ ActiveIsAgreed'
  BY <1>8, <1>10, OthersKeep
<1>12. OfferedOnce'
  <2>1. \A p \in sent' : Offered(p) => p \in sent
    BY <1>4, <1>6 DEF Offered
  <2> QED
    BY <1>2, <2>1, OffersKeep
<1>13. HangUpEnds'
  <2>1. \A p \in sent : p.ev = "hangup" /\ p.hears => p \in sent'
    BY <1>6
  <2>2. r \in sent'
    BY <1>4, <1>6
  <2>3. \A t \in callTold' \ callTold : \E p \in sent' : p.ev = "hangup" /\ t = <<p.from, p.call>> /\ p.hears
    BY <1>4, <1>9, <2>2
  <2> QED
    BY <1>2, <1>8, <2>1, <2>3, OpenKeeps
<1>14. OneConnection' /\ EarlyCandidatesApplied' /\ EndMeant
  BY <1>2 DEF CallInv, OneConnection, EarlyCandidatesApplied, EndMeant
<1> QED
  BY <1>7, <1>11, <1>12, <1>13, <1>14 DEF CallInv

LEMMA ReconnectKeeps ==
  ASSUME CallInv, NEW d \in Devices, Reconnect(d)
  PROVE  CallInv' /\ EndMeant
<1>1. /\ UNCHANGED <<client, starts, sent, callInbox, callsMade, callTold, accepted, deaf, callActs, callFaults>>
      /\ CallTypeOK'
  BY DEF CallInv, CallTypeOK, Reconnect
<1>2. SameSessions
  BY <1>1 DEF SameSessions
<1>3. Descends
  BY <1>1 DEF Descends, CallInv, Numbered, Answers, HangUps, Coming
<1>4. Engaged' /\ Numbered' /\ NotOffered' /\ Answers' /\ HangUps' /\ ActiveIsAgreed'
  BY <1>2, <1>3, OthersKeep
<1>5. OfferedOnce'
  BY <1>1, OffersKeep
<1>6. HangUpEnds'
  BY <1>1, <1>2, OpenKeeps
<1>7. OneConnection' /\ EarlyCandidatesApplied' /\ EndMeant
  BY <1>1 DEF CallInv, OneConnection, EarlyCandidatesApplied, EndMeant
<1> QED
  BY <1>1, <1>4, <1>5, <1>6, <1>7 DEF CallInv

LEMMA MediaKeeps ==
  ASSUME CallInv, NEW s \in starts, GotMedia(s)
  PROVE  CallInv' /\ EndMeant
<1> DEFINE d == s.dev
           n == [s EXCEPT !.step = "sdp"]
           q == [client[d] EXCEPT !.pc = s.call, !.remote = FALSE]
<1>1. CallTypeOK /\ s \in Start /\ d \in Devices /\ s.call \in CallIds /\ client[d] \in Client
      /\ client \in [Devices -> Client]
  BY DEF CallInv, CallTypeOK, Start
<1>2. UNCHANGED <<sent, callInbox, online, callsMade, callTold, accepted, deaf, callActs, callFaults>>
  BY DEF GotMedia
<1>3. n \in Start /\ n.call = s.call /\ n.as = s.as /\ n.dev = s.dev /\ n.peer = s.peer
  BY <1>1 DEF Start
<1>4. \/ starts' = starts \ {s} /\ client' = client
      \/ /\ starts' = (starts \ {s}) \cup {n}
         /\ client' = [client EXCEPT ![d] = q]
         /\ client[d].call = s.call /\ client[d].phase # "idle"
  <2>1. CASE Cancelled(d, s.call, s.as)
    BY <2>1 DEF GotMedia
  <2>2. CASE ~Cancelled(d, s.call, s.as)
    <3>1. client[d].call = s.call /\ client[d].phase # "idle"
      BY <2>2 DEF Cancelled
    <3>2. client' = [client EXCEPT ![d].pc = s.call, ![d].remote = FALSE] /\ starts' = (starts \ {s}) \cup {n}
      BY <2>2 DEF GotMedia
    <3> HIDE DEF n
    <3>3. [client EXCEPT ![d].pc = s.call, ![d].remote = FALSE] = [client EXCEPT ![d] = q]
      BY <1>1
    <3> QED
      BY <3>1, <3>2, <3>3
  <2> QED
    BY <2>1, <2>2
<1>5. /\ q \in Client /\ q.phase = client[d].phase /\ q.call = client[d].call /\ q.peer = client[d].peer
      /\ q.end = client[d].end /\ q.pc = s.call /\ ~q.remote
  BY <1>1 DEF Client
<1> HIDE DEF n, q, d
<1>6. /\ client' \in [Devices -> Client]
      /\ \A e \in Devices : \/ client'[e] = client[e]
                            \/ e = d /\ client'[d] = q /\ client[d].call = s.call /\ client[d].phase # "idle"
  BY <1>1, <1>4, <1>5
<1>7. /\ starts' \subseteq Start
      /\ \A x \in starts' : x \in starts \ {s} \/ x = n
  BY <1>1, <1>3, <1>4 DEF CallTypeOK
<1>8. CallTypeOK'
  BY <1>1, <1>2, <1>6, <1>7 DEF CallTypeOK
<1>9. SameSessions
  BY <1>2, <1>5, <1>6 DEF SameSessions
<1>10. Descends
  <2>1. \A x \in starts' : \E t \in starts : x.call = t.call /\ x.as = t.as /\ x.dev = t.dev /\ x.peer = t.peer
    BY <1>3, <1>7
  <2> QED
    BY <1>2, <2>1 DEF Descends, CallInv, Numbered, Answers, HangUps, Coming
<1>11. Engaged' /\ Numbered' /\ NotOffered' /\ Answers' /\ HangUps' /\ ActiveIsAgreed'
  BY <1>9, <1>10, OthersKeep
<1>12. OfferedOnce'
  <2>1. OfferedOnce
    BY DEF CallInv
  <2>2. \A x, y \in starts' : Offers(x) /\ Offers(y) /\ x.call = y.call => x = y
    BY <1>3, <1>7, <2>1 DEF OfferedOnce, Offers
  <2>3. \A x \in starts' : Offers(x) => \E t \in starts : Offers(t) /\ t.call = x.call
    BY <1>3, <1>7 DEF Offers
  <2>4. \A e \in Devices : Coming(e)' = Coming(e)
    BY <1>2 DEF Coming
  <2>5. \A x \in starts', r \in sent' : Offers(x) /\ Offered(r) => x.call # r.call
    BY <1>2, <2>1, <2>3 DEF OfferedOnce
  <2>6. ASSUME NEW e \in Devices, NEW m \in Coming(e)', m.ev = "offer"
        PROVE  /\ \A x \in starts' : Offers(x) => x.call # m.call
               /\ \A r \in sent' : Offered(r) => r.call # m.call
    BY <1>2, <2>1, <2>3, <2>4, <2>6 DEF OfferedOnce
  <2> QED
    BY <1>2, <2>1, <2>2, <2>5, <2>6 DEF OfferedOnce, Offers, Offered
<1>13. HangUpEnds'
  BY <1>2, <1>9, OpenKeeps
<1>14. OneConnection' /\ EarlyCandidatesApplied'
  BY <1>5, <1>6 DEF CallInv, OneConnection, EarlyCandidatesApplied
<1>15. EndMeant
  BY <1>5, <1>6 DEF EndMeant
<1> QED
  BY <1>8, <1>11, <1>12, <1>13, <1>14, <1>15 DEF CallInv

LEMMA DescribedKeeps ==
  ASSUME CallInv, NEW s \in starts, Described(s)
  PROVE  CallInv' /\ EndMeant
<1> DEFINE d == s.dev
           p == client[d]
           events == {s.as} \cup (IF d \in Trickle THEN {"candidate"} ELSE {})
           q == IF s.as = "answer" THEN [p EXCEPT !.remote = TRUE, !.ice = {}] ELSE p
           new == {emitWebRtcSignaling(d, s.peer, ev, s.call) : ev \in events}
<1>1. CallTypeOK /\ s \in Start /\ d \in Devices /\ s.call \in CallIds /\ s.peer \in Users /\ p \in Client
      /\ client \in [Devices -> Client] /\ s.as \in {"offer", "answer"}
  BY DEF CallInv, CallTypeOK, Start
<1>2. /\ client' = [client EXCEPT ![d] = q] /\ starts' = starts \ {s} /\ CallPost(sent \cup new)
      /\ UNCHANGED <<callInbox, online, callsMade, accepted, deaf, callActs, callFaults>>
  BY DEF Described
<1>3. /\ q \in Client /\ q.phase = p.phase /\ q.call = p.call /\ q.peer = p.peer /\ q.end = p.end
      /\ q.sdp = p.sdp /\ q.pc = p.pc
      /\ q = p \/ q.ice = {}
  <2>1. CASE s.as = "answer"
    <3>1. q = [p EXCEPT !.remote = TRUE, !.ice = {}]
      BY <2>1
    <3> HIDE DEF p, q
    <3>2. q \in Client
      BY <1>1, <3>1 DEF Client
    <3>3. /\ q.phase = p.phase /\ q.call = p.call /\ q.peer = p.peer /\ q.end = p.end
          /\ q.sdp = p.sdp /\ q.pc = p.pc /\ q.ice = {}
      BY <1>1, <3>1 DEF Client
    <3> QED
      BY <3>2, <3>3
  <2>2. CASE s.as # "answer"
    BY <1>1, <2>2
  <2> QED
    BY <2>1, <2>2
<1>4. ASSUME NEW r \in new
      PROVE  r \in Request /\ r.from = d /\ r.to = s.peer /\ r.call = s.call /\ r.ev \in {s.as, "candidate"}
  <2>1. PICK ev \in events : r = emitWebRtcSignaling(d, s.peer, ev, s.call)
    OBVIOUS
  <2>2. ev \in Events /\ ev \in {s.as, "candidate"}
    BY <1>1 DEF Events
  <2> HIDE DEF events, d
  <2> QED
    BY <1>1, <2>1, <2>2, EmitDoes
<1> HIDE DEF events, q, new, d
<1>5. sent \cup new \in SUBSET Request
  BY <1>1, <1>4 DEF CallTypeOK
<1>6. /\ sent' \subseteq Request /\ sent' \subseteq sent \cup new
      /\ callTold' \subseteq Devices \X CallIds /\ callTold \subseteq callTold'
      /\ \A r \in sent \cup new : r.hears \/ r.state = "sent" => r \in sent'
      /\ \A t \in callTold' \ callTold : \E r \in sent \cup new : r.ev = "hangup" /\ t = <<r.from, r.call>>
  BY <1>1, <1>2, <1>5, CallPosted
<1>7. callTold' = callTold
  <2>1. ASSUME NEW t \in callTold', t \notin callTold PROVE FALSE
    <3>1. PICK r \in sent \cup new : r.ev = "hangup" /\ t = <<r.from, r.call>>
      BY <1>6, <2>1
    <3>2. r \notin new
      BY <1>1, <1>4, <3>1
    <3> QED
      BY <2>1, <3>1, <3>2 DEF CallInv, HangUps
  <2> QED
    BY <1>6, <2>1
<1>8. \A e \in Devices : \/ client'[e] = client[e]
                         \/ e = d /\ client'[d] = q
  BY <1>1, <1>2
<1>9. CallTypeOK'
  BY <1>1, <1>2, <1>3, <1>6 DEF CallTypeOK
<1>10. SameSessions
  BY <1>2, <1>3, <1>8 DEF SameSessions
<1>11. ASSUME NEW r \in sent'
       PROVE  /\ r.call <= callsMade
              /\ r.ev = "answer" => <<r.from, r.call>> \in accepted
              /\ r.ev = "hangup" => r \in sent
              /\ Offered(r) => r \in sent \/ (Offers(s) /\ s.call = r.call /\ s.peer = r.to)
  <2>1. CASE r \in sent
    BY <2>1 DEF CallInv, Numbered, Answers
  <2>2. CASE r \in new
    <3>1. s.call <= callsMade /\ (s.as = "answer" => <<s.dev, s.call>> \in accepted)
      BY DEF CallInv, Numbered, Answers
    <3>2. r.from = s.dev
      BY <1>4, <2>2 DEF d
    <3> QED
      BY <1>1, <1>4, <2>2, <3>1, <3>2 DEF Offers, Offered
  <2> QED
    BY <1>6, <2>1, <2>2
<1>12. Descends
  <2>1. \A r \in sent' : /\ r.call <= callsMade
                         /\ r.ev = "answer" => <<r.from, r.call>> \in accepted
                         /\ r.ev = "hangup" => <<r.from, r.call>> \in callTold'
                         /\ Offered(r) => \/ \E x \in sent : Offered(x) /\ x.call = r.call /\ x.to = r.to
                                          \/ \E t \in starts : Offers(t) /\ t.call = r.call /\ t.peer = r.to
    BY <1>7, <1>11 DEF CallInv, HangUps
  <2> QED
    BY <1>2, <1>7, <2>1 DEF Descends, Coming
<1>13. Engaged' /\ Numbered' /\ NotOffered' /\ Answers' /\ HangUps' /\ ActiveIsAgreed'
  BY <1>10, <1>12, OthersKeep
<1>14. OfferedOnce'
  <2>1. OfferedOnce
    BY DEF CallInv
  <2>2. \A r \in sent' : Offered(r) => r \in sent \/ (r \in new /\ Offers(s) /\ s.call = r.call)
    BY <1>6, <1>11
  <2>3. ASSUME NEW r \in new, NEW x \in new, Offered(r), Offered(x) PROVE r = x
    <3>1. r = emitWebRtcSignaling(d, s.peer, "offer", s.call)
      BY <2>3 DEF new, emitWebRtcSignaling, Offered
    <3>2. x = emitWebRtcSignaling(d, s.peer, "offer", s.call)
      BY <2>3 DEF new, emitWebRtcSignaling, Offered
    <3> QED
      BY <3>1, <3>2
  <2>4. \A r, x \in sent' : Offered(r) /\ Offered(x) /\ r.call = x.call => r = x
    BY <2>1, <2>2, <2>3 DEF OfferedOnce
  <2>5. \A y \in starts', r \in sent' : Offers(y) /\ Offered(r) => y.call # r.call
    BY <1>2, <2>1, <2>2 DEF OfferedOnce
  <2>6. \A e \in Devices : Coming(e)' = Coming(e)
    BY <1>2 DEF Coming
  <2>7. ASSUME NEW e \in Devices, NEW m \in Coming(e)', m.ev = "offer"
        PROVE  /\ \A y \in starts' : Offers(y) => y.call # m.call
               /\ \A r \in sent' : Offered(r) => r.call # m.call
    BY <1>2, <2>1, <2>2, <2>6, <2>7 DEF OfferedOnce
  <2>8. \A y, t \in starts' : Offers(y) /\ Offers(t) /\ y.call = t.call => y = t
    BY <1>2, <2>1 DEF OfferedOnce
  <2> QED
    BY <1>2, <2>1, <2>4, <2>5, <2>7, <2>8 DEF OfferedOnce, Offers, Offered
<1>15. HangUpEnds'
  BY <1>2, <1>6, <1>7, <1>10, OpenKeeps
<1>16. OneConnection' /\ EarlyCandidatesApplied'
  BY <1>3, <1>8 DEF CallInv, OneConnection, EarlyCandidatesApplied
<1>17. EndMeant
  BY <1>3, <1>8 DEF EndMeant
<1> QED
  BY <1>9, <1>13, <1>14, <1>15, <1>16, <1>17 DEF CallInv

LEMMA CandidateKeeps ==
  ASSUME CallInv, NEW d \in Devices, RemoteCandidate(d)
  PROVE  CallInv' /\ EndMeant
<1> DEFINE p == client[d]
           m == Head(callInbox[d])
           waits == Concerns(d, m) /\ (p.pc = NoCall \/ ~p.remote)
           q == [p EXCEPT !.ice = @ \cup {m.call}]
<1>1. CallTypeOK /\ p \in Client /\ client \in [Devices -> Client]
  BY DEF CallInv, CallTypeOK
<1>2. /\ callInbox[d] # <<>> /\ Taken(d)
      /\ UNCHANGED <<starts, sent, online, callsMade, callTold, accepted, deaf, callActs, callFaults>>
  BY DEF RemoteCandidate, Arrives
<1>3. /\ callInbox' \in [Devices -> Seq([ev: Events, from: Users, call: CallIds])]
      /\ m \in Coming(d)
      /\ \A e \in Devices : Coming(e)' \subseteq Coming(e)
  BY <1>1, <1>2, TakenFacts
<1>4. m.call \in CallIds
  BY <1>1, <1>3, NumbersTyped
<1>5. client' = client \/ (client' = [client EXCEPT ![d] = q] /\ (p.pc = NoCall \/ ~p.remote))
  <2>1. CASE waits
    <3> HIDE DEF m
    <3>1. client' = [client EXCEPT ![d].ice = @ \cup {m.call}]
      BY <2>1 DEF RemoteCandidate, m
    <3> QED
      BY <1>1, <2>1, <3>1
  <2>2. CASE ~waits
    BY <2>2 DEF RemoteCandidate
  <2> QED
    BY <2>1, <2>2
<1> HIDE DEF m
<1>6. /\ q \in Client /\ q.phase = p.phase /\ q.call = p.call /\ q.peer = p.peer /\ q.end = p.end
      /\ q.sdp = p.sdp /\ q.pc = p.pc /\ q.remote = p.remote
  BY <1>1, <1>4 DEF Client
<1> HIDE DEF q
<1>7. /\ client' \in [Devices -> Client]
      /\ \A e \in Devices : \/ client'[e] = client[e]
                            \/ e = d /\ client'[d] = q /\ (p.pc = NoCall \/ ~p.remote)
  BY <1>1, <1>5, <1>6
<1>8. CallTypeOK'
  BY <1>1, <1>2, <1>3, <1>7 DEF CallTypeOK
<1>9. SameSessions
  BY <1>2, <1>6, <1>7 DEF SameSessions
<1>10. Descends
  BY <1>2, <1>3 DEF Descends, CallInv, Numbered, Answers, HangUps
<1>11. Engaged' /\ Numbered' /\ NotOffered' /\ Answers' /\ HangUps' /\ ActiveIsAgreed'
  BY <1>9, <1>10, OthersKeep
<1>12. OfferedOnce'
  BY <1>2, OffersKeep
<1>13. HangUpEnds'
  BY <1>2, <1>9, OpenKeeps
<1>14. OneConnection' /\ EarlyCandidatesApplied'
  BY <1>6, <1>7 DEF CallInv, OneConnection, EarlyCandidatesApplied
<1>15. EndMeant
  BY <1>6, <1>7 DEF EndMeant
<1> QED
  BY <1>8, <1>11, <1>12, <1>13, <1>14, <1>15 DEF CallInv

\* What a request that is relayed or refused leaves: a hang-up is open still, an offer is gone.
LEMMA SettledDoes ==
  ASSUME CallInv, NEW r \in sent, NEW state \in {"ok", "refused"}, Settled(r, state)
  PROVE  /\ sent' \subseteq Request /\ callTold' = callTold
         /\ \A p \in sent' : /\ p.call <= callsMade
                             /\ p.ev = "answer" => <<p.from, p.call>> \in accepted
                             /\ p.ev = "hangup" => <<p.from, p.call>> \in callTold'
                             /\ Offered(p) => p \in sent /\ p # r
         /\ \A p \in sent : p.ev = "hangup" /\ p.hears =>
              \E x \in sent' : x.from = p.from /\ x.ev = "hangup" /\ x.call = p.call /\ x.hears
<1> DEFINE n == [r EXCEPT !.state = state]
           all == (sent \ {r}) \cup IF r.hears /\ (r.ev = "hangup" \/ state = "refused") THEN {n} ELSE {}
<1>1. CallTypeOK /\ sent \subseteq Request /\ r \in Request
  BY DEF CallInv, CallTypeOK
<1>2. /\ n \in Request /\ n.from = r.from /\ n.ev = r.ev /\ n.call = r.call /\ n.hears = r.hears
      /\ n.state = state /\ n.state # "sent"
  BY <1>1 DEF Request
<1>3. CallPost(all)
  BY DEF Settled
<1> HIDE DEF n
<1>4. all \in SUBSET Request
  BY <1>1, <1>2
<1>5. \A p \in all : (p \in sent /\ p # r) \/ p = n
  OBVIOUS
<1>6. r.hears /\ r.ev = "hangup" => n \in all
  OBVIOUS
<1>7. sent \ {r} \subseteq all
  OBVIOUS
<1> HIDE DEF all
<1>8. /\ sent' \subseteq Request /\ sent' \subseteq all
      /\ callTold \subseteq callTold'
      /\ \A p \in all : p.hears \/ p.state = "sent" => p \in sent'
      /\ \A t \in callTold' \ callTold : \E p \in all : p.ev = "hangup" /\ t = <<p.from, p.call>>
  BY <1>1, <1>3, <1>4, CallPosted
<1>9. \A p \in sent : /\ p.call <= callsMade
                      /\ p.ev = "answer" => <<p.from, p.call>> \in accepted
                      /\ p.ev = "hangup" => <<p.from, p.call>> \in callTold
  BY DEF CallInv, Numbered, Answers, HangUps
<1>10. callTold' = callTold
  <2>1. ASSUME NEW t \in callTold', t \notin callTold PROVE FALSE
    <3>1. PICK p \in all : p.ev = "hangup" /\ t = <<p.from, p.call>>
      BY <1>8, <2>1
    <3> QED
      BY <1>2, <1>5, <1>9, <2>1, <3>1
  <2> QED
    BY <1>8, <2>1
<1>11. ASSUME NEW p \in sent'
       PROVE  /\ p.call <= callsMade
              /\ p.ev = "answer" => <<p.from, p.call>> \in accepted
              /\ p.ev = "hangup" => <<p.from, p.call>> \in callTold'
              /\ Offered(p) => p \in sent /\ p # r
  <2>1. CASE p \in sent /\ p # r
    BY <1>9, <1>10, <2>1
  <2>2. CASE p = n
    BY <1>2, <1>9, <1>10, <2>2 DEF Offered
  <2> QED
    BY <1>5, <1>8, <2>1, <2>2
<1>12. ASSUME NEW p \in sent, p.ev = "hangup", p.hears
       PROVE  \E x \in sent' : x.from = p.from /\ x.ev = "hangup" /\ x.call = p.call /\ x.hears
  <2>1. CASE p = r
    <3>1. n \in sent'
      BY <1>2, <1>6, <1>8, <1>12, <2>1
    <3> QED
      BY <1>2, <1>12, <2>1, <3>1
  <2>2. CASE p # r
    BY <1>7, <1>8, <1>12, <2>2
  <2> QED
    BY <2>1, <2>2
<1> QED
  BY <1>8, <1>10, <1>11, <1>12

LEMMA RefuseKeeps ==
  ASSUME CallInv, NEW r \in sent, Refuse(r)
  PROVE  CallInv' /\ EndMeant
<1>1. /\ UNCHANGED <<client, starts, callInbox, online, callsMade, accepted, deaf, callActs>>
      /\ Settled(r, "refused") /\ callFaults' \in 0 .. MaxCallFaults /\ CallTypeOK
  <2>1. CallTypeOK /\ callFaults \in 0 .. MaxCallFaults
    BY DEF CallInv, CallTypeOK
  <2>2. callFaults < MaxCallFaults /\ callFaults' = callFaults + 1
    BY DEF Refuse, CallFault
  <2>3. callFaults' \in 0 .. MaxCallFaults
    BY <2>1, <2>2, CallAssumption
  <2> QED
    BY <2>1, <2>3 DEF Refuse
<1>2. /\ sent' \subseteq Request /\ callTold' = callTold
      /\ \A p \in sent' : /\ p.call <= callsMade
                          /\ p.ev = "answer" => <<p.from, p.call>> \in accepted
                          /\ p.ev = "hangup" => <<p.from, p.call>> \in callTold'
                          /\ Offered(p) => p \in sent /\ p # r
      /\ \A p \in sent : p.ev = "hangup" /\ p.hears =>
           \E x \in sent' : x.from = p.from /\ x.ev = "hangup" /\ x.call = p.call /\ x.hears
  BY <1>1, SettledDoes
<1>3. CallTypeOK'
  BY <1>1, <1>2 DEF CallTypeOK
<1>4. SameSessions
  BY <1>1 DEF SameSessions
<1>5. Descends
  BY <1>1, <1>2 DEF Descends, Coming
<1>6. Engaged' /\ Numbered' /\ NotOffered' /\ Answers' /\ HangUps' /\ ActiveIsAgreed'
  BY <1>4, <1>5, OthersKeep
<1>7. OfferedOnce'
  BY <1>1, <1>2, OffersKeep
<1>8. HangUpEnds'
  BY <1>1, <1>2, <1>4, OpenKeeps
<1>9. OneConnection' /\ EarlyCandidatesApplied' /\ EndMeant
  BY <1>1 DEF CallInv, OneConnection, EarlyCandidatesApplied, EndMeant
<1> QED
  BY <1>3, <1>6, <1>7, <1>8, <1>9 DEF CallInv

LEMMA RelayKeeps ==
  ASSUME CallInv, NEW r \in sent, Relay(r)
  PROVE  CallInv' /\ EndMeant
<1> DEFINE M == [ev: Events, from: Users, call: CallIds]
           m == [ev |-> r.ev, from |-> UserOf[r.from], call |-> r.call]
<1>1. /\ UNCHANGED <<client, starts, online, callsMade, accepted, deaf, callActs, callFaults>>
      /\ Settled(r, "ok") /\ r.state = "sent"
      /\ CallTypeOK /\ OfferedOnce /\ r \in Request /\ callInbox \in [Devices -> Seq(M)]
  BY DEF Relay, CallInv, CallTypeOK
<1>2. m \in M /\ m.ev = r.ev /\ m.call = r.call
  BY <1>1 DEF Request, Users
<1>3. /\ sent' \subseteq Request /\ callTold' = callTold
      /\ \A p \in sent' : /\ p.call <= callsMade
                          /\ p.ev = "answer" => <<p.from, p.call>> \in accepted
                          /\ p.ev = "hangup" => <<p.from, p.call>> \in callTold'
                          /\ Offered(p) => p \in sent /\ p # r
      /\ \A p \in sent : p.ev = "hangup" /\ p.hears =>
           \E x \in sent' : x.from = p.from /\ x.ev = "hangup" /\ x.call = p.call /\ x.hears
  BY <1>1, SettledDoes
<1>4. callInbox' = [e \in Devices |-> IF UserOf[e] = r.to /\ online[e] = r.via
                                      THEN Append(callInbox[e], m) ELSE callInbox[e]]
  BY DEF Relay
<1> HIDE DEF m, M
<1>5. ASSUME NEW e \in Devices
      PROVE  /\ callInbox'[e] \in Seq(M)
             /\ \/ callInbox'[e] = callInbox[e]
                \/ UserOf[e] = r.to /\ callInbox'[e] = Append(callInbox[e], m)
  BY <1>1, <1>2, <1>4
<1>6. callInbox' \in [Devices -> Seq(M)]
  BY <1>4, <1>5
<1>7. ASSUME NEW e \in Devices, NEW k \in DOMAIN callInbox'[e]
      PROVE  \/ k \in DOMAIN callInbox[e] /\ callInbox'[e][k] = callInbox[e][k]
             \/ /\ callInbox'[e] = Append(callInbox[e], m) /\ k = Len(callInbox[e]) + 1
                /\ callInbox'[e][k] = m /\ UserOf[e] = r.to
  <2>1. callInbox[e] \in Seq(M)
    BY <1>1
  <2>2. CASE callInbox'[e] = callInbox[e]
    BY <1>7, <2>2
  <2>3. CASE callInbox'[e] = Append(callInbox[e], m) /\ UserOf[e] = r.to
    <3>1. k \in 1 .. Len(callInbox[e]) + 1 /\ DOMAIN callInbox[e] = 1 .. Len(callInbox[e])
      BY <1>2, <1>7, <2>1, <2>3
    <3>2. CASE k = Len(callInbox[e]) + 1
      BY <1>2, <2>1, <2>3, <3>2
    <3>3. CASE k # Len(callInbox[e]) + 1
      BY <1>2, <2>1, <2>3, <3>1, <3>3
    <3> QED
      BY <3>2, <3>3
  <2> QED
    BY <1>5, <2>2, <2>3
<1>8. \A e \in Devices : \A x \in Coming(e)' : x \in Coming(e) \/ (x = m /\ UserOf[e] = r.to)
  BY <1>7 DEF Coming
<1>9. CallTypeOK'
  BY <1>1, <1>3, <1>6 DEF CallTypeOK, M
<1>10. SameSessions
  BY <1>1 DEF SameSessions
<1>11. Descends
  <2>1. \A e \in Devices : \A x \in Coming(e)' :
           \/ x \in Coming(e)
           \/ \E p \in sent : /\ p.state = "sent" /\ p.to = UserOf[e]
                              /\ x = [ev |-> p.ev, from |-> UserOf[p.from], call |-> p.call]
    BY <1>1, <1>8 DEF m
  <2> HIDE DEF Coming
  <2> QED
    BY <1>1, <1>3, <2>1 DEF Descends
<1>12. Engaged' /\ Numbered' /\ NotOffered' /\ Answers' /\ HangUps' /\ ActiveIsAgreed'
  BY <1>10, <1>11, OthersKeep
<1>13. OfferedOnce'
  <2>1. m.ev = "offer" => /\ \A s \in starts : Offers(s) => s.call # m.call
                          /\ \A p \in sent' : Offered(p) => p.call # m.call
                          /\ \A e \in Devices : \A x \in Coming(e) : x.ev = "offer" => x.call # m.call
    <3> SUFFICES ASSUME m.ev = "offer"
                 PROVE  /\ \A s \in starts : Offers(s) => s.call # m.call
                        /\ \A p \in sent' : Offered(p) => p.call # m.call
                        /\ \A e \in Devices : \A x \in Coming(e) : x.ev = "offer" => x.call # m.call
      OBVIOUS
    <3>1. Offered(r) /\ r.call = m.call
      BY <1>1, <1>2 DEF Offered
    <3>2. \A p \in sent' : Offered(p) => p \in sent /\ p # r
      BY <1>3
    <3> QED
      BY <1>1, <3>1, <3>2 DEF OfferedOnce
  <2>2. ASSUME NEW e \in Devices, NEW j \in DOMAIN callInbox'[e], NEW k \in DOMAIN callInbox'[e],
               callInbox'[e][j].ev = "offer", callInbox'[e][k].ev = "offer",
               callInbox'[e][j].call = callInbox'[e][k].call
        PROVE  j = k
    <3>1. \A i \in DOMAIN callInbox[e] : callInbox[e][i] \in Coming(e)
      BY DEF Coming
    <3>2. CASE j \in DOMAIN callInbox[e] /\ callInbox'[e][j] = callInbox[e][j]
      <4>1. CASE k \in DOMAIN callInbox[e] /\ callInbox'[e][k] = callInbox[e][k]
        BY <1>1, <2>2, <3>2, <4>1 DEF OfferedOnce
      <4>2. CASE callInbox'[e][k] = m
        BY <2>1, <2>2, <3>1, <3>2, <4>2
      <4> QED
        BY <1>7, <4>1, <4>2
    <3>3. CASE callInbox'[e][j] = m /\ j = Len(callInbox[e]) + 1
      <4>1. CASE k \in DOMAIN callInbox[e] /\ callInbox'[e][k] = callInbox[e][k]
        BY <2>1, <2>2, <3>1, <3>3, <4>1
      <4>2. CASE k = Len(callInbox[e]) + 1
        BY <3>3, <4>2
      <4> QED
        BY <1>7, <4>1, <4>2
    <3> QED
      BY <1>7, <3>2, <3>3
  <2>3. ASSUME NEW e \in Devices, NEW x \in Coming(e)', x.ev = "offer"
        PROVE  /\ \A s \in starts' : Offers(s) => s.call # x.call
               /\ \A p \in sent' : Offered(p) => p.call # x.call
    BY <1>1, <1>3, <1>8, <2>1, <2>3, ZenonT(60) DEF OfferedOnce
  <2>4. /\ \A s, t \in starts' : Offers(s) /\ Offers(t) /\ s.call = t.call => s = t
        /\ \A p, x \in sent' : Offered(p) /\ Offered(x) /\ p.call = x.call => p = x
        /\ \A s \in starts', p \in sent' : Offers(s) /\ Offered(p) => s.call # p.call
    BY <1>1, <1>3 DEF OfferedOnce
  <2> QED
    BY <2>2, <2>3, <2>4 DEF OfferedOnce, Offers, Offered
<1>14. HangUpEnds'
  BY <1>1, <1>3, <1>10, OpenKeeps
<1>15. OneConnection' /\ EarlyCandidatesApplied' /\ EndMeant
  BY <1>1 DEF CallInv, OneConnection, EarlyCandidatesApplied, EndMeant
<1> QED
  BY <1>9, <1>12, <1>13, <1>14, <1>15 DEF CallInv

LEMMA DisconnectKeeps ==
  ASSUME CallInv, NEW d \in Devices, Disconnect(d)
  PROVE  CallInv' /\ EndMeant
<1> DEFINE M == [ev: Events, from: Users, call: CallIds]
           mute(r) == [r EXCEPT !.hears = FALSE]
<1>1. /\ UNCHANGED <<client, starts, callsMade, callTold, accepted, callActs>>
      /\ callFaults' \in 0 .. MaxCallFaults
      /\ CallTypeOK /\ OfferedOnce /\ callInbox \in [Devices -> Seq(M)] /\ sent \subseteq Request
  <2>1. /\ CallTypeOK /\ OfferedOnce /\ callFaults \in 0 .. MaxCallFaults
        /\ callInbox \in [Devices -> Seq(M)] /\ sent \subseteq Request
    BY DEF CallInv, CallTypeOK
  <2>2. callFaults < MaxCallFaults /\ callFaults' = callFaults + 1
    BY DEF Disconnect, CallFault
  <2>3. callFaults' \in 0 .. MaxCallFaults
    BY <2>1, <2>2, CallAssumption
  <2> QED
    BY <2>1, <2>3 DEF Disconnect
<1>2. /\ callInbox' = [callInbox EXCEPT ![d] = <<>>]
      /\ online' = [online EXCEPT ![d] = "none"]
      /\ sent' = {IF r.from = d THEN mute(r) ELSE r : r \in {q \in sent : q.from = d => q.state = "sent"}}
      /\ deaf' = IF \E r \in sent : r.from = d /\ r.ev = "hangup" THEN deaf \cup {d} ELSE deaf
  BY DEF Disconnect
<1>3. \A r \in sent : /\ mute(r) \in Request /\ mute(r).from = r.from /\ mute(r).to = r.to /\ mute(r).ev = r.ev
                      /\ mute(r).call = r.call /\ mute(r).state = r.state
  BY <1>1 DEF Request
<1> HIDE DEF mute
<1>4. \A p \in sent' : \E r \in sent : /\ p = (IF r.from = d THEN mute(r) ELSE r)
                                       /\ p.from = r.from /\ p.to = r.to /\ p.ev = r.ev /\ p.call = r.call
                                       /\ p.state = r.state
  BY <1>2, <1>3
<1>5. \A r \in sent : r.from # d => r \in sent'
  BY <1>2
<1>6. sent' \subseteq Request
  BY <1>1, <1>3, <1>4
<1>7. /\ callInbox'[d] = <<>> /\ \A e \in Devices \ {d} : callInbox'[e] = callInbox[e]
      /\ callInbox' \in [Devices -> Seq(M)]
  <2> HIDE DEF M
  <2>1. <<>> \in Seq(M)
    OBVIOUS
  <2> QED
    BY <1>1, <1>2, <2>1
<1>8. \A e \in Devices : Coming(e)' \subseteq Coming(e)
  BY <1>7 DEF Coming
<1>9. CallTypeOK'
  <2>1. online' \in [Devices -> Replicas \cup {"none"}] /\ deaf' \subseteq Devices
    BY <1>1, <1>2 DEF CallTypeOK
  <2> QED
    BY <1>1, <1>6, <1>7, <2>1 DEF CallTypeOK
<1>10. SameSessions
  BY <1>1 DEF SameSessions
<1>11. Descends
  <2>1. \A r \in sent : /\ r.call <= callsMade
                        /\ r.ev = "answer" => <<r.from, r.call>> \in accepted
                        /\ r.ev = "hangup" => <<r.from, r.call>> \in callTold
    BY DEF CallInv, Numbered, Answers, HangUps
  <2>2. ASSUME NEW p \in sent'
        PROVE  /\ p.call <= callsMade
               /\ p.ev = "answer" => <<p.from, p.call>> \in accepted
               /\ p.ev = "hangup" => <<p.from, p.call>> \in callTold'
               /\ Offered(p) => \E r \in sent : Offered(r) /\ r.call = p.call /\ r.to = p.to
    BY <1>1, <1>4, <2>1 DEF Offered
  <2> HIDE DEF Coming
  <2> QED
    BY <1>1, <1>8, <2>2 DEF Descends
<1>12. Engaged' /\ Numbered' /\ NotOffered' /\ Answers' /\ HangUps' /\ ActiveIsAgreed'
  BY <1>10, <1>11, OthersKeep
<1>13. OfferedOnce'
  <2>1. ASSUME NEW p \in sent', NEW x \in sent', Offered(p), Offered(x), p.call = x.call
        PROVE  p = x
    <3>1. PICK r \in sent : /\ p = (IF r.from = d THEN mute(r) ELSE r)
                            /\ p.ev = r.ev /\ p.call = r.call /\ p.state = r.state
      BY <1>4
    <3>2. PICK q \in sent : /\ x = (IF q.from = d THEN mute(q) ELSE q)
                            /\ x.ev = q.ev /\ x.call = q.call /\ x.state = q.state
      BY <1>4
    <3>3. r = q
      BY <1>1, <2>1, <3>1, <3>2 DEF OfferedOnce, Offered
    <3> QED
      BY <3>1, <3>2, <3>3
  <2>2. \A p \in sent' : Offered(p) => \E r \in sent : Offered(r) /\ r.call = p.call
    BY <1>4 DEF Offered
  <2>3. \A s \in starts', p \in sent' : Offers(s) /\ Offered(p) => s.call # p.call
    BY <1>1, <2>2 DEF OfferedOnce
  <2>4. ASSUME NEW e \in Devices, NEW m \in Coming(e)', m.ev = "offer"
        PROVE  /\ \A s \in starts' : Offers(s) => s.call # m.call
               /\ \A p \in sent' : Offered(p) => p.call # m.call
    BY <1>1, <1>8, <2>2, <2>4 DEF OfferedOnce
  <2>5. ASSUME NEW e \in Devices, NEW j \in DOMAIN callInbox'[e], NEW k \in DOMAIN callInbox'[e],
               callInbox'[e][j].ev = "offer", callInbox'[e][k].ev = "offer",
               callInbox'[e][j].call = callInbox'[e][k].call
        PROVE  j = k
    <3>1. e # d
      BY <1>7
    <3>2. callInbox'[e] = callInbox[e]
      BY <1>7, <3>1
    <3> QED
      BY <1>1, <2>5, <3>2 DEF OfferedOnce
  <2>6. \A s, t \in starts' : Offers(s) /\ Offers(t) /\ s.call = t.call => s = t
    BY <1>1 DEF OfferedOnce
  <2> QED
    BY <2>1, <2>3, <2>4, <2>5, <2>6 DEF OfferedOnce, Offers, Offered
<1>14. HangUpEnds'
  <2>1. deaf \subseteq deaf' /\ \A r \in sent : r.from = d /\ r.ev = "hangup" => d \in deaf'
    BY <1>2
  <2>2. \A r \in sent : r.ev = "hangup" /\ r.hears => r.from \in deaf' \/ r \in sent'
    BY <1>5, <2>1
  <2> QED
    BY <1>1, <1>10, <2>1, <2>2, OpenKeeps
<1>15. OneConnection' /\ EarlyCandidatesApplied' /\ EndMeant
  BY <1>1 DEF CallInv, OneConnection, EarlyCandidatesApplied, EndMeant
<1> QED
  BY <1>9, <1>12, <1>13, <1>14, <1>15 DEF CallInv

-----------------------------------------------------------------------------
(* The theorems about calls.                                               *)

LEMMA CallStarts == CallInit => CallInv
<1> SUFFICES ASSUME CallInit PROVE CallInv
  OBVIOUS
<1> DEFINE q(d) == [callInitialState EXCEPT !.view = FirstView[d]]
<1>1. \A d \in Devices : FirstView[d] \in Users \cup {Nobody}
  BY CallAssumption DEF Users
<1>2. ASSUME NEW d \in Devices
      PROVE  q(d) \in Client /\ q(d).phase = "idle" /\ q(d).call = NoCall /\ q(d).pc = NoCall
  BY <1>1 DEF callInitialState, Client
<1> HIDE DEF q
<1>3. client = [d \in Devices |-> q(d)]
  BY DEF CallInit, q
<1>4. client \in [Devices -> Client]
  BY <1>2, <1>3
<1>5. \A d \in Devices : client[d].phase = "idle" /\ client[d].call = NoCall /\ client[d].pc = NoCall
  BY <1>2, <1>3
<1>6. /\ starts = {} /\ sent = {} /\ callTold = {} /\ accepted = {} /\ deaf = {}
      /\ callInbox = [d \in Devices |-> <<>>] /\ online \in [Devices -> Replicas]
      /\ callsMade = 0 /\ callActs = 0 /\ callFaults = 0
  BY DEF CallInit
<1>7. CallTypeOK
  BY <1>4, <1>6, CallAssumption DEF CallTypeOK
<1>8. \A d \in Devices : Coming(d) = {} /\ DOMAIN callInbox[d] = {}
  <2>1. \A d \in Devices : callInbox[d] = <<>>
    BY <1>6
  <2>2. DOMAIN <<>> = {}
    OBVIOUS
  <2> QED
    BY <2>1, <2>2 DEF Coming
<1>9. Engaged /\ Numbered /\ OfferedOnce
  BY <1>5, <1>6, <1>8 DEF Engaged, Numbered, OfferedOnce, NoCall
<1>10. NotOffered /\ Answers /\ HangUps
  BY <1>6, <1>8 DEF NotOffered, Answers, HangUps
<1>11. ActiveIsAgreed /\ OneConnection /\ EarlyCandidatesApplied /\ HangUpEnds
  BY <1>5 DEF ActiveIsAgreed, OneConnection, EarlyCandidatesApplied, HangUpEnds
<1> QED
  BY <1>7, <1>9, <1>10, <1>11 DEF CallInv

LEMMA CallSteps == CallInv /\ [CallNext]_callVars => CallInv' /\ [EndMeant]_callVars
<1> SUFFICES ASSUME CallInv, [CallNext]_callVars PROVE CallInv' /\ [EndMeant]_callVars
  OBVIOUS
<1>1. CASE UNCHANGED callVars
  <2>1. UNCHANGED <<client, starts, sent, callInbox, online, callsMade, callTold, accepted, deaf, callActs, callFaults>>
    BY <1>1 DEF callVars
  <2>2. CallTypeOK' /\ Engaged' /\ ActiveIsAgreed' /\ OneConnection' /\ EarlyCandidatesApplied' /\ HangUpEnds'
    BY <2>1 DEF CallInv, CallTypeOK, Engaged, ActiveIsAgreed, OneConnection, EarlyCandidatesApplied, HangUpEnds
  <2>3. Numbered'
    BY <2>1 DEF CallInv, Numbered, Coming
  <2>4. OfferedOnce'
    BY <2>1 DEF CallInv, OfferedOnce, Coming, Offers, Offered
  <2>5. NotOffered'
    BY <2>1 DEF CallInv, NotOffered, Involved, Coming, Offers, Offered
  <2>6. Answers' /\ HangUps'
    BY <2>1, ZenonT(60) DEF CallInv, Answers, HangUps, Coming
  <2> QED
    BY <1>1, <2>2, <2>3, <2>4, <2>5, <2>6 DEF CallInv
<1>2. ASSUME NEW r \in sent,
             \/ webrtcOffer(r) \/ webrtcAnswer(r) \/ webrtcCandidate(r) \/ webrtcHangup(r)
             \/ Refuse(r) \/ SignalRefused(r) \/ HangupSettled(r)
      PROVE  CallInv' /\ EndMeant
  <2>1. CASE webrtcOffer(r) \/ webrtcAnswer(r) \/ webrtcCandidate(r) \/ webrtcHangup(r)
    BY <2>1, RelayKeeps DEF webrtcOffer, webrtcAnswer, webrtcCandidate, webrtcHangup
  <2>2. CASE Refuse(r)
    BY <2>2, RefuseKeeps
  <2>3. CASE SignalRefused(r)
    BY <2>3, RefusedKeeps
  <2>4. CASE HangupSettled(r)
    BY <2>4, SettledKeeps
  <2> QED
    BY <1>2, <2>1, <2>2, <2>3, <2>4
<1>3. ASSUME NEW s \in starts, GotMedia(s) \/ Described(s) \/ NegotiationFails(s)
      PROVE  CallInv' /\ EndMeant
  BY <1>3, MediaKeeps, DescribedKeeps, FailedKeeps
<1>4. ASSUME NEW d \in Devices, Hears(d)
      PROVE  CallInv' /\ EndMeant
  BY <1>4, RingKeeps, RemoteKeeps, AnswerTakenKeeps, CandidateKeeps DEF Hears
<1>5. ASSUME NEW d \in Devices,
             \/ answerCall(d) \/ requestLocalEndCall(d) \/ Disconnect(d) \/ Reconnect(d)
             \/ clearCallSessionEndReason(d) \/ \E track \in {"mic", "camera"} : Toggle(d, track)
             \/ \E u \in Users : startOutgoingCall(d, u)
             \/ \E u \in Users \cup {Nobody} : OpenThread(d, u)
      PROVE  CallInv' /\ EndMeant
  <2>1. CASE answerCall(d) \/ requestLocalEndCall(d)
    BY <2>1, AnswerKeeps, AsksKeep
  <2>2. CASE Disconnect(d) \/ Reconnect(d)
    BY <2>2, DisconnectKeeps, ReconnectKeeps
  <2>3. CASE clearCallSessionEndReason(d) \/ \E track \in {"mic", "camera"} : Toggle(d, track)
    BY <2>3, TogglesKeep
  <2>4. CASE \E u \in Users : startOutgoingCall(d, u)
    BY <2>4, StartKeeps
  <2>5. CASE \E u \in Users \cup {Nobody} : OpenThread(d, u)
    BY <2>5, ViewKeeps
  <2> QED
    BY <1>5, <2>1, <2>2, <2>3, <2>4, <2>5
<1> QED
  BY <1>1, <1>2, <1>3, <1>4, <1>5 DEF CallNext

\* The page of every device, the signalling and the service keep these together: calls
\* are numbered, each is offered once and to nobody who is in it, answers and hang-ups
\* come from those who gave them.
THEOREM CallInvariant == CallSpec => []CallInv
BY CallStarts, CallSteps, PTL DEF CallSpec

\* peerAnsweredOutgoing behind the checks of callId, peer and role: nobody is in a call
\* that was not answered, however late answers of earlier calls come.
THEOREM CallsAgreed == CallSpec => []ActiveIsAgreed
<1>1. CallInv => ActiveIsAgreed
  BY DEF CallInv
<1> QED
  BY <1>1, CallInvariant, PTL

\* useWebRtcCallSession: a device without a session has released its connection, and a
\* connection serves the session it was made for.
THEOREM OneConnectionEach == CallSpec => []OneConnection
<1>1. CallInv => OneConnection
  BY DEF CallInv
<1> QED
  BY <1>1, CallInvariant, PTL

\* Candidates that come before the peer connection or its remote description are applied.
THEOREM CandidatesApplied == CallSpec => []EarlyCandidatesApplied
<1>1. CallInv => EarlyCandidatesApplied
  BY DEF CallInv
<1> QED
  BY <1>1, CallInvariant, PTL

\* requestLocalEndCall: who has hung up leaves the call, however the request ends; the
\* call cannot come back, since its offer comes once and to others.
THEOREM HangUpLeaves == CallSpec => []HangUpEnds
<1>1. CallInv => HangUpEnds
  BY DEF CallInv
<1> QED
  BY <1>1, CallInvariant, PTL

\* The handler of webrtc:hangup: a session that ends as ended by the peer was hung up by
\* the peer.
THEOREM EndedByPeer == CallSpec => RemoteEndIsMeant
<1>1. EndMeant <=> \A d \in Devices :
       client[d].phase # "idle" /\ client'[d].end = "remote" /\ client[d].end # "remote" =>
         \E e \in Devices : UserOf[e] = client[d].peer /\ <<e, client[d].call>> \in callTold
  BY DEF EndMeant
<1> QED
  BY <1>1, CallInvariant, CallSteps, PTL DEF CallSpec, RemoteEndIsMeant
=============================================================================
