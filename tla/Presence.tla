------------------------------ MODULE Presence ------------------------------
(***************************************************************************)
(* The last-seen time of one user: heartbeats of his connections written   *)
(* to Redis, the flush to MongoDB when a connection closes, the lookup in  *)
(* Redis and then MongoDB, and the header of a viewer that asks for it     *)
(* through the socket worker.                                              *)
(*                                                                         *)
(* Times are the values of a clock that moves whenever one is taken; 0     *)
(* stands for no value.                                                    *)
(***************************************************************************)
EXTENDS Naturals, Sequences, FiniteSets

CONSTANTS
  Connections,      \* connections the user opens and closes, each once
  MaxClock,         \* bound: times taken
  MaxAsks,          \* bound: presence:getLastSeen requests of the viewer
  MaxDrops,         \* bound: connections the viewer loses
  MaxViews,         \* bound: messages of the user and changes of the tab's visibility
  MaxMishaps        \* bound: failed operations, killed processes and lapsed keys

ASSUME PresenceAssumption ==
  /\ MaxClock \in Nat /\ MaxAsks \in Nat /\ MaxDrops \in Nat
  /\ MaxViews \in Nat /\ MaxMishaps \in Nat

VARIABLES
  clock,
  redis,      \* presence:lastSeen:<user>
  mongo,      \* users.lastSeenAt
  conn,       \* the connections of the user
  beat,       \* SET commands of each connection that Redis has not executed
  flush,      \* flushLastSeenToMongo of each connection: where it is and the time it read
  header,     \* useLastSeen of the viewer, and whether the status is connected
  link,       \* whether the socket of the viewer's worker is connected
  asks,       \* requests on their way
  toMain,     \* messages of the worker to the viewer's page
  asked,      \* requests made
  known,      \* history: a heartbeat has been stored
  written,    \* history: the heartbeat Redis stored last
  crossed,    \* history: a flush read Redis while another had still to write MongoDB
  broken,     \* history: an operation failed, a process was killed or a key lapsed
  deaf,       \* history: the answer to a load was lost with its connection
  drops, views, mishaps

serverVars == <<clock, redis, mongo, conn, beat, flush, known, written, crossed>>
viewerVars == <<header, link, asks, toMain, asked, deaf, drops, views>>
presenceVars == <<serverVars, viewerVars, broken, mishaps>>

Time == 0 .. MaxClock
Terminal == {"redis", "mongodb", "not_available", "error"}
Ask == [id: 1 .. MaxAsks, for: {"load", "tick"}, step: {"posted", "redis", "mongodb"}, knew: BOOLEAN]
Headers == [connected: BOOLEAN, entry: Terminal \cup {"idle", "loading"},
            inflight: BOOLEAN, live: BOOLEAN]
Reports == [kind: {"connected", "disconnected"}]
Answered == [kind: {"answer"}, ask: Ask, answer: Terminal]

PresenceTypeOK ==
  /\ clock \in Time /\ redis \in Time /\ mongo \in Time /\ written \in Time
  /\ conn \in [Connections -> {"new", "up", "gone"}]
  /\ beat \in [Connections -> Time]
  /\ flush \in [Connections -> [step: {"none", "get", "update", "del"}, at: Time]]
  /\ header \in Headers
  /\ link \in BOOLEAN /\ asks \subseteq Ask /\ asked \in 0 .. MaxAsks
  /\ toMain \in Seq(Reports \cup Answered)
  /\ known \in BOOLEAN /\ crossed \in BOOLEAN /\ broken \in BOOLEAN /\ deaf \in BOOLEAN

NoFlush == [step |-> "none", at |-> 0]

\* The viewer is on the page with the thread of the user open.
PresenceInit ==
  /\ clock = 0 /\ redis = 0 /\ mongo = 0
  /\ conn = [c \in Connections |-> "new"]
  /\ beat = [c \in Connections |-> 0]
  /\ flush = [c \in Connections |-> NoFlush]
  /\ header = [connected |-> FALSE, entry |-> "idle", inflight |-> FALSE, live |-> TRUE]
  /\ link = FALSE /\ asks = {} /\ toMain = <<>> /\ asked = 0
  /\ known = FALSE /\ written = 0 /\ crossed = FALSE /\ broken = FALSE /\ deaf = FALSE
  /\ drops = 0 /\ views = 0 /\ mishaps = 0

Mishap == mishaps < MaxMishaps /\ mishaps' = mishaps + 1 /\ broken' = TRUE

-----------------------------------------------------------------------------
(* The connections of the user.                                            *)

Connect(c) ==
  /\ conn[c] = "new"
  /\ conn' = [conn EXCEPT ![c] = "up"]
  /\ UNCHANGED <<clock, redis, mongo, beat, flush, known, written, crossed, viewerVars, broken, mishaps>>

\* A heartbeat that the throttle lets through; the others change nothing.
Heartbeat(c) ==
  /\ conn[c] = "up" /\ beat[c] = 0 /\ clock < MaxClock
  /\ clock' = clock + 1
  /\ beat' = [beat EXCEPT ![c] = clock + 1]
  /\ UNCHANGED <<redis, mongo, conn, flush, known, written, crossed, viewerVars, broken, mishaps>>

\* Redis executes the SET, or refuses it.
setLastSeen(c) ==
  /\ beat[c] # 0
  /\ beat' = [beat EXCEPT ![c] = 0]
  /\ \/ /\ redis' = beat[c] /\ written' = beat[c] /\ known' = TRUE
        /\ UNCHANGED <<broken, mishaps>>
     \/ Mishap /\ UNCHANGED <<redis, written, known>>
  /\ UNCHANGED <<clock, mongo, conn, flush, crossed, viewerVars>>

Disconnect(c) ==
  /\ conn[c] = "up"
  /\ conn' = [conn EXCEPT ![c] = "gone"]
  /\ flush' = [flush EXCEPT ![c].step = "get"]
  /\ UNCHANGED <<clock, redis, mongo, beat, known, written, crossed, viewerVars, broken, mishaps>>

\* Mutant: the commands of the connection are not sent in order.
M_FlushGet(c) ==
  LET now == redis = 0 IN
  /\ flush[c].step = "get"
  /\ now => clock < MaxClock
  /\ clock' = IF now THEN clock + 1 ELSE clock
  /\ flush' = [flush EXCEPT ![c] = [step |-> "update", at |-> IF now THEN clock + 1 ELSE redis]]
  /\ crossed' = (crossed \/ \E d \in Connections : flush[d].step = "update")
  /\ UNCHANGED <<redis, mongo, conn, beat, known, written, viewerVars, broken, mishaps>>

\* Mutant: the key is read and deleted at once (GETDEL).
M_FlushGetDel(c) ==
  LET now == redis = 0 IN
  /\ flush[c].step = "get" /\ beat[c] = 0
  /\ now => clock < MaxClock
  /\ clock' = IF now THEN clock + 1 ELSE clock
  /\ redis' = 0
  /\ flush' = [flush EXCEPT ![c] = [step |-> "update", at |-> IF now THEN clock + 1 ELSE redis]]
  /\ crossed' = (crossed \/ \E d \in Connections : flush[d].step = "update")
  /\ UNCHANGED <<mongo, conn, beat, known, written, viewerVars, broken, mishaps>>

\* Mutant: without a key there is nothing to write.
M_FlushSkips(c) ==
  /\ flush[c].step = "get" /\ beat[c] = 0
  /\ flush' = [flush EXCEPT ![c] = IF redis = 0 THEN NoFlush ELSE [step |-> "update", at |-> redis]]
  /\ crossed' = (crossed \/ \E d \in Connections : flush[d].step = "update")
  /\ UNCHANGED <<clock, redis, mongo, conn, beat, known, written, viewerVars, broken, mishaps>>

\* The flush reads the key, after the heartbeats its process has sent before, and
\* takes the time of the moment if there is none.
FlushGet(c) ==
  LET now == redis = 0 IN
  /\ flush[c].step = "get" /\ beat[c] = 0
  /\ now => clock < MaxClock
  /\ clock' = IF now THEN clock + 1 ELSE clock
  /\ flush' = [flush EXCEPT ![c] = [step |-> "update", at |-> IF now THEN clock + 1 ELSE redis]]
  /\ crossed' = (crossed \/ \E d \in Connections : flush[d].step = "update")
  /\ UNCHANGED <<redis, mongo, conn, beat, known, written, viewerVars, broken, mishaps>>

\* $set of lastSeenAt.
FlushUpdate(c) ==
  /\ flush[c].step = "update"
  /\ mongo' = flush[c].at
  /\ flush' = [flush EXCEPT ![c].step = "del"]
  /\ UNCHANGED <<clock, redis, conn, beat, known, written, crossed, viewerVars, broken, mishaps>>

\* DEL whatever the key holds by now.
FlushDelete(c) ==
  /\ flush[c].step = "del"
  /\ redis' = 0
  /\ flush' = [flush EXCEPT ![c] = NoFlush]
  /\ UNCHANGED <<clock, mongo, conn, beat, known, written, crossed, viewerVars, broken, mishaps>>

\* The process is killed with the connection or its flush, or the flush fails: the
\* error is logged.
Lost(c) ==
  /\ conn[c] = "up" \/ flush[c].step # "none"
  /\ Mishap
  /\ conn' = [conn EXCEPT ![c] = "gone"]
  /\ beat' = [beat EXCEPT ![c] = 0]
  /\ flush' = [flush EXCEPT ![c] = NoFlush]
  /\ UNCHANGED <<clock, redis, mongo, known, written, crossed, viewerVars>>

\* LAST_SEEN_TTL_SECONDS pass without a heartbeat.
Lapse ==
  /\ redis # 0 /\ Mishap
  /\ redis' = 0
  /\ UNCHANGED <<clock, mongo, conn, beat, flush, known, written, crossed, viewerVars>>

-----------------------------------------------------------------------------
(* resolveLastSeenForUser, on behalf of the viewer's requests.             *)

Moves(a, b) == asks' = (asks \ {a}) \cup {b}
Answers(a, answer) ==
  /\ asks' = asks \ {a}
  /\ toMain' = Append(toMain, [kind |-> "answer", ask |-> a, answer |-> answer])

LookInRedis(a) ==
  LET b == [a EXCEPT !.knew = known] IN
  /\ a.step = "redis"
  /\ IF redis # 0 THEN Answers(a, "redis") ELSE Moves(a, [b EXCEPT !.step = "mongodb"]) /\ UNCHANGED toMain
  /\ UNCHANGED <<serverVars, header, link, asked, deaf, drops, views, broken, mishaps>>

LookInMongo(a) ==
  /\ a.step = "mongodb"
  /\ Answers(a, IF mongo # 0 THEN "mongodb" ELSE "not_available")
  /\ UNCHANGED <<serverVars, header, link, asked, deaf, drops, views, broken, mishaps>>

LookupFails(a) ==
  /\ a.step \in {"redis", "mongodb"} /\ Mishap
  /\ Answers(a, "error")
  /\ UNCHANGED <<serverVars, header, link, asked, deaf, drops, views>>

-----------------------------------------------------------------------------
(* The worker of the viewer.                                               *)

\* presence_get_last_seen: emitted, or refused while the socket is down.
WorkerTakes(a) ==
  /\ a.step = "posted"
  /\ IF link THEN Moves(a, [a EXCEPT !.step = "redis"]) /\ UNCHANGED toMain ELSE Answers(a, "error")
  /\ UNCHANGED <<serverVars, header, link, asked, deaf, drops, views, broken, mishaps>>

LinkUp ==
  /\ ~link /\ link' = TRUE
  /\ toMain' = Append(toMain, [kind |-> "connected"])
  /\ UNCHANGED <<serverVars, header, asks, asked, deaf, drops, views, broken, mishaps>>

\* The acknowledgements of what has been emitted never come.
LinkDown ==
  LET lost == {a \in asks : a.step # "posted"} IN
  /\ link /\ drops < MaxDrops
  /\ link' = FALSE /\ drops' = drops + 1
  /\ toMain' = Append(toMain, [kind |-> "disconnected"])
  /\ asks' = asks \ lost
  /\ deaf' = (deaf \/ \E a \in lost : a.for = "load")
  /\ UNCHANGED <<serverVars, header, asked, views, broken, mishaps>>

-----------------------------------------------------------------------------
(* useLastSeen on the page of the viewer.                                  *)

Request(n, for) == [id |-> n, for |-> for, step |-> "posted", knew |-> FALSE]

\* The load effect asks for a user of whom nothing is known, unless a request is
\* in flight already; without a connection the entry is cleared.
Loads(h) == h.connected /\ h.entry \notin Terminal /\ ~h.inflight
Loaded(h) ==
  IF ~h.connected THEN [h EXCEPT !.entry = "idle"]
  ELSE IF Loads(h) THEN [h EXCEPT !.entry = "loading", !.inflight = TRUE]
  ELSE h

\* The header becomes h; the load effect runs when what it depends on changed, and the
\* live effect ticks at once when it starts.
Renders(h, others) ==
  LET was == header
      runs == h.connected # was.connected \/ h.entry # was.entry
      load == runs /\ Loads(h)
      ticks == h.live /\ h.connected /\ ~(was.live /\ was.connected)
      n == (IF load THEN 1 ELSE 0) + (IF ticks THEN 1 ELSE 0) IN
  /\ asked + n <= MaxAsks
  /\ header' = IF runs THEN Loaded(h) ELSE h
  /\ asks' = others \cup (IF load THEN {Request(asked + 1, "load")} ELSE {})
                    \cup (IF ticks THEN {Request(asked + n, "tick")} ELSE {})
  /\ asked' = asked + n

\* The interval of the live effect.
Tick ==
  /\ header.live /\ header.connected /\ asked < MaxAsks
  /\ asks' = asks \cup {Request(asked + 1, "tick")}
  /\ asked' = asked + 1
  /\ UNCHANGED <<serverVars, header, link, toMain, deaf, drops, views, broken, mishaps>>

\* Mutant: an answer that comes while the socket is down leaves the flight open.
M_Settled(h, a, answer) ==
  IF ~h.connected THEN h
  ELSE IF a.for = "load" THEN [h EXCEPT !.inflight = FALSE, !.entry = answer]
  ELSE IF h.live THEN [h EXCEPT !.entry = answer] ELSE h

\* The promise of a request settles.
Settled(h, a, answer) ==
  LET shown == h.connected /\ (a.for = "tick" => h.live)
      g == IF shown THEN [h EXCEPT !.entry = answer] ELSE h IN
  IF a.for = "load" THEN [g EXCEPT !.inflight = FALSE] ELSE g

PageTakes ==
  LET m == Head(toMain) IN
  /\ toMain # <<>>
  /\ toMain' = Tail(toMain)
  /\ IF m.kind = "answer"
     THEN Renders(Settled(header, m.ask, m.answer), asks)
     ELSE Renders([header EXCEPT !.connected = (m.kind = "connected")], asks)
  /\ UNCHANGED <<serverVars, link, deaf, drops, views, broken, mishaps>>

\* A message of the user in the open thread: presenceClearedForUser.
presenceClearedForUser ==
  /\ views < MaxViews /\ views' = views + 1
  /\ Renders([header EXCEPT !.entry = "idle"], asks)
  /\ UNCHANGED <<serverVars, link, toMain, deaf, drops, broken, mishaps>>

\* The tab is hidden or shown again.
ChangeVisibility ==
  /\ views < MaxViews /\ views' = views + 1
  /\ Renders([header EXCEPT !.live = ~@], asks)
  /\ UNCHANGED <<serverVars, link, toMain, deaf, drops, broken, mishaps>>

PresenceNext ==
  \/ \E c \in Connections : \/ Connect(c) \/ Heartbeat(c) \/ setLastSeen(c) \/ Disconnect(c)
                            \/ FlushGet(c) \/ FlushUpdate(c) \/ FlushDelete(c) \/ Lost(c)
  \/ Lapse
  \/ \E a \in asks : LookInRedis(a) \/ LookInMongo(a) \/ LookupFails(a) \/ WorkerTakes(a)
  \/ LinkUp \/ LinkDown \/ PageTakes \/ Tick \/ presenceClearedForUser \/ ChangeVisibility

PresenceSpec == PresenceInit /\ [][PresenceNext]_presenceVars

-----------------------------------------------------------------------------
(* Properties.                                                             *)

\* Who has been seen is not reported as unknown: between Redis and MongoDB a lookup
\* finds the time although the flush moves it from one to the other meanwhile.
SeenIsAnswered ==
  \A k \in DOMAIN toMain : toMain[k].kind = "answer" =>
    (toMain[k].answer = "not_available" => ~toMain[k].ask.knew \/ broken)

\* No connection is open and what the closed ones sent or started has ended.
Offline == \A c \in Connections : conn[c] # "up" /\ flush[c].step = "none" /\ beat[c] = 0

\* A user whose connections have all closed is not reported online, however their
\* heartbeats and flushes crossed.
OfflineIsNotOnline == Offline /\ ~broken => redis = 0

\* ... and MongoDB holds a time no earlier than his last heartbeat, although a flush may
\* delete a heartbeat of another connection.  Not so when two flushes read before either
\* wrote: the earlier time may be written last.
LastSeenIsLast == Offline /\ ~broken /\ ~crossed => mongo >= written

\* A connected header that shows nothing is about to: its request, or the answer, is on
\* its way.  Not so once the answer of a load was lost with a connection: nothing clears
\* its flight.
HeaderIsFed ==
  header.connected /\ header.entry \notin Terminal /\ ~deaf =>
    /\ header.inflight
    /\ \/ \E a \in asks : a.for = "load"
       \/ \E k \in DOMAIN toMain : toMain[k].kind = "answer" /\ toMain[k].ask.for = "load"
=============================================================================
