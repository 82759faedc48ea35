------------------------------- MODULE Threads ------------------------------
(***************************************************************************)
(* The conversations of one user with his peers and the list of them that  *)
(* a tab of his keeps: first messages that create the thread of a pair,    *)
(* later ones that move it to the top, guest threads that expire, and the  *)
(* list as fetches and bumps leave it.                                     *)
(*                                                                         *)
(* Threads are numbered as they are made, messages as they are stored, and *)
(* the number of a message is its createdAt.  The peers are fewer than a   *)
(* page of the list holds.                                                 *)
(***************************************************************************)
EXTENDS Naturals, Sequences, FiniteSets

CONSTANTS
  Peers,
  MaxSends,         \* bound: messages sent by anybody
  MaxExpiries,      \* bound: threads the TTL index removes
  MaxFailures,      \* bound: failed database operations and list requests
  MaxChoices        \* bound: threads and search hits the user of the tab selects

ASSUME ThreadsAssumption ==
  MaxSends \in Nat /\ MaxExpiries \in Nat /\ MaxFailures \in Nat /\ MaxChoices \in Nat

VARIABLES
  made,       \* the peer of every thread ever created
  rows,       \* the collection: updatedAt of the threads that exist
  messages,   \* stored messages
  sends,      \* handlers of sends
  sent,       \* sends made
  list,       \* the list of the tab: updatedAt of the threads shown
  loaded,     \* whether it has been fetched
  fetch,      \* the last request for it, and whether its answer will be taken
  retry,      \* a failed request is to be repeated
  news,       \* message:new events on their way to the tab
  acks,       \* settled sends of the tab
  view,       \* what the page shows: a thread, a peer without one, or neither; and the
              \* first message its composer is sending
  choices, failures,
  told,       \* history: threads the tab has heard of or written in
  bumped,     \* history: the time of the message each thread was bumped to last
  moved,      \* history: an overlapping send moved updatedAt back
  expired,    \* history: a thread has expired
  refused,    \* history: a send was refused although no operation failed
  dropped     \* history: an answer that was to show a new thread has been discarded

databaseVars == <<made, rows, messages, sends, sent, moved, expired, refused>>
pageVars == <<list, loaded, fetch, retry, view, choices, told, bumped, dropped>>
threadsVars == <<made, rows, messages, sends, sent, list, loaded, fetch, retry, news, acks,
                 view, choices, failures, told, bumped, moved, expired, refused, dropped>>

MaxThreads == Cardinality(Peers) + MaxExpiries
Thread == 1 .. MaxThreads
Stamp == 0 .. MaxSends
Empty == [c \in {} |-> 0]
ListsOf == UNION {[S -> Stamp] : S \in SUBSET Thread}
Step == {"find", "load", "insert", "refind", "reload", "lookup", "message", "touch", "publish"}
Send == [n : 1 .. MaxSends, tab : BOOLEAN, first : BOOLEAN, peer : Peers, step : Step,
         conv : 0 .. MaxThreads, at : Stamp]

ThreadsTypeOK ==
  /\ Len(made) <= MaxThreads /\ \A c \in DOMAIN made : made[c] \in Peers
  /\ rows \in ListsOf /\ list \in ListsOf /\ loaded \in BOOLEAN
  /\ messages \subseteq [peer : Peers, conv : Thread, at : Stamp]
  /\ sends \subseteq Send /\ sent \in Stamp
  /\ fetch \in [step : {"none", "asked", "read"}, rows : ListsOf, valid : BOOLEAN]
  /\ retry \in BOOLEAN
  /\ news \subseteq [conv : Thread, at : Stamp]
  /\ acks \subseteq [ok : BOOLEAN, send : Send]
  /\ view \in [pending : {S \in SUBSET Peers : Cardinality(S) <= 1}, active : 0 .. MaxThreads,
               sending : Stamp]
  /\ told \subseteq Thread /\ bumped \in ListsOf

NoFetch == [step |-> "none", rows |-> Empty, valid |-> FALSE]
Asked == [step |-> "asked", rows |-> Empty, valid |-> TRUE]

\* The home page opens: the list is requested, no thread is selected.
ThreadsInit ==
  /\ made = <<>> /\ rows = Empty /\ messages = {} /\ sends = {} /\ sent = 0
  /\ list = Empty /\ loaded = FALSE /\ fetch = Asked /\ retry = FALSE
  /\ news = {} /\ acks = {}
  /\ view = [pending |-> {}, active |-> 0, sending |-> 0]
  /\ choices = 0 /\ failures = 0
  /\ told = {} /\ bumped = Empty
  /\ moved = FALSE /\ expired = FALSE /\ refused = FALSE /\ dropped = FALSE

-----------------------------------------------------------------------------
(* Sends.                                                                  *)

RowsOf(p) == {c \in DOMAIN rows : made[c] = p}
Fresh(tab, p, c) ==
  [n |-> sent + 1, tab |-> tab, first |-> c = 0, peer |-> p,
   step |-> IF c = 0 THEN "find" ELSE "lookup", conv |-> c, at |-> 0]

\* The handler goes on at a step with a thread.
GoesOn(s, step, c) == sends' = (sends \ {s}) \cup {[s EXCEPT !.step = step, !.conv = c]}

Ends(s, ok) ==
  /\ sends' = sends \ {s}
  /\ acks' = IF s.tab THEN acks \cup {[ok |-> ok, send |-> s]} ELSE acks

\* AppError or a rethrown error of the insert.
Refuses(s) == Ends(s, FALSE) /\ refused' = TRUE

\* findDirectConversationIdBetween, before the insert and after it was refused.
Find(s) ==
  /\ s.step \in {"find", "refind"}
  /\ IF RowsOf(s.peer) # {}
     THEN /\ \E c \in RowsOf(s.peer) : GoesOn(s, IF s.step = "find" THEN "load" ELSE "reload", c)
          /\ UNCHANGED <<acks, refused>>
     ELSE IF s.step = "find" THEN GoesOn(s, "insert", 0) /\ UNCHANGED <<acks, refused>>
     ELSE Refuses(s)
  /\ UNCHANGED <<made, rows, messages, sent, moved, expired, pageVars, news, failures>>

\* findOne({id}) of the thread just found; it may have expired meanwhile.
Load(s) ==
  /\ s.step \in {"load", "reload"}
  /\ IF s.conv \in DOMAIN rows THEN GoesOn(s, "message", s.conv) /\ UNCHANGED <<acks, refused>>
     ELSE IF s.step = "load" THEN GoesOn(s, "insert", 0) /\ UNCHANGED <<acks, refused>>
     ELSE Refuses(s)
  /\ UNCHANGED <<made, rows, messages, sent, moved, expired, pageVars, news, failures>>

\* Mutant: the loser of the unique index does not look for the winner's row.
M_InsertThread(s) ==
  LET c == Len(made) + 1 IN
  /\ s.step = "insert"
  /\ IF RowsOf(s.peer) # {}
     THEN Refuses(s) /\ UNCHANGED <<made, rows>>
     ELSE /\ made' = Append(made, s.peer)
          /\ rows' = [d \in DOMAIN rows \cup {c} |-> IF d = c THEN Cardinality(messages) ELSE rows[d]]
          /\ GoesOn(s, "message", c)
          /\ UNCHANGED <<acks, refused>>
  /\ UNCHANGED <<messages, sent, moved, expired, pageVars, news, failures>>

\* insertOne of a new thread: the unique index of the pair refuses a second one (11000).
InsertThread(s) ==
  LET c == Len(made) + 1 IN
  /\ s.step = "insert"
  /\ IF RowsOf(s.peer) # {}
     THEN GoesOn(s, "refind", 0) /\ UNCHANGED <<made, rows>>
     ELSE /\ made' = Append(made, s.peer)
          /\ rows' = [d \in DOMAIN rows \cup {c} |-> IF d = c THEN Cardinality(messages) ELSE rows[d]]
          /\ GoesOn(s, "message", c)
  /\ UNCHANGED <<messages, sent, moved, expired, acks, refused, pageVars, news, failures>>

\* lookupConversationById, for a send that names its thread.
Lookup(s) ==
  /\ s.step = "lookup"
  /\ IF s.conv \in DOMAIN rows THEN GoesOn(s, "message", s.conv) /\ UNCHANGED <<acks, refused>>
     ELSE Refuses(s)
  /\ UNCHANGED <<made, rows, messages, sent, moved, expired, pageVars, news, failures>>

\* insertMessage stores the message ...
InsertMessage(s) ==
  LET at == Cardinality(messages) + 1 IN
  /\ s.step = "message"
  /\ messages' = messages \cup {[peer |-> s.peer, conv |-> s.conv, at |-> at]}
  /\ sends' = (sends \ {s}) \cup {[s EXCEPT !.step = "touch", !.at = at]}
  /\ UNCHANGED <<made, rows, sent, moved, expired, acks, refused, pageVars, news, failures>>

\* ... and sets updatedAt of its thread, if there still is one.
Touch(s) ==
  LET exists == s.conv \in DOMAIN rows IN
  /\ s.step = "touch"
  /\ rows' = IF exists THEN [rows EXCEPT ![s.conv] = s.at] ELSE rows
  /\ moved' = (moved \/ (exists /\ rows[s.conv] > s.at))
  /\ GoesOn(s, "publish", s.conv)
  /\ UNCHANGED <<made, messages, sent, expired, acks, refused, pageVars, news, failures>>

\* A peer's message, or one of another device of the user, is announced to the tab; the
\* tab's own is acknowledged.
Publish(s) ==
  /\ s.step = "publish"
  /\ Ends(s, TRUE)
  /\ news' = IF s.tab THEN news ELSE news \cup {[conv |-> s.conv, at |-> s.at]}
  /\ UNCHANGED <<made, rows, messages, sent, moved, expired, refused, pageVars, failures>>

\* The operation of a step fails, and with it the send.
SendFails(s) ==
  /\ failures < MaxFailures /\ failures' = failures + 1
  /\ Ends(s, FALSE)
  /\ UNCHANGED <<made, rows, messages, sent, moved, expired, refused, pageVars, news>>

\* Another client of the pair sends, to the recipient or in the thread.
OthersSend(p, c) ==
  /\ sent < MaxSends /\ (c # 0 => c \in DOMAIN made /\ made[c] = p)
  /\ sends' = sends \cup {Fresh(FALSE, p, c)} /\ sent' = sent + 1
  /\ UNCHANGED <<made, rows, messages, moved, expired, acks, refused, pageVars, news, failures>>

\* guestDataExpiresAt of a thread of two guests has passed.
Expire(c) ==
  /\ Len(made) - Cardinality(DOMAIN rows) < MaxExpiries
  /\ rows' = [d \in DOMAIN rows \ {c} |-> rows[d]]
  /\ expired' = TRUE
  /\ UNCHANGED <<made, messages, sends, sent, moved, acks, refused, pageVars, news, failures>>

-----------------------------------------------------------------------------
(* The list of the tab (SWR with the key ['conversations', user]).         *)

Listed == IF loaded THEN DOMAIN list ELSE {}

\* A newer request takes the place of the one under way.
Revalidates == fetch' = Asked /\ UNCHANGED <<list, dropped>>

\* Mutant: a bump does not invalidate the request under way.
M_MovesUp(c, at) ==
  /\ list' = [list EXCEPT ![c] = at]
  /\ UNCHANGED <<fetch, dropped>>

\* Data written to the cache without revalidation: the answer under way, asked for
\* before, will be discarded.
MovesUp(c, at) ==
  /\ list' = [list EXCEPT ![c] = at]
  /\ fetch' = [fetch EXCEPT !.valid = FALSE]
  /\ dropped' = (dropped \/ (fetch.valid /\ told \ Listed # {}))

\* Mutant: a list that is loaded is not fetched again for a thread it lacks.
M_bumpConversationInListCache(c, at) ==
  IF c \in Listed THEN MovesUp(c, at)
  ELSE IF loaded THEN UNCHANGED <<list, fetch, dropped>> ELSE Revalidates

bumpConversationInListCache(c, at) ==
  IF c \in Listed THEN MovesUp(c, at) ELSE Revalidates

\* GET /conversations reads the collection.
ReadList ==
  /\ fetch.step = "asked"
  /\ fetch' = [fetch EXCEPT !.step = "read", !.rows = rows]
  /\ UNCHANGED <<databaseVars, list, loaded, retry, view, choices, told, bumped, dropped, news, acks, failures>>

\* Its answer arrives.
ListArrives ==
  /\ fetch.step = "read"
  /\ fetch' = NoFetch
  /\ IF fetch.valid THEN list' = fetch.rows /\ loaded' = TRUE ELSE UNCHANGED <<list, loaded>>
  /\ UNCHANGED <<databaseVars, retry, view, choices, told, bumped, dropped, news, acks, failures>>

ListFails ==
  /\ fetch.step # "none" /\ failures < MaxFailures
  /\ failures' = failures + 1
  /\ fetch' = NoFetch /\ retry' = TRUE
  /\ UNCHANGED <<databaseVars, list, loaded, view, choices, told, bumped, dropped, news, acks>>

\* onErrorRetry, deduplicated with a request under way.
ListRetry ==
  /\ retry /\ retry' = FALSE
  /\ fetch' = IF fetch.step = "none" THEN Asked ELSE fetch
  /\ UNCHANGED <<databaseVars, list, loaded, view, choices, told, bumped, dropped, news, acks, failures>>

Handles(c, at) ==
  /\ bumpConversationInListCache(c, at)
  /\ told' = told \cup {c}
  /\ bumped' = [d \in DOMAIN bumped \cup {c} |-> IF d = c THEN at ELSE bumped[d]]

\* message:new.
TabHears(m) ==
  /\ news' = news \ {m}
  /\ Handles(m.conv, m.at)
  /\ UNCHANGED <<databaseVars, loaded, retry, view, choices, acks, failures>>

-----------------------------------------------------------------------------
(* The page.                                                               *)

Opens(c) == view' = [pending |-> {}, active |-> c, sending |-> 0]

\* setActiveConversationId: a row of the list, or a search hit with a thread, which the
\* search may have read long ago.
SelectThread(c) ==
  /\ choices < MaxChoices /\ choices' = choices + 1
  /\ Opens(c)
  /\ UNCHANGED <<databaseVars, list, loaded, fetch, retry, told, bumped, dropped, news, acks, failures>>

\* setPendingDirectPeer: a search hit without a thread, although there may be one by now.
SelectPeer(p) ==
  /\ choices < MaxChoices /\ choices' = choices + 1
  /\ view' = [view EXCEPT !.pending = {p}, !.active = 0]
  /\ UNCHANGED <<databaseVars, list, loaded, fetch, retry, told, bumped, dropped, news, acks, failures>>

\* handleSubmit of NewDirectThreadComposer.
SendFirst(p) ==
  /\ p \in view.pending /\ view.sending = 0 /\ sent < MaxSends
  /\ sends' = sends \cup {Fresh(TRUE, p, 0)} /\ sent' = sent + 1
  /\ view' = [view EXCEPT !.sending = sent + 1]
  /\ UNCHANGED <<made, rows, messages, moved, expired, refused, list, loaded, fetch, retry, choices,
                 told, bumped, dropped, news, acks, failures>>

SendPending(c) == \E s \in sends \cup {a.send : a \in acks} : s.tab /\ ~s.first /\ s.conv = c

\* useSendMessage in the open thread, whose peer is known from the list: the thread is
\* bumped to the time of the moment.
SendInThread(c) ==
  /\ c = view.active /\ c \in Listed /\ ~SendPending(c) /\ sent < MaxSends
  /\ sends' = sends \cup {Fresh(TRUE, made[c], c)} /\ sent' = sent + 1
  /\ MovesUp(c, Cardinality(messages))
  /\ UNCHANGED <<made, rows, messages, moved, expired, refused, loaded, retry, view, choices,
                 told, bumped, news, acks, failures>>

\* The promise of a send settles: a first message opens its thread and revalidates the
\* list, a later one bumps its thread; an error leaves the list as it is.
TabSettles(a) ==
  LET s == a.send IN
  /\ acks' = acks \ {a}
  /\ IF s.first
     THEN IF a.ok THEN Revalidates /\ Opens(s.conv) /\ told' = told \cup {s.conv} /\ UNCHANGED bumped
          ELSE /\ view' = [view EXCEPT !.sending = IF @ = s.n THEN 0 ELSE @]
               /\ UNCHANGED <<list, fetch, dropped, told, bumped>>
     ELSE /\ IF a.ok THEN Handles(s.conv, s.at)
             ELSE UNCHANGED <<list, fetch, dropped, told, bumped>>
          /\ UNCHANGED view
  /\ UNCHANGED <<databaseVars, loaded, retry, choices, news, failures>>

ThreadsNext ==
  \/ \E s \in sends : \/ Find(s) \/ Load(s) \/ InsertThread(s) \/ Lookup(s) \/ InsertMessage(s)
                      \/ Touch(s) \/ Publish(s) \/ SendFails(s)
  \/ \E p \in Peers : \/ \E c \in 0 .. MaxThreads : OthersSend(p, c)
                      \/ SelectPeer(p) \/ SendFirst(p)
  \/ \E c \in DOMAIN rows : Expire(c)
  \/ \E c \in DOMAIN made : SelectThread(c) \/ SendInThread(c)
  \/ \E m \in news : TabHears(m)
  \/ \E a \in acks : TabSettles(a)
  \/ ReadList \/ ListArrives \/ ListFails \/ ListRetry

ThreadsSpec == ThreadsInit /\ [][ThreadsNext]_threadsVars

-----------------------------------------------------------------------------
(* Properties.                                                             *)

\* As long as nothing expires, first messages that cross end in the one thread of their
\* pair: none is refused for losing the race (findOrCreateDirectConversation), and every
\* message stored belongs to the thread that stands for its pair.
OneThread ==
  ~expired =>
    /\ ~refused
    /\ \A m \in messages : RowsOf(m.peer) = {m.conv}

\* A thread the tab has heard of or written in is listed or about to be: an answer that
\* contains it, or a request or a repetition that will fetch it, is still to come
\* (bumpConversationInListCache).  Not so when a bump of another thread discarded that
\* answer: nothing asks again.
ThreadsAppear ==
  \A c \in told : ~dropped /\ c \in DOMAIN rows =>
    \/ c \in Listed
    \/ retry
    \/ fetch.valid /\ (fetch.step = "asked" \/ c \in DOMAIN fetch.rows)

\* A fetch does not take a thread back behind a message the tab has handled: answers read
\* before are discarded.  Overlapping sends may move updatedAt itself back.
BumpNotUndone == ~moved => \A c \in Listed \cap DOMAIN bumped : list[c] >= bumped[c]
=============================================================================
