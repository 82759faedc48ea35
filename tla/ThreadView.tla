----------------------------- MODULE ThreadView -----------------------------
(***************************************************************************)
(* The page of the open thread, as one viewer uses it: the log and its     *)
(* scroll position (ThreadMessageList), the scroll target that new         *)
(* messages and acknowledgements leave in the store, and what the shell    *)
(* reports as read (conversation:read for the last message of the peer,    *)
(* message:read for each one that comes into view).                        *)
(*                                                                         *)
(* A commit is one step with its layout effects and effects; the dispatch  *)
(* that an effect of useConversation makes is the next one (hydrating).    *)
(* Rows have one height, Height of them are in view.  An answer holds what *)
(* the server holds when it comes: late ones belong to MessagingStore.     *)
(***************************************************************************)
EXTENDS Naturals, SequencesExt

CONSTANTS
  Chats, NoChat,
  ChatOf,      \* [message -> its thread]
  OfViewer,    \* the messages the viewer sends
  Old,         \* [thread -> what it holds at first]
  NoMessage,
  Height,      \* rows in view
  MaxOpens, MaxScrolls, MaxMerges, MaxViewFaults   \* bounds

ASSUME ViewAssumption ==
  /\ Height \in Nat \ {0}
  /\ MaxOpens \in Nat /\ MaxScrolls \in Nat /\ MaxMerges \in Nat /\ MaxViewFaults \in Nat

Shown == DOMAIN ChatOf
OfPeer(m) == m \in Shown \ OfViewer
Pending(o) == <<"client", o>>
NoTarget == NoMessage
NoData == <<NoMessage>>

\* Ids of messages are unique in all threads, and those the client makes are of their own.
ASSUME ThreadsAssumption ==
  /\ NoChat \notin Chats /\ ChatOf \in [Shown -> Chats] /\ OfViewer \subseteq Shown
  /\ NoMessage \notin Shown /\ \A o \in OfViewer : Pending(o) \notin Shown \cup {NoMessage}
  /\ Old \in [Chats -> Seq(Shown)]
  /\ \A c \in Chats : \A i, j \in DOMAIN Old[c] :
       ChatOf[Old[c][i]] = c /\ (Old[c][i] = Old[c][j] => i = j)

VARIABLES
  log,        \* server: the messages of a thread, oldest first
  seen,       \* server: messages with a seenAt of the viewer
  heard,      \* history: receipts the server has handled, as <<event, message>>
  news,       \* message:new events on their way
  linked,     \* the socket is connected
  open,       \* activeConversationId
  asked, failed, page,      \* SWR, by thread: a request, an error, the data
  hydrating,  \* the effect of useConversation is about to dispatch
  sending,    \* useSendMessage: awaits the acknowledgement
  rowsOf,     \* messageIdsByConversationId
  mine,       \* messages known to be seen by the viewer (receiptsByMessageId)
  target,     \* scrollTargetMessageId
  bottom,     \* the lowest row in view, 0 without a log
  pinned, tail,             \* pinnedToBottomRef, prevMessageTailRef
  cursorKey, shownRead,             \* conversationReadCursorKeyRef, messageReadEmittedRef
  fired,      \* rows whose observer has fired
  calls,      \* receipts emitted, not settled
  follows,    \* history: opened, or at its end, and not taken elsewhere since by the
              \* viewer or by a target
  blank,      \* history: the log was away, and has not been scrolled since
  refused, lost,            \* history: receipts refused, or gone with a connection
  opens, scrolls, merges, viewFaults

serverOfView == <<log, seen, heard, news, linked>>
swrOfView == <<asked, failed, page>>
scrolling == <<target, bottom, pinned, tail, follows, blank>>
reporting == <<cursorKey, shownRead, fired, calls, refused, lost>>
viewBounds == <<opens, scrolls, merges, viewFaults>>
viewVars == <<serverOfView, swrOfView, open, hydrating, sending, rowsOf, mine, scrolling, reporting, viewBounds>>

Nothing == [c \in Chats |-> <<>>]

ViewInit ==
  /\ log = Old /\ heard = {} /\ news = {} /\ linked = TRUE
  /\ seen \in SUBSET {m \in Shown : \E c \in Chats : m \in Range(Old[c]) \ OfViewer}
  /\ open = NoChat /\ asked = {} /\ failed = {} /\ page = [c \in Chats |-> NoData]
  /\ hydrating = FALSE /\ sending = {} /\ rowsOf = Nothing /\ mine = {}
  /\ target = NoTarget /\ bottom = 0 /\ pinned = TRUE /\ tail = <<0, NoMessage>>
  /\ follows = TRUE /\ blank = FALSE
  /\ cursorKey = NoMessage /\ shownRead = {} /\ fired = {} /\ calls = {} /\ refused = {} /\ lost = {}
  /\ opens = 0 /\ scrolls = 0 /\ merges = 0 /\ viewFaults = 0

ViewFault == viewFaults < MaxViewFaults /\ viewFaults' = viewFaults + 1

-----------------------------------------------------------------------------
(* A commit: the log, then the reports.  Both are used once the variables   *)
(* they read are assigned.                                                 *)

\* The log is rendered: neither the error, nor the loading line, nor the empty label.
Logged == open # NoChat /\ open \notin failed /\ rowsOf[open] # <<>>
Rows == rowsOf[open]
InView == {Rows[i] : i \in {j \in DOMAIN Rows : j <= bottom /\ j + Height > bottom}}

TargetChat(m) == IF m = NoTarget THEN NoChat ELSE ChatOf[m]

\* scrollIntoView({ block: 'nearest' }) of row i.
Index(rows, m) == CHOOSE i \in DOMAIN rows : rows[i] = m
Nearest(b, i) == Max({Min({b, i + Height - 1}), i})

M_anyTarget(want, last) == TargetChat(want) = open'
reduxScrollOwnsTail(want, last) == TargetChat(want) = open' /\ want = last

\* The layout effects of ThreadMessageList: the jump to the tail, then the target.
\* Without a log the refs keep what the thread before left in them.
Scrolled(want) ==
  LET opened == open' # open
      rows == Rows'
      len == Len(rows)
      last == rows[len]
      was == IF Logged THEN Min({Max({bottom, Height}), len}) ELSE Min({Height, len})
      jumps == /\ opened \/ (pinned /\ tail # <<len, last>>)
               /\ ~reduxScrollOwnsTail(want, last)
      there == IF jumps THEN len ELSE was
      ready == TargetChat(want) = open' /\ want \in Range(rows)
  IN IF open' = NoChat
     THEN /\ bottom' = 0 /\ pinned' = TRUE /\ tail' = <<0, NoMessage>>
          /\ target' = want /\ follows' = TRUE /\ blank' = FALSE
     ELSE IF ~Logged'
     THEN /\ bottom' = 0 /\ blank' = TRUE /\ target' = want
          /\ follows' = (opened \/ follows)
          /\ UNCHANGED <<pinned, tail>>
     ELSE /\ tail' = <<len, last>>
          /\ bottom' = IF ready THEN Nearest(there, Index(rows, want)) ELSE there
          /\ pinned' = IF ready THEN bottom' = len ELSE opened \/ pinned
          /\ target' = IF ready THEN NoTarget ELSE want
          /\ follows' = IF ready THEN pinned' ELSE opened \/ follows
          /\ blank' = (blank /\ ~opened /\ ~jumps /\ ~ready)

\* The last row that is the peer's; optimistic rows and the viewer's own do not count.
LastOfPeer(rows) ==
  LET theirs == SelectSeq(rows, OfPeer) IN IF theirs = <<>> THEN NoMessage ELSE Last(theirs)

messagesLoading == open \in asked /\ page[open] = NoData

Receipt(event, m) == [event |-> event, msg |-> m, opening |-> opens']

\* A new thread clears the refs; what the receipts tell is put into them
\* (hydratePeerReadDedupeFromReceipts); then the last message is reported, once.
M_keepRefs == cursorKey
KeptCursor == IF open' # open THEN NoMessage ELSE cursorKey
Reported ==
  LET opened == open' # open
      rows == IF open' = NoChat THEN <<>> ELSE Rows'
      last == LastOfPeer(rows)
      known == IF rows # <<>> /\ Last(rows) \in mine' THEN Last(rows) ELSE KeptCursor
      effect == last # NoMessage /\ ~messagesLoading'
      emits == effect /\ last \notin mine' /\ known # last
  IN /\ shownRead' = (IF opened THEN {} ELSE shownRead) \cup (Range(rows) \cap mine')
     /\ cursorKey' = IF effect THEN last ELSE known
     /\ calls' = calls \cup (IF emits THEN {Receipt("conversation:read", last)} ELSE {})
     /\ fired' = IF opened \/ merges' # merges \/ mine' # mine \/ ~Logged' THEN {}
                 ELSE fired \cap Range(rows)
     /\ refused' = {r \in refused : r[1] = "message:read"}
     /\ lost' = IF opened THEN {} ELSE lost

Commit(want) == Scrolled(want) /\ Reported

-----------------------------------------------------------------------------
(* The peer, the server and the connection.                                *)

PeerSends(m) ==
  /\ OfPeer(m) /\ m \notin Range(log[ChatOf[m]])
  /\ log' = [log EXCEPT ![ChatOf[m]] = Append(@, m)]
  /\ news' = IF linked THEN news \cup {m} ELSE news
  /\ UNCHANGED <<seen, heard, linked, swrOfView, open, hydrating, sending, rowsOf, mine, scrolling, reporting, viewBounds>>

Handled(k) ==
  /\ linked /\ k \in calls
  /\ calls' = calls \ {k}
  /\ heard' = heard \cup {<<k.event, k.msg>>}
  /\ seen' = IF k.event = "message:read" THEN seen \cup {k.msg} ELSE seen
  /\ UNCHANGED <<log, news, linked, swrOfView, open, hydrating, sending, rowsOf, mine, scrolling,
                 cursorKey, shownRead, fired, refused, lost, viewBounds>>

\* The worker is not connected, or the server answers with an error.
ForgetKey(k) == cursorKey' = IF cursorKey = k.msg THEN NoMessage ELSE cursorKey
Refused(k) ==
  /\ k \in calls
  /\ (~linked /\ UNCHANGED viewFaults) \/ (linked /\ ViewFault)
  /\ calls' = calls \ {k}
  /\ refused' = refused \cup {<<k.event, k.msg>>}
  /\ IF k.event = "conversation:read"
     THEN ForgetKey(k) /\ UNCHANGED shownRead
     ELSE shownRead' = shownRead \ {k.msg} /\ UNCHANGED cursorKey
  /\ UNCHANGED <<serverOfView, swrOfView, open, hydrating, sending, rowsOf, mine, scrolling, fired, lost,
                 opens, scrolls, merges>>

\* What was emitted is never settled, whether or not it was handled.
Drops ==
  /\ linked /\ ViewFault /\ linked' = FALSE
  /\ lost' = lost \cup {<<k.event, k.msg>> : k \in calls}
  /\ calls' = {}
  /\ UNCHANGED <<log, seen, heard, news, swrOfView, open, hydrating, sending, rowsOf, mine, scrolling,
                 cursorKey, shownRead, fired, refused, opens, scrolls, merges>>

Returns ==
  /\ ~linked /\ linked' = TRUE
  /\ UNCHANGED <<log, seen, heard, news, swrOfView, open, hydrating, sending, rowsOf, mine, scrolling, reporting, viewBounds>>

-----------------------------------------------------------------------------
(* The store.                                                              *)

Stable == ~hydrating
Mounted(c) == IF c = open THEN {c} ELSE {}
Known == UNION {Range(rowsOf[c]) : c \in Chats}

\* message_new: appendIncomingMessageIfNew, the listener that leaves a scroll
\* target if the message is new, whichever thread is open, and mutate.
MessageArrives(m) ==
  /\ Stable /\ m \in news
  /\ news' = news \ {m}
  /\ asked' = asked \cup Mounted(ChatOf[m])
  /\ UNCHANGED <<log, seen, heard, linked, failed, page, open, hydrating, sending, mine, viewBounds>>
  /\ IF m \in Known THEN UNCHANGED <<rowsOf, scrolling, reporting>>
     ELSE rowsOf' = [rowsOf EXCEPT ![ChatOf[m]] = Append(@, m)] /\ Commit(m)

\* useSendMessage: an optimistic row ...
SendsOwn(o) ==
  /\ Stable /\ o \in OfViewer /\ open = ChatOf[o]
  /\ o \notin Range(log[open]) /\ sending = {} /\ sending' = {o}
  /\ rowsOf' = [rowsOf EXCEPT ![open] = Append(@, Pending(o))]
  /\ UNCHANGED <<serverOfView, swrOfView, open, hydrating, mine, viewBounds>>
  /\ Commit(target)

\* ... that the acknowledgement replaces, or a new row if a load has removed it.
Acknowledged(o) ==
  /\ Stable /\ linked /\ o \in sending /\ sending' = sending \ {o}
  /\ log' = [log EXCEPT ![ChatOf[o]] = Append(@, o)]
  /\ asked' = asked \cup Mounted(ChatOf[o])
  /\ rowsOf' = [rowsOf EXCEPT ![ChatOf[o]] =
                  IF Pending(o) \in Range(@) THEN ReplaceAll(@, Pending(o), o) ELSE Append(@, o)]
  /\ UNCHANGED <<seen, heard, news, linked, failed, page, open, hydrating, mine, viewBounds>>
  /\ Commit(o)

\* setActiveConversationId.  SWR loads the thread, unless it did so just before, and
\* the data it kept are dispatched again.
Opens(c) ==
  /\ Stable /\ c # open /\ opens < MaxOpens
  /\ open' = c
  /\ IF c = NoChat THEN UNCHANGED <<opens, asked>> /\ hydrating' = FALSE
     ELSE /\ opens' = opens + 1
          /\ asked' = asked \cup {c} \/ (page[c] # NoData /\ UNCHANGED asked)
          /\ hydrating' = (page[c] # NoData)
  /\ UNCHANGED <<serverOfView, failed, page, sending, rowsOf, mine, scrolls, merges, viewFaults>>
  /\ Commit(target)

\* The rows are replaced by the data; receipts of rows that go are forgotten.
hydrateMessages ==
  /\ hydrating /\ hydrating' = FALSE
  /\ rowsOf' = [rowsOf EXCEPT ![open] = page[open]]
  /\ mine' = mine \ (Range(Rows) \ Range(page[open]))
  /\ UNCHANGED <<serverOfView, swrOfView, open, sending, viewBounds>>
  /\ Commit(target)

\* The log comes back at its top when only an error has gone: no effect runs.
Uncovered ==
  /\ bottom' = Min({Height, Len(Rows)})
  /\ UNCHANGED <<target, pinned, tail, follows, blank, reporting>>

Loads(c) ==
  /\ Stable /\ c \in asked
  /\ asked' = asked \ {c} /\ failed' = failed \ {c}
  /\ page' = [page EXCEPT ![c] = log[c]]
  /\ hydrating' = (c = open /\ page' # page)
  /\ UNCHANGED <<serverOfView, open, sending, rowsOf, mine, viewBounds>>
  /\ IF c # open THEN UNCHANGED <<scrolling, reporting>>
     ELSE IF page[c] = NoData THEN Commit(target)
     ELSE IF c \in failed THEN Uncovered
     ELSE UNCHANGED <<scrolling, reporting>>

LoadFails(c) ==
  /\ Stable /\ c \in asked /\ ViewFault
  /\ asked' = asked \ {c} /\ failed' = failed \cup {c}
  /\ UNCHANGED <<serverOfView, page, open, hydrating, sending, rowsOf, mine, opens, scrolls, merges>>
  /\ IF c # open THEN UNCHANGED <<scrolling, reporting>>
     ELSE /\ Scrolled(target)
          /\ IF page[c] = NoData THEN Reported
             ELSE fired' = {} /\ UNCHANGED <<cursorKey, shownRead, calls, refused, lost>>

Retries(c) ==
  /\ Stable /\ c = open /\ c \in failed \ asked
  /\ asked' = asked \cup {c}
  /\ UNCHANGED <<serverOfView, failed, page, open, hydrating, sending, rowsOf, mine, scrolling, reporting, viewBounds>>

\* GET /message-receipts, a receipt of the peer, or one of the viewer's from another
\* device: receiptsByMessageId is another object, and every observer is made again.
ReceiptsMerged ==
  /\ Stable /\ merges < MaxMerges /\ merges' = merges + 1
  /\ \E more \in SUBSET {m \in Known : OfPeer(m)} :
       seen' = seen \cup more /\ mine' = mine \cup more
  /\ UNCHANGED <<log, heard, news, linked, swrOfView, open, hydrating, sending, rowsOf, opens, scrolls, viewFaults>>
  /\ Commit(target)

-----------------------------------------------------------------------------
(* The viewer and the timers of the log.                                   *)

\* onScrollLog.
ScrollsTo(b) ==
  /\ Stable /\ Logged /\ scrolls < MaxScrolls /\ scrolls' = scrolls + 1
  /\ b \in Min({Height, Len(Rows)}) .. Len(Rows) /\ b # bottom
  /\ bottom' = b
  /\ pinned' = (b = Len(Rows)) /\ follows' = pinned' /\ blank' = FALSE
  /\ UNCHANGED <<serverOfView, swrOfView, open, hydrating, sending, rowsOf, mine, target, tail, reporting,
                 opens, merges, viewFaults>>

\* onPeerMessageVisible, called by the observer of a row.
RowSeen(m) ==
  /\ Stable /\ Logged /\ OfPeer(m) /\ m \in InView \ fired
  /\ fired' = fired \cup {m} /\ shownRead' = shownRead \cup {m}
  /\ refused' = refused \ {<<"message:read", m>>}
  /\ calls' = IF m \in mine \cup shownRead THEN calls
              ELSE calls \cup {[event |-> "message:read", msg |-> m, opening |-> opens]}
  /\ UNCHANGED <<serverOfView, swrOfView, open, hydrating, sending, rowsOf, mine, scrolling, cursorKey, lost, viewBounds>>

\* The target of a log that was away: tried every 50 ms, given up after 4 s.
TargetRetried ==
  /\ Stable /\ open # NoChat /\ TargetChat(target) = open
  /\ target' = NoTarget
  /\ IF Logged /\ target \in Range(Rows)
     THEN /\ bottom' = Nearest(bottom, Index(Rows, target))
          /\ pinned' = (bottom' = Len(Rows)) /\ follows' = pinned' /\ blank' = FALSE
     ELSE UNCHANGED <<bottom, pinned, follows, blank>>
  /\ UNCHANGED <<serverOfView, swrOfView, open, hydrating, sending, rowsOf, mine, tail, reporting, viewBounds>>

ViewNext ==
  \/ \E m \in Shown : \/ PeerSends(m) \/ MessageArrives(m) \/ SendsOwn(m) \/ Acknowledged(m)
                      \/ RowSeen(m)
  \/ \E k \in calls : Handled(k) \/ Refused(k)
  \/ Drops \/ Returns
  \/ \E c \in Chats \cup {NoChat} : Opens(c)
  \/ \E c \in Chats : Loads(c) \/ LoadFails(c) \/ Retries(c)
  \/ hydrateMessages \/ ReceiptsMerged \/ TargetRetried
  \/ \E b \in 1 .. Cardinality(Shown) : ScrollsTo(b)

ViewSpec == ViewInit /\ [][ViewNext]_viewVars

-----------------------------------------------------------------------------
(* Properties.                                                             *)

\* What the viewer has before him is reported: the last message of the peer in an
\* open thread, and each one in view once its observer has fired, has been
\* seen by the server's account, or was or is being reported.  Refused reports wait for the next effect or
\* observer, lost ones for the next opening of the thread.
Reports(event, m) ==
  \/ m \in seen
  \/ <<event, m>> \in heard \cup refused \cup lost
  \/ \E k \in calls : k.event = event /\ k.msg = m
ReadIsReported ==
  open # NoChat =>
    /\ LET last == LastOfPeer(Rows) IN
         last # NoMessage /\ ~messagesLoading => Reports("conversation:read", last)
    /\ \A m \in InView \cap fired : Reports("message:read", m)

\* The tail is in view for a viewer who opened the thread and has not scrolled away
\* from it, whatever arrives, unless the log was replaced by a line of text meanwhile.
AtTail == Logged => bottom = Len(Rows)
TailFollowed == follows /\ ~blank => AtTail
=============================================================================
