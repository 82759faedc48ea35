----------------------------- MODULE HomeProofs -----------------------------
(***************************************************************************)
(* The components of the home page and of the settings, for any number of  *)
(* peers, files, pages, messages, sends and faults.  Presence: the time of *)
(* a user moves from Redis to MongoDB in two steps, so whoever has been    *)
(* seen is in one of the two stores at any moment, and what is in Redis    *)
(* has an open connection or a flush that will delete it.  Threads: the    *)
(* unique index keeps the rows apart, a send that lost the race finds the  *)
(* winner's row as long as nothing expires, and what a thread was moved up *)
(* for stays in the list of the tab.  Composer: what is sent carries the   *)
(* file that is shown.  Profile: what is saved is what was edited.         *)
(* MessageText: at rest no row that could be read waits to be decrypted.   *)
(***************************************************************************)
EXTENDS Presence, Threads, Composer, Profile, MessageText, FiniteSetTheorems, TLAPS

-----------------------------------------------------------------------------
(* The threads of a pair.                                                  *)

SendShape == [n : Nat, tab : BOOLEAN, first : BOOLEAN, peer : Peers, step : Step,
              conv : Nat, at : Nat]

\* Steps at which a handler has no thread yet.
Searching == {"find", "insert", "refind"}

\* The collection: every row is a thread made for a peer, no two for one.
Collection ==
  /\ made \in Seq(Peers) /\ DOMAIN rows \subseteq DOMAIN made
  /\ \A c, d \in DOMAIN rows : made[c] = made[d] => c = d

Stored ==
  /\ IsFiniteSet(messages)
  /\ \A m \in messages : m.conv \in DOMAIN made /\ made[m.conv] = m.peer

\* A handler works on a thread of its pair; one that was refused by the index has a row
\* to find.
Works(s) ==
  /\ s.step \notin Searching => s.conv \in DOMAIN made /\ made[s.conv] = s.peer
  /\ s.step = "refind" /\ ~expired => RowsOf(s.peer) # {}

Handlers == sent \in Nat /\ sends \subseteq SendShape /\ \A s \in sends : Works(s)

\* Without expiry the collection is all that was ever made and no send is refused.
Whole == ~expired => DOMAIN rows = DOMAIN made /\ ~refused

ThreadsInv == Collection /\ Stored /\ Handlers /\ Whole

-----------------------------------------------------------------------------
(* Handlers.                                                               *)

\* A handler that goes on changes its step and its thread only.
LEMMA Moved ==
  ASSUME NEW s \in SendShape, NEW step \in Step, NEW c \in Nat, GoesOn(s, step, c)
  PROVE  \E t \in SendShape : /\ sends' = (sends \ {s}) \cup {t}
                              /\ t.step = step /\ t.conv = c /\ t.peer = s.peer /\ t.at = s.at
<1> DEFINE t == [[s EXCEPT !.step = step] EXCEPT !.conv = c]
<1>1. t \in SendShape /\ t.step = step /\ t.conv = c /\ t.peer = s.peer /\ t.at = s.at
  BY DEF SendShape
<1>2. sends' = (sends \ {s}) \cup {t}
  BY DEF GoesOn
<1> HIDE DEF t
<1> QED
  BY <1>1, <1>2

\* A handler that goes on with a thread of its pair, or looks for one it may find.
LEMMA GoesOnKeeps ==
  ASSUME Handlers, NEW s \in sends, NEW step \in Step, NEW c \in Nat, GoesOn(s, step, c),
         UNCHANGED <<made, rows, sent, expired>>,
         step \notin Searching => c \in DOMAIN made /\ made[c] = s.peer,
         step = "refind" /\ ~expired => RowsOf(s.peer) # {}
  PROVE  Handlers'
<1>1. PICK t \in SendShape : /\ sends' = (sends \ {s}) \cup {t}
                            /\ t.step = step /\ t.conv = c /\ t.peer = s.peer
  BY Moved DEF Handlers
<1>2. \A r \in sends' : Works(r)
  BY <1>1 DEF Handlers, Works
<1>3. \A r : RowsOf(r)' = RowsOf(r)
  BY DEF RowsOf
<1> QED
  BY <1>1, <1>2, <1>3 DEF Handlers, Works

\* A handler that ends.
LEMMA EndsKeeps ==
  ASSUME Handlers, NEW s \in sends, NEW ok, Ends(s, ok), UNCHANGED <<made, rows, sent, expired>>
  PROVE  Handlers'
BY DEF Handlers, Works, Ends, RowsOf

\* A send that starts, to a recipient or in a thread of the pair.
LEMMA FreshKeeps ==
  ASSUME Handlers, NEW tab \in BOOLEAN, NEW p \in Peers, NEW c \in Nat,
         c # 0 => c \in DOMAIN made /\ made[c] = p,
         sends' = sends \cup {Fresh(tab, p, c)}, sent' = sent + 1, UNCHANGED <<made, rows, expired>>
  PROVE  Handlers'
<1> DEFINE t == Fresh(tab, p, c)
<1>1. /\ t \in SendShape /\ t.conv = c /\ t.peer = p
      /\ t.step = IF c = 0 THEN "find" ELSE "lookup"
  BY DEF Fresh, Handlers, SendShape, Step
<1>2. sends' = sends \cup {t}
  OBVIOUS
<1> HIDE DEF t
<1>3. Works(t)
  BY <1>1 DEF Works, Searching
<1>4. \A r : RowsOf(r)' = RowsOf(r)
  BY DEF RowsOf
<1> QED
  BY <1>1, <1>2, <1>3, <1>4 DEF Handlers, Works

\* The thread found or loaded is one of the pair.
LEMMA FoundThread ==
  ASSUME Collection, NEW p, NEW c \in RowsOf(p)
  PROVE  c \in Nat /\ c \in DOMAIN rows /\ c \in DOMAIN made /\ made[c] = p
BY DEF Collection, RowsOf

\* insertOne of a new thread keeps the rows of a pair apart and every handler in place.
LEMMA InsertKeeps ==
  ASSUME ThreadsInv, NEW s \in sends, InsertThread(s)
  PROVE  ThreadsInv'
<1> DEFINE c == Len(made) + 1
<1>1. CASE RowsOf(s.peer) # {}
  <2>1. GoesOn(s, "refind", 0) /\ UNCHANGED <<made, rows, messages, sent, expired, refused>>
    BY <1>1 DEF InsertThread
  <2>2. Handlers'
    BY <1>1, <2>1, GoesOnKeeps DEF ThreadsInv, Step, Searching
  <2> QED
    BY <2>1, <2>2 DEF ThreadsInv, Collection, Stored, Whole
<1>2. CASE RowsOf(s.peer) = {}
  <2>1. /\ made' = Append(made, s.peer)
        /\ DOMAIN rows' = DOMAIN rows \cup {c}
        /\ GoesOn(s, "message", c)
        /\ UNCHANGED <<messages, sent, expired, refused>>
    BY <1>2 DEF InsertThread
  <2>2. s.peer \in Peers /\ made \in Seq(Peers) /\ DOMAIN made = 1 .. Len(made) /\ c \in Nat
    BY DEF ThreadsInv, Collection, Handlers, SendShape
  <2>3. PICK t \in SendShape : /\ sends' = (sends \ {s}) \cup {t}
                              /\ t.step = "message" /\ t.conv = c /\ t.peer = s.peer
    BY <2>1, <2>2, Moved DEF ThreadsInv, Handlers, Step
  <2>4. /\ made' \in Seq(Peers) /\ DOMAIN made' = DOMAIN made \cup {c} /\ made'[c] = s.peer
        /\ \A d \in DOMAIN made : made'[d] = made[d]
    BY <2>1, <2>2
  <2>5. c \notin DOMAIN made /\ c \in Nat
    BY <2>2
  <2> HIDE DEF c
  <2>6. Collection'
    BY <1>2, <2>1, <2>4, <2>5 DEF ThreadsInv, Collection, RowsOf
  <2>7. Stored'
    BY <2>1, <2>4 DEF ThreadsInv, Stored
  <2>8. \A p : RowsOf(p) \subseteq RowsOf(p)'
    BY <2>1, <2>4 DEF RowsOf, ThreadsInv, Collection
  <2>9. Works(t)'
    BY <2>3, <2>4 DEF Works, Searching
  <2>10. ASSUME NEW r \in sends PROVE Works(r)'
    BY <2>1, <2>4, <2>8 DEF Works, ThreadsInv, Handlers
  <2>11. Handlers'
    BY <2>1, <2>3, <2>9, <2>10 DEF Handlers, ThreadsInv
  <2>12. Whole'
    BY <2>1, <2>4 DEF ThreadsInv, Whole
  <2> QED
    BY <2>6, <2>7, <2>11, <2>12 DEF ThreadsInv
<1> QED
  BY <1>1, <1>2

-----------------------------------------------------------------------------
(* The steps.                                                              *)

\* The steps of a handler.
LEMMA HandlerSteps ==
  ASSUME ThreadsInv, NEW s \in sends,
         \/ Find(s) \/ Load(s) \/ InsertThread(s) \/ Lookup(s) \/ InsertMessage(s)
         \/ Touch(s) \/ Publish(s) \/ SendFails(s)
  PROVE  ThreadsInv'
<1>1. /\ Works(s) /\ s \in SendShape /\ s.conv \in Nat /\ s.peer \in Peers
      /\ Collection /\ Stored /\ Handlers /\ Whole
  BY DEF ThreadsInv, Handlers, SendShape
<1>2. CASE Find(s)
  <2>1. UNCHANGED <<made, rows, messages, sent, expired>>
    BY <1>2 DEF Find
  <2>2. CASE RowsOf(s.peer) # {}
    <3>1. PICK c \in RowsOf(s.peer), step \in {"load", "reload"} : GoesOn(s, step, c)
      BY <1>2, <2>2 DEF Find
    <3>2. UNCHANGED refused
      BY <1>2, <2>2 DEF Find
    <3>3. Handlers'
      BY <1>1, <2>1, <3>1, FoundThread, GoesOnKeeps DEF Step
    <3> QED
      BY <1>1, <2>1, <3>2, <3>3 DEF ThreadsInv, Collection, Stored, Whole
  <2>3. CASE RowsOf(s.peer) = {} /\ s.step = "find"
    <3>1. GoesOn(s, "insert", 0) /\ UNCHANGED refused
      BY <1>2, <2>3 DEF Find
    <3>2. Handlers'
      BY <1>1, <2>1, <3>1, GoesOnKeeps DEF Step, Searching
    <3> QED
      BY <1>1, <2>1, <3>1, <3>2 DEF ThreadsInv, Collection, Stored, Whole
  <2>4. CASE RowsOf(s.peer) = {} /\ s.step = "refind"
    <3>1. Refuses(s) /\ expired
      BY <1>1, <1>2, <2>4 DEF Find, Works
    <3>2. Handlers'
      BY <1>1, <2>1, <3>1, EndsKeeps DEF Refuses
    <3> QED
      BY <1>1, <2>1, <3>1, <3>2 DEF ThreadsInv, Collection, Stored, Whole
  <2> QED
    BY <1>2, <2>2, <2>3, <2>4 DEF Find
<1>3. CASE Load(s) \/ Lookup(s)
  <2>1. UNCHANGED <<made, rows, messages, sent, expired>> /\ s.conv \in DOMAIN made /\ made[s.conv] = s.peer
    BY <1>1, <1>3 DEF Load, Lookup, Works, Searching
  <2>2. CASE s.conv \in DOMAIN rows
    <3>1. GoesOn(s, "message", s.conv) /\ UNCHANGED refused
      BY <1>3, <2>2 DEF Load, Lookup
    <3>2. Handlers'
      BY <1>1, <2>1, <3>1, GoesOnKeeps DEF Step
    <3> QED
      BY <1>1, <2>1, <3>1, <3>2 DEF ThreadsInv, Collection, Stored, Whole
  <2>3. CASE s.conv \notin DOMAIN rows
    <3>1. expired
      BY <1>1, <2>1, <2>3 DEF Whole
    <3>2. CASE GoesOn(s, "insert", 0) /\ UNCHANGED refused
      <4>1. Handlers'
        BY <1>1, <2>1, <3>2, GoesOnKeeps DEF Step, Searching
      <4> QED
        BY <1>1, <2>1, <3>2, <4>1 DEF ThreadsInv, Collection, Stored, Whole
    <3>3. CASE Refuses(s)
      <4>1. Handlers'
        BY <1>1, <2>1, <3>3, EndsKeeps DEF Refuses
      <4> QED
        BY <1>1, <2>1, <3>1, <4>1 DEF ThreadsInv, Collection, Stored, Whole
    <3> QED
      BY <1>3, <2>3, <3>2, <3>3 DEF Load, Lookup
  <2> QED
    BY <2>2, <2>3
<1>4. CASE InsertThread(s)
  BY <1>4, InsertKeeps
<1>5. CASE InsertMessage(s)
  <2> DEFINE at == Cardinality(messages) + 1
             m == [peer |-> s.peer, conv |-> s.conv, at |-> at]
             t == [[s EXCEPT !.step = "touch"] EXCEPT !.at = at]
  <2>1. /\ messages' = messages \cup {m} /\ sends' = (sends \ {s}) \cup {t}
        /\ UNCHANGED <<made, rows, sent, expired, refused>>
    BY <1>5 DEF InsertMessage
  <2>2. s.conv \in DOMAIN made /\ made[s.conv] = s.peer
    BY <1>1, <1>5 DEF InsertMessage, Works, Searching
  <2>3. at \in Nat
    BY <1>1, FS_CardinalityType DEF Stored
  <2>4. IsFiniteSet(messages')
    BY <1>1, <2>1, FS_AddElement DEF Stored
  <2> HIDE DEF at
  <2>5. t \in SendShape /\ t.step = "touch" /\ t.conv = s.conv /\ t.peer = s.peer
    BY <1>1, <2>3 DEF SendShape, Step
  <2>6. m.conv = s.conv /\ m.peer = s.peer
    OBVIOUS
  <2> HIDE DEF m, t
  <2>7. Stored'
    BY <1>1, <2>1, <2>2, <2>4, <2>6 DEF Stored
  <2>8. \A r : RowsOf(r)' = RowsOf(r)
    BY <2>1 DEF RowsOf
  <2>9. Handlers'
    BY <1>1, <2>1, <2>2, <2>5, <2>8 DEF Handlers, Works
  <2> QED
    BY <1>1, <2>1, <2>7, <2>9 DEF ThreadsInv, Collection, Whole
<1>6. CASE Touch(s)
  <2>1. /\ GoesOn(s, "publish", s.conv) /\ DOMAIN rows' = DOMAIN rows
        /\ UNCHANGED <<made, messages, sent, expired, refused>>
    BY <1>6 DEF Touch
  <2>2. s.conv \in DOMAIN made /\ made[s.conv] = s.peer
    BY <1>1, <1>6 DEF Touch, Works, Searching
  <2>3. \A r : RowsOf(r)' = RowsOf(r)
    BY <2>1 DEF RowsOf
  <2>4. PICK t \in SendShape : /\ sends' = (sends \ {s}) \cup {t}
                              /\ t.step = "publish" /\ t.conv = s.conv /\ t.peer = s.peer
    BY <1>1, <2>1, Moved DEF Step
  <2>5. Handlers'
    BY <1>1, <2>1, <2>2, <2>3, <2>4 DEF Handlers, Works
  <2> QED
    BY <1>1, <2>1, <2>5 DEF ThreadsInv, Collection, Stored, Whole
<1>7. CASE Publish(s) \/ SendFails(s)
  <2>1. UNCHANGED <<made, rows, messages, sent, expired, refused>> /\ \E ok : Ends(s, ok)
    BY <1>7 DEF Publish, SendFails
  <2>2. Handlers'
    BY <1>1, <2>1, EndsKeeps
  <2> QED
    BY <1>1, <2>1, <2>2 DEF ThreadsInv, Collection, Stored, Whole
<1> QED
  BY <1>2, <1>3, <1>4, <1>5, <1>6, <1>7

\* Sends that start: by others, the first one to a peer, and in the open thread.
LEMMA StartSteps ==
  ASSUME ThreadsInv,
         \/ \E p \in Peers : \/ \E c \in 0 .. MaxThreads : OthersSend(p, c)
                             \/ SendFirst(p)
         \/ \E c \in DOMAIN made : SendInThread(c)
  PROVE  ThreadsInv'
<1>1. UNCHANGED <<made, rows, messages, expired, refused>>
  BY DEF OthersSend, SendFirst, SendInThread
<1> DEFINE Started(tab, p, c) == /\ c # 0 => c \in DOMAIN made /\ made[c] = p
                                 /\ sends' = sends \cup {Fresh(tab, p, c)} /\ sent' = sent + 1
<1>2. \E tab \in BOOLEAN, p \in Peers, c \in Nat : Started(tab, p, c)
  <2>1. ASSUME NEW p \in Peers, NEW c \in 0 .. MaxThreads, OthersSend(p, c)
        PROVE  c \in Nat /\ Started(FALSE, p, c)
    BY <2>1 DEF OthersSend, ThreadsInv, Collection
  <2>2. ASSUME NEW p \in Peers, SendFirst(p)
        PROVE  Started(TRUE, p, 0)
    BY <2>2 DEF SendFirst
  <2>3. ASSUME NEW c \in DOMAIN made, SendInThread(c)
        PROVE  c \in Nat /\ made[c] \in Peers /\ Started(TRUE, made[c], c)
    BY <2>3 DEF SendInThread, ThreadsInv, Collection
  <2> HIDE DEF Started
  <2>4. FALSE \in BOOLEAN /\ TRUE \in BOOLEAN /\ 0 \in Nat
    OBVIOUS
  <2> QED
    BY <2>1, <2>2, <2>3, <2>4
<1>3. Handlers'
  BY <1>1, <1>2, FreshKeeps DEF ThreadsInv
<1> QED
  BY <1>1, <1>3 DEF ThreadsInv, Collection, Stored, Whole

\* guestDataExpiresAt has passed.
LEMMA ExpireKeeps ==
  ASSUME ThreadsInv, NEW c \in DOMAIN rows, Expire(c)
  PROVE  ThreadsInv'
<1>1. /\ DOMAIN rows' \subseteq DOMAIN rows /\ expired'
      /\ UNCHANGED <<made, messages, sends, sent, refused>>
  BY DEF Expire
<1> QED
  BY <1>1 DEF ThreadsInv, Collection, Stored, Handlers, Works, Whole

\* The steps of the tab and of its list leave the database alone.
LEMMA TabSteps ==
  ASSUME ThreadsInv,
         \/ \E p \in Peers : SelectPeer(p)
         \/ \E c \in DOMAIN made : SelectThread(c)
         \/ \E m \in news : TabHears(m)
         \/ \E a \in acks : TabSettles(a)
         \/ ReadList \/ ListArrives \/ ListFails \/ ListRetry
         \/ UNCHANGED threadsVars
  PROVE  ThreadsInv'
<1>1. UNCHANGED <<made, rows, messages, sends, sent, expired, refused>>
  BY DEF SelectPeer, SelectThread, TabHears, TabSettles, ReadList, ListArrives, ListFails,
         ListRetry, databaseVars, threadsVars
<1>2. \A s : Works(s)' = Works(s)
  BY <1>1 DEF Works, RowsOf
<1> QED
  BY <1>1, <1>2 DEF ThreadsInv, Collection, Stored, Handlers, Whole

-----------------------------------------------------------------------------
(* The theorems.                                                           *)

LEMMA ThreadsStarts == ThreadsInit => ThreadsInv
BY FS_EmptySet DEF ThreadsInit, ThreadsInv, Collection, Stored, Handlers, Works, Whole, Empty

LEMMA ThreadsSteps == ThreadsInv /\ [ThreadsNext]_threadsVars => ThreadsInv'
<1> SUFFICES ASSUME ThreadsInv, [ThreadsNext]_threadsVars PROVE ThreadsInv'
  OBVIOUS
<1> QED
  BY HandlerSteps, StartSteps, ExpireKeeps, TabSteps DEF ThreadsNext

\* Handlers work on threads of their pairs and rows of a pair are one, in every state.
THEOREM ThreadsInvariant == ThreadsSpec => []ThreadsInv
BY ThreadsStarts, ThreadsSteps, PTL DEF ThreadsSpec

\* findOrCreateDirectConversation: however first messages cross, no send is refused for
\* losing the race and all messages of a pair are in its one thread, as long as nothing
\* expires.
THEOREM OneThreadPerPair == ThreadsSpec => []OneThread
<1>1. ThreadsInv => OneThread
  BY DEF ThreadsInv, OneThread, Collection, Stored, Whole, RowsOf
<1> QED
  BY <1>1, ThreadsInvariant, PTL

-----------------------------------------------------------------------------
(* The list of the tab.                                                    *)

\* Messages are numbered by their count, and what is said of a thread by its messages.
Numbered ==
  LET n == Cardinality(messages) IN
  /\ \A m \in messages : m.at \in Nat /\ m.at <= n
  /\ \A s \in sends : s.at <= n
  /\ \A m \in news : m.conv \in DOMAIN made /\ m.at \in Nat /\ m.at <= n
  /\ \A a \in acks : a.ok => a.send.conv \in DOMAIN made /\ a.send.at \in Nat /\ a.send.at <= n
  /\ \A c \in DOMAIN bumped : bumped[c] \in Nat /\ bumped[c] <= n
  /\ \A c \in DOMAIN rows : rows[c] \in Nat

\* A thread that still exists has not fallen behind a message.
Reached(c, at) == c \in DOMAIN rows => at <= rows[c]

\* What the tab will hear of, and what it has handled, the collection has reached.
Ahead ==
  ~moved =>
    /\ \A s \in sends : s.step = "publish" => Reached(s.conv, s.at)
    /\ \A m \in news : Reached(m.conv, m.at)
    /\ \A a \in acks : a.ok => Reached(a.send.conv, a.send.at)
    /\ \A c \in DOMAIN bumped : Reached(c, bumped[c])

\* The list and the answer on its way hold threads that were made; the answer, read after
\* the list arrived, holds every thread of the list that still exists.
Asking ==
  /\ fetch = [step |-> fetch.step, rows |-> fetch.rows, valid |-> fetch.valid]
  /\ fetch.step \in {"none", "asked", "read"}
  /\ told \subseteq DOMAIN made /\ DOMAIN list \subseteq DOMAIN made /\ DOMAIN fetch.rows \subseteq DOMAIN made
  /\ fetch.step = "read" => Listed \cap DOMAIN rows \subseteq DOMAIN fetch.rows

\* A thread the tab waits for: a failed request leaves a repetition, and any other that
\* will not show it has been discarded by a bump.
Awaited(c) ==
  \/ c \in Listed
  \/ fetch.step = "none" /\ retry
  \/ fetch.valid /\ (fetch.step = "asked" \/ c \in DOMAIN fetch.rows)
AllAwaited == ~dropped => \A c \in told \cap DOMAIN rows : Awaited(c)

\* An answer that will be taken was read after the last bump.
AnswerIsNew ==
  ~moved /\ fetch.valid /\ fetch.step = "read" =>
    \A c \in DOMAIN fetch.rows \cap DOMAIN bumped : fetch.rows[c] >= bumped[c]

ListInv == Numbered /\ Ahead /\ Asking /\ AllAwaited /\ AnswerIsNew /\ BumpNotUndone

\* The list is not disturbed by the database: a new thread is not one the tab knows.
LEMMA PageStands ==
  ASSUME Asking, AllAwaited, AnswerIsNew, BumpNotUndone, UNCHANGED pageVars, moved => moved',
         DOMAIN made \subseteq DOMAIN made', DOMAIN rows' \cap DOMAIN made \subseteq DOMAIN rows
  PROVE  Asking' /\ AllAwaited' /\ AnswerIsNew' /\ BumpNotUndone'
BY DEF Asking, AllAwaited, Awaited, AnswerIsNew, BumpNotUndone, Listed, pageVars

\* A handler that goes on, short of announcing its message, or ends with an error.
LEMMA QuietKeeps ==
  ASSUME Numbered, Ahead, UNCHANGED <<made, rows, messages, moved, news, bumped>>,
         \A t \in sends' : t \in sends \/ (t.at <= Cardinality(messages) /\ t.step # "publish"),
         \A a \in acks' : a \in acks \/ ~a.ok
  PROVE  Numbered' /\ Ahead'
BY DEF Numbered, Ahead, Reached

LEMMA GoesOnQuiet ==
  ASSUME ThreadsInv, Numbered, Ahead, NEW s \in sends, NEW step \in Step \ {"publish"}, NEW c \in Nat,
         GoesOn(s, step, c), UNCHANGED <<made, rows, messages, moved, news, bumped, acks>>
  PROVE  Numbered' /\ Ahead'
<1>1. PICK t \in SendShape : sends' = (sends \ {s}) \cup {t} /\ t.step = step /\ t.at = s.at
  BY Moved DEF ThreadsInv, Handlers
<1>2. \A r \in sends' : r \in sends \/ (r.at <= Cardinality(messages) /\ r.step # "publish")
  BY <1>1 DEF Numbered
<1> QED
  BY <1>2, QuietKeeps

LEMMA EndsQuiet ==
  ASSUME Numbered, Ahead, NEW s \in sends, Ends(s, FALSE),
         UNCHANGED <<made, rows, messages, moved, news, bumped>>
  PROVE  Numbered' /\ Ahead'
<1>1. sends' \subseteq sends /\ \A a \in acks' : a \in acks \/ ~a.ok
  BY DEF Ends
<1> QED
  BY <1>1, QuietKeeps

LEMMA InsertThreadList ==
  ASSUME ThreadsInv, ListInv, NEW s \in sends, InsertThread(s)
  PROVE  ListInv'
<1> DEFINE c == Len(made) + 1
           n == Cardinality(messages)
<1>1. UNCHANGED <<messages, moved, news, acks, bumped, pageVars>> /\ s.step = "insert"
  BY DEF InsertThread, pageVars
<1>2. CASE RowsOf(s.peer) # {}
  <2>1. GoesOn(s, "refind", 0) /\ UNCHANGED <<made, rows>>
    BY <1>2 DEF InsertThread
  <2>2. Numbered' /\ Ahead'
    BY <1>1, <2>1, GoesOnQuiet DEF ListInv, Step
  <2> QED
    BY <1>1, <2>1, <2>2, PageStands DEF ListInv
<1>3. CASE RowsOf(s.peer) = {}
  <2>1. /\ made' = Append(made, s.peer) /\ GoesOn(s, "message", c)
        /\ rows' = [d \in DOMAIN rows \cup {c} |-> IF d = c THEN n ELSE rows[d]]
    BY <1>3 DEF InsertThread
  <2>2. /\ s.peer \in Peers /\ made \in Seq(Peers) /\ c \in Nat /\ n \in Nat
        /\ DOMAIN rows \subseteq DOMAIN made
    BY FS_CardinalityType DEF ThreadsInv, Collection, Stored, Handlers, SendShape
  <2>3. DOMAIN made' = DOMAIN made \cup {c} /\ c \notin DOMAIN made
    BY <2>1, <2>2
  <2>4. PICK t \in SendShape : sends' = (sends \ {s}) \cup {t} /\ t.step = "message" /\ t.at = s.at
    BY <2>1, <2>2, Moved DEF ThreadsInv, Handlers, Step
  <2> HIDE DEF c
  <2>5. DOMAIN rows' = DOMAIN rows \cup {c} /\ rows'[c] = n /\ \A d \in DOMAIN rows : rows'[d] = rows[d]
    BY <2>1, <2>2, <2>3
  <2>6. Numbered'
    BY <1>1, <2>2, <2>3, <2>4, <2>5 DEF ListInv, Numbered
  <2>7. \A d, at : at <= n /\ Reached(d, at) => Reached(d, at)'
    BY <2>5 DEF Reached
  <2>8. Ahead'
    BY <1>1, <2>4, <2>7 DEF ListInv, Ahead, Numbered
  <2> QED
    BY <1>1, <2>3, <2>5, <2>6, <2>8, PageStands DEF ListInv
<1> QED
  BY <1>2, <1>3

LEMMA InsertMessageList ==
  ASSUME ThreadsInv, ListInv, NEW s \in sends, InsertMessage(s)
  PROVE  ListInv'
<1> DEFINE n == Cardinality(messages)
           m == [peer |-> s.peer, conv |-> s.conv, at |-> n + 1]
           t == [[s EXCEPT !.step = "touch"] EXCEPT !.at = n + 1]
<1>1. /\ messages' = messages \cup {m} /\ sends' = (sends \ {s}) \cup {t}
      /\ UNCHANGED <<made, rows, moved, news, acks, pageVars>>
  BY DEF InsertMessage
<1>2. IsFiniteSet(messages) /\ n \in Nat /\ s \in SendShape
  BY FS_CardinalityType DEF ThreadsInv, Stored, Handlers
<1>3. m.at = n + 1
  OBVIOUS
<1>4. m \notin messages
  BY <1>2, <1>3 DEF ListInv, Numbered
<1>5. Cardinality(messages') = n + 1
  BY <1>1, <1>2, <1>4, FS_AddElement
<1>6. t.step = "touch" /\ t.at = n + 1
  BY <1>2 DEF SendShape
<1>7. UNCHANGED bumped
  BY <1>1 DEF pageVars
<1>8. \A at : at <= n /\ at \in Nat => at <= n + 1
  BY <1>2
<1>9. \A r \in sends : r.at \in Nat
  BY DEF ThreadsInv, Handlers, SendShape
<1> HIDE DEF m, t, n
<1>10. n + 1 \in Nat /\ n + 1 <= n + 1
  BY <1>2
<1>11. Numbered'
  <2> USE DEF n
  <2>1. \A r \in messages' : r.at \in Nat /\ r.at <= n + 1
    BY <1>1, <1>3, <1>8, <1>10 DEF ListInv, Numbered
  <2>2. \A r \in sends' : r.at <= n + 1
    BY <1>1, <1>6, <1>8, <1>9, <1>10 DEF ListInv, Numbered
  <2>3. \A r \in news' : r.conv \in DOMAIN made' /\ r.at \in Nat /\ r.at <= n + 1
    BY <1>1, <1>8 DEF ListInv, Numbered
  <2>4. \A a \in acks' : a.ok => a.send.conv \in DOMAIN made' /\ a.send.at \in Nat /\ a.send.at <= n + 1
    BY <1>1, <1>8 DEF ListInv, Numbered
  <2>5. \A c \in DOMAIN bumped' : bumped'[c] \in Nat /\ bumped'[c] <= n + 1
    BY <1>7, <1>8 DEF ListInv, Numbered
  <2>6. \A c \in DOMAIN rows' : rows'[c] \in Nat
    BY <1>1 DEF ListInv, Numbered
  <2> HIDE DEF n
  <2> QED
    BY <1>5, <2>1, <2>2, <2>3, <2>4, <2>5, <2>6 DEF Numbered
<1>12. Ahead'
  BY <1>1, <1>6, <1>7 DEF ListInv, Ahead, Reached
<1> QED
  BY <1>1, <1>11, <1>12, PageStands DEF ListInv

LEMMA TouchList ==
  ASSUME ThreadsInv, ListInv, NEW s \in sends, Touch(s)
  PROVE  ListInv'
<1>1. /\ GoesOn(s, "publish", s.conv) /\ DOMAIN rows' = DOMAIN rows
      /\ UNCHANGED <<made, messages, news, acks, pageVars>> /\ (moved => moved')
  BY DEF Touch
<1>2. s \in SendShape /\ s.conv \in Nat /\ s.at \in Nat
  BY DEF ThreadsInv, Handlers, SendShape
<1>3. PICK t \in SendShape : /\ sends' = (sends \ {s}) \cup {t}
                            /\ t.step = "publish" /\ t.conv = s.conv /\ t.at = s.at
  BY <1>1, <1>2, Moved DEF Step
<1>4. /\ \A c \in DOMAIN rows : rows'[c] \in Nat /\ (c # s.conv => rows'[c] = rows[c])
      /\ s.conv \in DOMAIN rows => rows'[s.conv] = s.at /\ (~moved' => rows[s.conv] <= s.at)
  <2>1. CASE s.conv \in DOMAIN rows
    <3>1. rows' = [rows EXCEPT ![s.conv] = s.at] /\ (moved' <=> moved \/ rows[s.conv] > s.at)
      BY <2>1 DEF Touch
    <3> QED
      BY <1>2, <2>1, <3>1 DEF ListInv, Numbered
  <2>2. CASE s.conv \notin DOMAIN rows
    BY <2>2 DEF Touch, ListInv, Numbered
  <2> QED
    BY <2>1, <2>2
<1>5. UNCHANGED bumped
  BY <1>1 DEF pageVars
<1>6. Numbered'
  BY <1>1, <1>3, <1>4, <1>5 DEF ListInv, Numbered
<1>7. ASSUME NEW c, NEW at \in Nat, Reached(c, at), ~moved'
      PROVE  Reached(c, at)'
  BY <1>1, <1>2, <1>4, <1>7 DEF Reached, ListInv, Numbered
<1>8. Reached(t.conv, t.at)'
  BY <1>1, <1>2, <1>3, <1>4 DEF Reached
<1>9. Ahead'
  <2> SUFFICES ASSUME ~moved' PROVE Ahead'
    BY DEF Ahead
  <2>1. \A r \in sends' : r.step = "publish" => Reached(r.conv, r.at)'
    BY <1>1, <1>3, <1>7, <1>8 DEF ListInv, Ahead, ThreadsInv, Handlers, SendShape
  <2>2. \A m \in news' : Reached(m.conv, m.at)'
    BY <1>1, <1>7 DEF ListInv, Ahead, Numbered
  <2>3. \A a \in acks' : a.ok => Reached(a.send.conv, a.send.at)'
    BY <1>1, <1>7 DEF ListInv, Ahead, Numbered
  <2>4. \A c \in DOMAIN bumped' : Reached(c, bumped[c])'
    BY <1>1, <1>5, <1>7 DEF ListInv, Ahead, Numbered
  <2> QED
    BY <2>1, <2>2, <2>3, <2>4 DEF Ahead
<1> QED
  BY <1>1, <1>6, <1>9, PageStands DEF ListInv

LEMMA PublishList ==
  ASSUME ThreadsInv, ListInv, NEW s \in sends, Publish(s)
  PROVE  ListInv'
<1>1. /\ Ends(s, TRUE) /\ s.step = "publish"
      /\ UNCHANGED <<made, rows, messages, moved, pageVars>>
      /\ news' = IF s.tab THEN news ELSE news \cup {[conv |-> s.conv, at |-> s.at]}
  BY DEF Publish
<1>2. s.at \in Nat /\ s.conv \in DOMAIN made /\ s.at <= Cardinality(messages)
  BY <1>1 DEF ThreadsInv, Handlers, SendShape, Works, Searching, ListInv, Numbered
<1>3. /\ sends' \subseteq sends
      /\ \A a \in acks' : a \in acks \/ a.send = s
      /\ \A m \in news' : m \in news \/ (m.conv = s.conv /\ m.at = s.at)
  BY <1>1 DEF Ends
<1>4. UNCHANGED bumped
  BY <1>1 DEF pageVars
<1>5. Numbered'
  BY <1>1, <1>2, <1>3, <1>4 DEF ListInv, Numbered
<1>6. Ahead'
  BY <1>1, <1>3, <1>4 DEF ListInv, Ahead, Reached
<1> QED
  BY <1>1, <1>5, <1>6, PageStands DEF ListInv

LEMMA HandlerList ==
  ASSUME ThreadsInv, ListInv, NEW s \in sends,
         \/ Find(s) \/ Load(s) \/ InsertThread(s) \/ Lookup(s) \/ InsertMessage(s)
         \/ Touch(s) \/ Publish(s) \/ SendFails(s)
  PROVE  ListInv'
<1>1. CASE Find(s) \/ Load(s) \/ Lookup(s)
  <2>1. UNCHANGED <<made, rows, messages, moved, news, pageVars>> /\ UNCHANGED bumped
    BY <1>1 DEF Find, Load, Lookup, pageVars
  <2>2. s.conv \in Nat /\ \A c \in RowsOf(s.peer) : c \in Nat
    BY FoundThread DEF ThreadsInv, Handlers, SendShape
  <2>3. \/ UNCHANGED acks /\ \E step \in Step \ {"publish"}, c \in Nat : GoesOn(s, step, c)
        \/ Ends(s, FALSE)
    <3>1. CASE Find(s)
      BY <2>2, <3>1 DEF Find, Refuses, Step
    <3>2. CASE Load(s)
      BY <2>2, <3>2 DEF Load, Refuses, Step
    <3>3. CASE Lookup(s)
      BY <2>2, <3>3 DEF Lookup, Refuses, Step
    <3> QED
      BY <1>1, <3>1, <3>2, <3>3
  <2>4. Numbered' /\ Ahead'
    BY <2>1, <2>3, GoesOnQuiet, EndsQuiet DEF ListInv
  <2> QED
    BY <2>1, <2>4, PageStands DEF ListInv
<1>2. CASE SendFails(s)
  <2>1. /\ Ends(s, FALSE) /\ UNCHANGED <<made, rows, messages, moved, news, pageVars>> /\ UNCHANGED bumped
    BY <1>2 DEF SendFails, pageVars
  <2>2. Numbered' /\ Ahead'
    BY <2>1, EndsQuiet DEF ListInv
  <2> QED
    BY <2>1, <2>2, PageStands DEF ListInv
<1> QED
  BY <1>1, <1>2, InsertThreadList, InsertMessageList, TouchList, PublishList

\* A send that starts announces nothing yet.
LEMMA FreshList ==
  ASSUME ThreadsInv, Numbered, Ahead, NEW tab, NEW p, NEW c,
         sends' = sends \cup {Fresh(tab, p, c)},
         UNCHANGED <<made, rows, messages, moved, news, acks, bumped>>
  PROVE  Numbered' /\ Ahead'
<1> DEFINE t == Fresh(tab, p, c)
<1>1. Cardinality(messages) \in Nat
  BY FS_CardinalityType DEF ThreadsInv, Stored
<1>2. t.at = 0 /\ t.step # "publish"
  BY DEF Fresh
<1> HIDE DEF t
<1>3. t.at <= Cardinality(messages)
  BY <1>1, <1>2
<1>4. \A r \in sends' : r \in sends \/ (r.at <= Cardinality(messages) /\ r.step # "publish")
  BY <1>2, <1>3 DEF t
<1> QED
  BY <1>4, QuietKeeps

\* A bump of a thread that is listed: its time is in the list, and no answer read before
\* will replace it.
LEMMA MovesUpList ==
  ASSUME Asking, AllAwaited, BumpNotUndone, NEW c \in Listed, NEW at \in Nat, MovesUp(c, at),
         UNCHANGED <<made, rows, moved, loaded, retry, told>>,
         \/ bumped' = bumped /\ (c \in DOMAIN bumped => bumped[c] \in Nat /\ bumped[c] <= at)
         \/ bumped' = [d \in DOMAIN bumped \cup {c} |-> IF d = c THEN at ELSE bumped[d]]
  PROVE  Asking' /\ AllAwaited' /\ AnswerIsNew' /\ BumpNotUndone'
<1>1. /\ list' = [list EXCEPT ![c] = at] /\ fetch' = [fetch EXCEPT !.valid = FALSE]
      /\ dropped' <=> dropped \/ (fetch.valid /\ told \ Listed # {})
  BY DEF MovesUp
<1>2. fetch'.step = fetch.step /\ fetch'.rows = fetch.rows /\ ~fetch'.valid
      /\ fetch' = [step |-> fetch'.step, rows |-> fetch'.rows, valid |-> fetch'.valid]
  BY <1>1 DEF Asking
<1>3. c \in DOMAIN list /\ loaded
  BY DEF Listed
<1>4. DOMAIN list' = DOMAIN list /\ Listed' = Listed
  BY <1>1 DEF Listed
<1>5. Asking'
  BY <1>2, <1>4 DEF Asking
<1>6. AllAwaited'
  BY <1>1, <1>2, <1>4 DEF AllAwaited, Awaited
<1>7. list'[c] = at /\ \A d \in DOMAIN list : d # c => list'[d] = list[d]
  BY <1>1, <1>3
<1>8. BumpNotUndone'
  BY <1>3, <1>4, <1>7 DEF BumpNotUndone, Listed
<1> QED
  BY <1>2, <1>5, <1>6, <1>8 DEF AnswerIsNew

\* A request anew: whatever it was for, its answer will have been read later.
LEMMA RevalidatesList ==
  ASSUME Asking, BumpNotUndone, Revalidates, UNCHANGED <<made, rows, moved, loaded>>,
         told' \subseteq DOMAIN made,
         \A d \in DOMAIN bumped' \cap Listed : d \in DOMAIN bumped /\ bumped'[d] = bumped[d]
  PROVE  Asking' /\ AllAwaited' /\ AnswerIsNew' /\ BumpNotUndone'
<1>1. /\ fetch' = [step |-> "asked", rows |-> Empty, valid |-> TRUE] /\ UNCHANGED list
      /\ DOMAIN Empty = {} /\ Listed' = Listed
  BY DEF Revalidates, Asked, Empty, Listed
<1>2. Asking'
  BY <1>1 DEF Asking
<1>3. AllAwaited'
  BY <1>1 DEF AllAwaited, Awaited
<1>4. BumpNotUndone'
  BY <1>1 DEF BumpNotUndone
<1> QED
  BY <1>1, <1>2, <1>3, <1>4 DEF AnswerIsNew

\* The tab handles a message of a thread.
LEMMA HandlesList ==
  ASSUME Asking, AllAwaited, BumpNotUndone, NEW c \in DOMAIN made, NEW at \in Nat, Handles(c, at),
         UNCHANGED <<made, rows, moved, loaded, retry>>
  PROVE  Asking' /\ AllAwaited' /\ AnswerIsNew' /\ BumpNotUndone'
<1>1. /\ told' = told \cup {c}
      /\ bumped' = [d \in DOMAIN bumped \cup {c} |-> IF d = c THEN at ELSE bumped[d]]
  BY DEF Handles
<1>2. CASE c \notin Listed
  BY <1>1, <1>2, RevalidatesList DEF Handles, bumpConversationInListCache, Asking
<1>3. CASE c \in Listed
  <2>1. MovesUp(c, at)
    BY <1>3 DEF Handles, bumpConversationInListCache
  <2>2. /\ list' = [list EXCEPT ![c] = at] /\ fetch' = [fetch EXCEPT !.valid = FALSE]
        /\ dropped' <=> dropped \/ (fetch.valid /\ told \ Listed # {})
    BY <2>1 DEF MovesUp
  <2>3. /\ fetch'.step = fetch.step /\ fetch'.rows = fetch.rows /\ ~fetch'.valid
        /\ fetch' = [step |-> fetch'.step, rows |-> fetch'.rows, valid |-> fetch'.valid]
    BY <2>2 DEF Asking
  <2>4. c \in DOMAIN list /\ loaded
    BY <1>3 DEF Listed
  <2>5. DOMAIN list' = DOMAIN list /\ Listed' = Listed
    BY <2>2 DEF Listed
  <2>6. Asking'
    BY <1>1, <2>3, <2>5 DEF Asking
  <2>7. AllAwaited'
    BY <1>1, <1>3, <2>2, <2>3, <2>5 DEF AllAwaited, Awaited
  <2>8. list'[c] = at /\ \A d \in DOMAIN list : d # c => list'[d] = list[d]
    BY <2>2, <2>4
  <2>9. BumpNotUndone'
    BY <1>1, <2>4, <2>5, <2>8 DEF BumpNotUndone, Listed
  <2> QED
    BY <2>3, <2>6, <2>7, <2>9 DEF AnswerIsNew
<1> QED
  BY <1>2, <1>3

\* What it handled, the collection had reached.
LEMMA HandledNumbered ==
  ASSUME Numbered, Ahead, NEW c, NEW at \in Nat, at <= Cardinality(messages),
         ~moved => Reached(c, at), Handles(c, at),
         UNCHANGED <<made, rows, messages, sends, moved>>, news' \subseteq news, acks' \subseteq acks
  PROVE  Numbered' /\ Ahead'
<1>1. bumped' = [d \in DOMAIN bumped \cup {c} |-> IF d = c THEN at ELSE bumped[d]]
  BY DEF Handles
<1>2. \A d \in DOMAIN bumped' : bumped'[d] \in Nat /\ bumped'[d] <= Cardinality(messages)
  BY <1>1 DEF Numbered
<1>3. ~moved => \A d \in DOMAIN bumped' : Reached(d, bumped'[d])
  BY <1>1 DEF Ahead
<1> QED
  BY <1>2, <1>3 DEF Numbered, Ahead, Reached

\* The database is as it was, and so is what has been handled.
LEMMA PageNumbered ==
  ASSUME Numbered, Ahead, UNCHANGED <<made, rows, messages, sends, moved, bumped>>,
         news' \subseteq news, acks' \subseteq acks
  PROVE  Numbered' /\ Ahead'
BY DEF Numbered, Ahead, Reached

LEMMA ListSteps == ThreadsInv /\ ListInv /\ [ThreadsNext]_threadsVars => ListInv'
<1> SUFFICES ASSUME ThreadsInv, ListInv, [ThreadsNext]_threadsVars PROVE ListInv'
  OBVIOUS
<1>0. Numbered /\ Ahead /\ Asking /\ AllAwaited /\ AnswerIsNew /\ BumpNotUndone
  BY DEF ListInv
<1>1. ASSUME NEW s \in sends,
             \/ Find(s) \/ Load(s) \/ InsertThread(s) \/ Lookup(s) \/ InsertMessage(s)
             \/ Touch(s) \/ Publish(s) \/ SendFails(s)
      PROVE  ListInv'
  BY <1>1, HandlerList
<1>2. ASSUME NEW p \in Peers, NEW c \in 0 .. MaxThreads, OthersSend(p, c) PROVE ListInv'
  <2>1. /\ sends' = sends \cup {Fresh(FALSE, p, c)} /\ UNCHANGED bumped
        /\ UNCHANGED <<made, rows, messages, moved, news, acks, pageVars>>
    BY <1>2 DEF OthersSend, pageVars
  <2>2. Numbered' /\ Ahead'
    BY <1>0, <2>1, FreshList
  <2> QED
    BY <1>0, <2>1, <2>2, PageStands DEF ListInv
<1>3. ASSUME NEW p \in Peers, SendFirst(p) PROVE ListInv'
  <2>1. /\ sends' = sends \cup {Fresh(TRUE, p, 0)}
        /\ UNCHANGED <<made, rows, messages, moved, news, acks, bumped, list, loaded, fetch, retry, told, dropped>>
    BY <1>3 DEF SendFirst
  <2>2. Numbered' /\ Ahead'
    BY <1>0, <2>1, FreshList
  <2> QED
    BY <1>0, <2>1, <2>2 DEF ListInv, Asking, AllAwaited, Awaited, AnswerIsNew, BumpNotUndone, Listed
<1>4. ASSUME NEW c \in DOMAIN made, SendInThread(c) PROVE ListInv'
  <2> DEFINE n == Cardinality(messages)
  <2>1. /\ sends' = sends \cup {Fresh(TRUE, made[c], c)} /\ MovesUp(c, n) /\ c \in Listed
        /\ UNCHANGED <<made, rows, messages, moved, news, acks, bumped, loaded, retry, told>>
    BY <1>4 DEF SendInThread
  <2>2. Numbered' /\ Ahead'
    BY <1>0, <2>1, FreshList
  <2>3. n \in Nat
    BY FS_CardinalityType DEF ThreadsInv, Stored
  <2>4. c \in DOMAIN bumped => bumped[c] \in Nat /\ bumped[c] <= n
    BY <1>0 DEF Numbered
  <2> HIDE DEF n
  <2>5. Asking' /\ AllAwaited' /\ AnswerIsNew' /\ BumpNotUndone'
    BY <1>0, <2>1, <2>3, <2>4, MovesUpList
  <2> QED
    BY <2>2, <2>5 DEF ListInv
<1>5. ASSUME NEW c \in DOMAIN rows, Expire(c) PROVE ListInv'
  <2>1. /\ rows' = [d \in DOMAIN rows \ {c} |-> rows[d]]
        /\ UNCHANGED <<made, messages, sends, moved, news, acks, pageVars>> /\ UNCHANGED bumped
    BY <1>5 DEF Expire, pageVars
  <2>2. DOMAIN rows' \subseteq DOMAIN rows /\ \A d \in DOMAIN rows' : rows'[d] = rows[d]
    BY <2>1
  <2>3. Numbered'
    BY <1>0, <2>1, <2>2 DEF Numbered
  <2>4. Ahead'
    BY <1>0, <2>1, <2>2 DEF Ahead, Reached
  <2> QED
    BY <1>0, <2>1, <2>2, <2>3, <2>4, PageStands DEF ListInv
<1>6. ASSUME NEW m \in news, TabHears(m) PROVE ListInv'
  <2>1. /\ Handles(m.conv, m.at) /\ news' \subseteq news
        /\ UNCHANGED <<made, rows, messages, sends, moved, acks, loaded, retry>>
    BY <1>6 DEF TabHears, databaseVars
  <2>2. /\ m.conv \in DOMAIN made /\ m.at \in Nat /\ m.at <= Cardinality(messages)
        /\ ~moved => Reached(m.conv, m.at)
    BY <1>0 DEF Numbered, Ahead
  <2>3. Numbered' /\ Ahead'
    BY <1>0, <2>1, <2>2, HandledNumbered
  <2>4. Asking' /\ AllAwaited' /\ AnswerIsNew' /\ BumpNotUndone'
    BY <1>0, <2>1, <2>2, HandlesList
  <2> QED
    BY <2>3, <2>4 DEF ListInv
<1>7. ASSUME NEW a \in acks, TabSettles(a) PROVE ListInv'
  <2>1. acks' \subseteq acks /\ UNCHANGED <<made, rows, messages, sends, moved, news, loaded, retry>>
    BY <1>7 DEF TabSettles, databaseVars
  <2>2. a.ok => /\ a.send.conv \in DOMAIN made /\ a.send.at \in Nat
                /\ a.send.at <= Cardinality(messages) /\ (~moved => Reached(a.send.conv, a.send.at))
    BY <1>0 DEF Numbered, Ahead
  <2>3. CASE a.ok /\ a.send.first
    <3>1. Revalidates /\ told' = told \cup {a.send.conv} /\ UNCHANGED bumped
      BY <1>7, <2>3 DEF TabSettles
    <3>2. Numbered' /\ Ahead'
      BY <1>0, <2>1, <3>1, PageNumbered
    <3>3. told' \subseteq DOMAIN made
      BY <1>0, <2>2, <2>3, <3>1 DEF Asking
    <3>4. Asking' /\ AllAwaited' /\ AnswerIsNew' /\ BumpNotUndone'
      BY <1>0, <2>1, <3>1, <3>3, RevalidatesList
    <3> QED
      BY <3>2, <3>4 DEF ListInv
  <2>4. CASE a.ok /\ ~a.send.first
    <3>1. Handles(a.send.conv, a.send.at)
      BY <1>7, <2>4 DEF TabSettles
    <3>2. Numbered' /\ Ahead'
      BY <1>0, <2>1, <2>2, <2>4, <3>1, HandledNumbered
    <3>3. Asking' /\ AllAwaited' /\ AnswerIsNew' /\ BumpNotUndone'
      BY <1>0, <2>1, <2>2, <2>4, <3>1, HandlesList
    <3> QED
      BY <3>2, <3>3 DEF ListInv
  <2>5. CASE ~a.ok
    <3>1. UNCHANGED <<list, fetch, dropped, told, bumped>>
      BY <1>7, <2>5 DEF TabSettles
    <3>2. Numbered' /\ Ahead'
      BY <1>0, <2>1, <3>1, PageNumbered
    <3> QED
      BY <1>0, <2>1, <3>1, <3>2
         DEF ListInv, Asking, AllAwaited, Awaited, AnswerIsNew, BumpNotUndone, Listed
  <2> QED
    BY <2>3, <2>4, <2>5
<1>8. CASE ReadList
  <2>1. /\ fetch.step = "asked" /\ fetch' = [fetch EXCEPT !.step = "read", !.rows = rows]
        /\ UNCHANGED <<made, rows, messages, sends, moved, bumped, list, loaded, retry, told, dropped, news, acks>>
    BY <1>8 DEF ReadList, databaseVars
  <2>2. fetch' = [step |-> "read", rows |-> rows, valid |-> fetch.valid]
    BY <1>0, <2>1 DEF Asking
  <2>3. Numbered' /\ Ahead'
    BY <1>0, <2>1, PageNumbered
  <2>4. Asking'
    BY <1>0, <2>1, <2>2 DEF Asking, ThreadsInv, Collection, Listed
  <2>5. AllAwaited'
    BY <1>0, <2>1, <2>2 DEF AllAwaited, Awaited, Listed
  <2>6. AnswerIsNew'
    BY <1>0, <2>1, <2>2 DEF AnswerIsNew, Ahead, Reached, Numbered
  <2>7. BumpNotUndone'
    BY <1>0, <2>1 DEF BumpNotUndone, Listed
  <2> QED
    BY <2>3, <2>4, <2>5, <2>6, <2>7 DEF ListInv
<1>9. CASE ListArrives
  <2>1. /\ fetch.step = "read" /\ fetch' = NoFetch
        /\ UNCHANGED <<made, rows, messages, sends, moved, bumped, retry, told, dropped, news, acks>>
    BY <1>9 DEF ListArrives, databaseVars
  <2>2. Numbered' /\ Ahead'
    BY <1>0, <2>1, PageNumbered
  <2>3. /\ fetch' = [step |-> fetch'.step, rows |-> fetch'.rows, valid |-> fetch'.valid]
        /\ fetch'.step = "none" /\ ~fetch'.valid /\ DOMAIN fetch'.rows = {}
    BY <2>1 DEF NoFetch, Empty
  <2>4. CASE fetch.valid
    <3>1. list' = fetch.rows /\ loaded' = TRUE
      BY <1>9, <2>4 DEF ListArrives
    <3>2. Listed' = DOMAIN fetch.rows
      BY <3>1 DEF Listed
    <3>3. Asking'
      BY <1>0, <2>1, <2>3, <3>1 DEF Asking
    <3>4. AllAwaited'
      BY <1>0, <2>1, <2>4, <3>2 DEF AllAwaited, Awaited, Asking
    <3>5. BumpNotUndone'
      BY <1>0, <2>1, <2>4, <3>1, <3>2 DEF BumpNotUndone, AnswerIsNew
    <3> QED
      BY <2>2, <2>3, <3>3, <3>4, <3>5 DEF ListInv, AnswerIsNew
  <2>5. CASE ~fetch.valid
    <3>1. UNCHANGED <<list, loaded>> /\ Listed' = Listed
      BY <1>9, <2>5 DEF ListArrives, Listed
    <3>2. Asking'
      BY <1>0, <2>1, <2>3, <3>1 DEF Asking
    <3>3. AllAwaited'
      BY <1>0, <2>1, <2>5, <3>1 DEF AllAwaited, Awaited
    <3>4. BumpNotUndone'
      BY <1>0, <2>1, <3>1 DEF BumpNotUndone
    <3> QED
      BY <2>2, <2>3, <3>2, <3>3, <3>4 DEF ListInv, AnswerIsNew
  <2> QED
    BY <2>4, <2>5
<1>10. CASE ListFails
  <2>1. /\ fetch' = NoFetch /\ retry' = TRUE
        /\ UNCHANGED <<made, rows, messages, sends, moved, bumped, list, loaded, told, dropped, news, acks>>
    BY <1>10 DEF ListFails, databaseVars
  <2>2. Numbered' /\ Ahead'
    BY <1>0, <2>1, PageNumbered
  <2>3. /\ fetch' = [step |-> fetch'.step, rows |-> fetch'.rows, valid |-> fetch'.valid]
        /\ fetch'.step = "none" /\ ~fetch'.valid /\ DOMAIN fetch'.rows = {}
    BY <2>1 DEF NoFetch, Empty
  <2>4. Asking' /\ AllAwaited'
    BY <1>0, <2>1, <2>3 DEF Asking, AllAwaited, Awaited
  <2>5. BumpNotUndone'
    BY <1>0, <2>1 DEF BumpNotUndone, Listed
  <2> QED
    BY <2>2, <2>3, <2>4, <2>5 DEF ListInv, AnswerIsNew
<1>11. CASE ListRetry
  <2>1. /\ fetch' = IF fetch.step = "none" THEN Asked ELSE fetch
        /\ UNCHANGED <<made, rows, messages, sends, moved, bumped, list, loaded, told, dropped, news, acks>>
    BY <1>11 DEF ListRetry, databaseVars
  <2>2. Numbered' /\ Ahead'
    BY <1>0, <2>1, PageNumbered
  <2>3. Listed' = Listed
    BY <2>1 DEF Listed
  <2>4. CASE fetch.step = "none"
    <3>1. fetch' = [step |-> "asked", rows |-> Empty, valid |-> TRUE] /\ DOMAIN Empty = {}
      BY <2>1, <2>4 DEF Asked, Empty
    <3>2. Asking' /\ AllAwaited' /\ AnswerIsNew'
      BY <1>0, <2>1, <3>1 DEF Asking, AllAwaited, Awaited, AnswerIsNew
    <3> QED
      BY <1>0, <2>1, <2>2, <2>3, <3>2 DEF ListInv, BumpNotUndone
  <2>5. CASE fetch.step # "none"
    <3>1. UNCHANGED fetch
      BY <2>1, <2>5
    <3> QED
      BY <1>0, <2>1, <2>2, <2>3, <2>5, <3>1
         DEF ListInv, Asking, AllAwaited, Awaited, AnswerIsNew, BumpNotUndone
  <2> QED
    BY <2>4, <2>5
<1>12. CASE \/ \E p \in Peers : SelectPeer(p)
            \/ \E c \in DOMAIN made : SelectThread(c)
            \/ UNCHANGED threadsVars
  <2>1. UNCHANGED <<made, rows, messages, sends, moved, bumped, list, loaded, fetch, retry, told, dropped, news, acks>>
    BY <1>12 DEF SelectPeer, SelectThread, databaseVars, threadsVars
  <2>2. Numbered' /\ Ahead'
    BY <1>0, <2>1, PageNumbered
  <2> QED
    BY <1>0, <2>1, <2>2 DEF ListInv, Asking, AllAwaited, Awaited, AnswerIsNew, BumpNotUndone, Listed
<1> QED
  BY <1>1, <1>2, <1>3, <1>4, <1>5, <1>6, <1>7, <1>8, <1>9, <1>10, <1>11, <1>12 DEF ThreadsNext

LEMMA ListStarts == ThreadsInit => ListInv
<1> SUFFICES ASSUME ThreadsInit PROVE ListInv
  OBVIOUS
<1>1. DOMAIN Empty = {} /\ Cardinality({}) = 0
  BY FS_EmptySet DEF Empty
<1>2. /\ messages = {} /\ sends = {} /\ news = {} /\ acks = {} /\ told = {} /\ made = <<>>
      /\ bumped = Empty /\ rows = Empty /\ list = Empty /\ ~loaded
      /\ fetch = [step |-> "asked", rows |-> Empty, valid |-> TRUE]
  BY DEF ThreadsInit, Asked
<1>3. Numbered /\ Ahead
  BY <1>1, <1>2 DEF Numbered, Ahead
<1>4. Asking /\ AllAwaited /\ AnswerIsNew /\ BumpNotUndone
  BY <1>1, <1>2 DEF Asking, AllAwaited, AnswerIsNew, BumpNotUndone, Listed
<1> QED
  BY <1>3, <1>4 DEF ListInv

\* What the list, the answer on its way and the bumps agree on, in every state.
LEMMA ListInvariant == ThreadsSpec => []ListInv
BY ListStarts, ListSteps, ThreadsInvariant, PTL DEF ThreadsSpec

\* bumpConversationInListCache: a thread the tab has heard of is listed or will be, by an
\* answer, a request or a repetition, unless a bump discarded the answer that held it.
THEOREM ThreadsWillAppear == ThreadsSpec => []ThreadsAppear
<1>1. ListInv => ThreadsAppear
  BY DEF ListInv, AllAwaited, Awaited, ThreadsAppear
<1> QED
  BY <1>1, ListInvariant, PTL

\* The list and SWR's mutate: no answer takes a thread back behind a message the tab has
\* handled, as long as no overlapping send moved updatedAt itself back.
THEOREM BumpsStay == ThreadsSpec => []BumpNotUndone
<1>1. ListInv => BumpNotUndone
  BY DEF ListInv
<1> QED
  BY <1>1, ListInvariant, PTL

-----------------------------------------------------------------------------
(* The attachment of a composer.                                           *)

Upping == [file: Files, step: {"presign", "renew", "put", "over"}, aborted: BOOLEAN]

\* What has been aborted sends nothing any more, but may wait for the session.
Stopped(us) == \A i \in DOMAIN us : us[i].aborted => us[i].step \in {"renew", "over"}

\* An upload is live only as the current one, and then it is that of the file shown.
Current(c, us) ==
  /\ c.current # 0 => c.current \in DOMAIN us
  /\ \A i \in DOMAIN us : us[i].step # "over" /\ ~us[i].aborted =>
       c.current = i /\ us[i].file = c.name

\* What a retry uploads is the file shown.
Retries(c) == c.last # NoFile => c.last = c.name

ComposerInv ==
  /\ ComposerTypeOK /\ Len(uploads) <= MaxUploads /\ objects \subseteq DOMAIN uploads
  /\ Stopped(uploads) /\ Current(composer, uploads) /\ Retries(composer)
  /\ AttachmentIsIntended

\* The uploads after a step keep their files, none of them comes to life, and there may
\* be more of them.
Follows(us) ==
  /\ us \in Seq(Upping) /\ Len(us) <= MaxUploads /\ Stopped(us)
  /\ \A i \in DOMAIN uploads :
       /\ i \in DOMAIN us /\ us[i].file = uploads[i].file
       /\ us[i].step # "over" /\ ~us[i].aborted => uploads[i].step # "over" /\ ~uploads[i].aborted

\* What was sent stays right as the storage and the uploads grow.
LEMMA SentStays ==
  ASSUME ComposerInv, Follows(uploads'), objects \subseteq objects',
         NEW key, NEW f, IsOf(key, f)
  PROVE  IsOf(key, f)'
BY DEF ComposerInv, Follows, IsOf

\* Aborting one upload touches no other and leaves it without life.
LEMMA AbortedFollows ==
  ASSUME ComposerInv, NEW c \in 0 .. Len(uploads)
  PROVE  /\ Follows(Aborted(c)) /\ Len(Aborted(c)) = Len(uploads)
         /\ c # 0 => Aborted(c)[c].step = "over" \/ Aborted(c)[c].aborted
<1>1. uploads \in Seq(Upping) /\ Len(uploads) <= MaxUploads /\ Stopped(uploads)
  BY DEF ComposerInv, ComposerTypeOK, Upping
<1>2. CASE ~Under(c)
  BY <1>1, <1>2 DEF Aborted, Follows, Under
<1>3. CASE Under(c)
  <2> DEFINE u == [[uploads[c] EXCEPT !.aborted = TRUE]
                   EXCEPT !.step = IF @ = "renew" THEN "renew" ELSE "over"]
             us == [uploads EXCEPT ![c] = u]
  <2>1. c \in DOMAIN uploads /\ uploads[c] \in Upping
    BY <1>1, <1>3 DEF Under
  <2>2. u \in Upping /\ u.file = uploads[c].file /\ u.aborted /\ u.step \in {"renew", "over"}
    BY <2>1 DEF Upping
  <2>3. Aborted(c) = us
    BY <1>3 DEF Aborted
  <2> HIDE DEF u
  <2>4. us \in Seq(Upping) /\ DOMAIN us = DOMAIN uploads /\ Len(us) = Len(uploads)
    BY <1>1, <2>1, <2>2
  <2>5. us[c] = u /\ \A i \in DOMAIN uploads : i # c => us[i] = uploads[i]
    BY <1>1, <2>1
  <2> HIDE DEF us
  <2>6. Stopped(us)
    BY <1>1, <2>2, <2>4, <2>5 DEF Stopped
  <2>7. Follows(us)
    BY <1>1, <2>2, <2>4, <2>5, <2>6 DEF Follows
  <2> QED
    BY <2>2, <2>3, <2>4, <2>5, <2>7
<1> QED
  BY <1>2, <1>3

\* So a composer whose current upload has been aborted has no live one.
LEMMA NoneLive ==
  ASSUME ComposerInv
  PROVE  LET us == Aborted(composer.current) IN
         /\ Follows(us) /\ Len(us) = Len(uploads) /\ DOMAIN us = DOMAIN uploads
         /\ \A i \in DOMAIN us : us[i].step = "over" \/ us[i].aborted
<1> DEFINE us == Aborted(composer.current)
<1>1. composer.current \in 0 .. Len(uploads) /\ uploads \in Seq(Upping)
  BY DEF ComposerInv, ComposerTypeOK, Current, Upping
<1>2. /\ Follows(us) /\ Len(us) = Len(uploads)
      /\ composer.current # 0 => us[composer.current].step = "over" \/ us[composer.current].aborted
  BY <1>1, AbortedFollows
<1>3. DOMAIN us = DOMAIN uploads
  BY <1>1, <1>2 DEF Follows
<1> HIDE DEF us
<1>4. \A i \in DOMAIN us : us[i].step = "over" \/ us[i].aborted
  BY <1>2, <1>3 DEF Follows, ComposerInv, Current
<1> QED
  BY <1>2, <1>3, <1>4 DEF us

Shapes == [kind: ComposerKinds, text: BOOLEAN, name: Files \cup {NoFile}, submitting: BOOLEAN,
           uploading: BOOLEAN, error: BOOLEAN, result: 0 .. MaxUploads,
           last: Files \cup {NoFile}, current: 0 .. MaxUploads]

LEMMA ResetShape ==
  ASSUME NEW c \in Shapes
  PROVE  /\ Reset(c) \in Shapes /\ Reset(c).name = c.name
         /\ Reset(c).result = 0 /\ Reset(c).current = 0 /\ Reset(c).last = NoFile
<1> DEFINE Numbers == 0 .. MaxUploads
           Picked == Files \cup {NoFile}
<1>1. 0 \in Numbers /\ NoFile \in Picked
  BY ComposerAssumption
<1>2. c \in [kind: ComposerKinds, text: BOOLEAN, name: Picked, submitting: BOOLEAN, uploading: BOOLEAN,
              error: BOOLEAN, result: Numbers, last: Picked, current: Numbers]
  BY DEF Shapes
<1> HIDE DEF Numbers, Picked
<1>3. Reset(c) \in [kind: ComposerKinds, text: BOOLEAN, name: Picked, submitting: BOOLEAN, uploading: BOOLEAN,
                    error: BOOLEAN, result: Numbers, last: Picked, current: Numbers]
  BY <1>1, <1>2 DEF Reset
<1>4. /\ Reset(c).name = c.name
      /\ Reset(c).result = 0 /\ Reset(c).current = 0 /\ Reset(c).last = NoFile
  BY <1>2 DEF Reset
<1> QED
  BY <1>3, <1>4 DEF Numbers, Picked, Shapes

\* A composer that shows nothing as ready keeps what has been sent.
LEMMA Keeps ==
  ASSUME ComposerInv, composer' \in Shapes, Follows(uploads'), objects' = objects, composed' = composed,
         composer'.result = 0 \/ (composer'.result = composer.result /\ composer'.name = composer.name),
         Current(composer', uploads'), Retries(composer')
  PROVE  ComposerInv'
<1>1. objects' \subseteq DOMAIN uploads'
  BY DEF ComposerInv, Follows
<1>2. ComposerTypeOK'
  BY DEF ComposerInv, ComposerTypeOK, Follows, Upping, Shapes
<1>3. \A key, f : IsOf(key, f) => IsOf(key, f)'
  BY SentStays
<1>4. AttachmentIsIntended'
  BY <1>3 DEF AttachmentIsIntended, ComposerInv
<1> QED
  BY <1>1, <1>2, <1>4 DEF ComposerInv, Follows, Current, Retries

\* A composer that was reset, with or without its file, and one whose current upload
\* was just begun.
LEMMA UploadKeeps ==
  ASSUME ComposerInv, NEW f \in Files, NEW c \in Shapes, c.name = f, Upload(c, f),
         UNCHANGED <<objects, composed>>
  PROVE  ComposerInv'
<1> DEFINE before == Aborted(composer.current)
<1>1. /\ Follows(before) /\ Len(before) = Len(uploads) /\ DOMAIN before = DOMAIN uploads
      /\ \A i \in DOMAIN before : before[i].step = "over" \/ before[i].aborted
  BY NoneLive
<1>2. /\ Reset(c) \in Shapes /\ Reset(c).name = f
      /\ Reset(c).result = 0 /\ Reset(c).current = 0 /\ Reset(c).last = NoFile
  BY ResetShape
<1>3. CASE ~Accepted(f)
  <2> DEFINE r == [Reset(c) EXCEPT !.error = TRUE, !.last = f]
  <2>1. composer' = r /\ uploads' = before
    BY <1>3 DEF Upload
  <2>2. r \in Shapes /\ r.name = f /\ r.last = f /\ r.result = 0 /\ r.current = 0
    BY <1>2 DEF Shapes
  <2> HIDE DEF r, before
  <2>3. Current(composer', uploads') /\ Retries(composer')
    BY <1>1, <2>1, <2>2 DEF Current, Retries
  <2> QED
    BY <1>1, <2>1, <2>2, <2>3, Keeps
<1>4. CASE Accepted(f)
  <2> DEFINE u == [file |-> f, step |-> "presign", aborted |-> FALSE]
             ends == Under(composer.current) /\ before[composer.current].step = "over"
             n == Len(uploads) + 1
             r == [Reset(c) EXCEPT !.last = f, !.uploading = ~ends, !.current = n]
  <2>1. composer' = r /\ uploads' = Append(before, u) /\ Len(uploads) < MaxUploads
    BY <1>4 DEF Upload
  <2> HIDE DEF ends
  <2>2. u \in Upping /\ before \in Seq(Upping) /\ MaxUploads \in Nat /\ Len(uploads) \in Nat
    BY <1>1, ComposerAssumption DEF Upping, Follows, ComposerInv, ComposerTypeOK
  <2>3. r \in Shapes /\ r.name = f /\ r.last = f /\ r.result = 0 /\ r.current = n
    <3>1. n \in 0 .. MaxUploads
      BY <2>1, <2>2
    <3>2. (~ends) \in BOOLEAN
      OBVIOUS
    <3> HIDE DEF n
    <3> QED
      BY <1>2, <3>1, <3>2 DEF Shapes
  <2> HIDE DEF r, before
  <2>4. /\ uploads' \in Seq(Upping) /\ Len(uploads') = n /\ uploads'[n] = u
        /\ DOMAIN uploads' = DOMAIN before \cup {n}
        /\ \A i \in DOMAIN before : uploads'[i] = before[i]
    BY <1>1, <2>1, <2>2
  <2>5. u.file = f /\ u.step = "presign" /\ u.aborted = FALSE
    OBVIOUS
  <2> HIDE DEF u, n
  <2>6. Stopped(uploads')
    BY <1>1, <2>4, <2>5 DEF Stopped, Follows
  <2>7. Len(uploads') <= MaxUploads
    BY <2>1, <2>2, <2>4 DEF n
  <2>8. Follows(uploads')
    BY <1>1, <2>4, <2>6, <2>7 DEF Follows
  <2>9. Current(composer', uploads') /\ Retries(composer')
    BY <1>1, <2>1, <2>3, <2>4, <2>5 DEF Current, Retries
  <2> QED
    BY <2>1, <2>3, <2>8, <2>9, Keeps
<1> QED
  BY <1>3, <1>4

LEMMA ClearKeeps ==
  ASSUME ComposerInv, NEW c \in Shapes, ClearAttachment(c), UNCHANGED <<objects, composed>>
  PROVE  ComposerInv'
<1> DEFINE us == Aborted(composer.current)
           r == [Reset(c) EXCEPT !.name = NoFile]
<1>1. /\ Follows(us) /\ Len(us) = Len(uploads) /\ DOMAIN us = DOMAIN uploads
      /\ \A i \in DOMAIN us : us[i].step = "over" \/ us[i].aborted
  BY NoneLive
<1>2. uploads' = us /\ composer' = r
  BY DEF ClearAttachment
<1>3. r \in Shapes /\ r.result = 0 /\ r.current = 0 /\ r.last = NoFile
  BY ResetShape DEF Shapes
<1> HIDE DEF us, r
<1>4. Current(composer', uploads') /\ Retries(composer')
  BY <1>1, <1>2, <1>3 DEF Current, Retries
<1> QED
  BY <1>1, <1>2, <1>3, <1>4, Keeps

\* An upload that goes on.
LEMMA ReachFollows ==
  ASSUME ComposerInv, NEW i \in DOMAIN uploads, NEW step \in {"renew", "put", "over"},
         uploads[i].step # "over", step = "put" => ~uploads[i].aborted, Reach(i, step)
  PROVE  /\ Follows(uploads') /\ DOMAIN uploads' = DOMAIN uploads
         /\ uploads'[i].step = step /\ uploads'[i].aborted = uploads[i].aborted
         /\ \A j \in DOMAIN uploads : j # i => uploads'[j] = uploads[j]
<1> DEFINE u == [uploads[i] EXCEPT !.step = step]
<1>1. uploads \in Seq(Upping) /\ Len(uploads) <= MaxUploads /\ Stopped(uploads)
  BY DEF ComposerInv, ComposerTypeOK, Upping
<1>2. uploads[i] \in Upping
  BY <1>1
<1>3. u \in Upping /\ u.step = step /\ u.aborted = uploads[i].aborted /\ u.file = uploads[i].file
  BY <1>2 DEF Upping
<1>4. uploads' = [uploads EXCEPT ![i] = u]
  BY DEF Reach
<1> HIDE DEF u
<1>5. /\ uploads' \in Seq(Upping) /\ DOMAIN uploads' = DOMAIN uploads /\ Len(uploads') = Len(uploads)
      /\ uploads'[i] = u /\ \A j \in DOMAIN uploads : j # i => uploads'[j] = uploads[j]
  BY <1>1, <1>3, <1>4
<1>6. Stopped(uploads')
  BY <1>1, <1>3, <1>5 DEF Stopped
<1> QED
  BY <1>1, <1>3, <1>5, <1>6 DEF Follows

\* The finally clause of an upload.
LEMMA OverShape ==
  ASSUME ComposerInv, NEW i \in DOMAIN uploads
  PROVE  /\ Over(composer, i) \in Shapes /\ Over(composer, i).name = composer.name
         /\ Over(composer, i).result = composer.result /\ Over(composer, i).last = composer.last
         /\ Over(composer, i).current = IF composer.current = i THEN 0 ELSE composer.current
<1> DEFINE n == IF composer.current = i THEN 0 ELSE composer.current
           Numbers == 0 .. MaxUploads
<1>1. composer \in Shapes /\ n \in Numbers
  BY ComposerAssumption DEF ComposerInv, ComposerTypeOK, Shapes
<1>2. Over(composer, i) = [composer EXCEPT !.uploading = FALSE, !.current = n]
  BY DEF Over
<1> HIDE DEF n
<1>3. [composer EXCEPT !.uploading = FALSE, !.current = n] \in Shapes
  BY <1>1 DEF Shapes
<1> QED
  BY <1>1, <1>2, <1>3 DEF Shapes, n

\* An upload that ends leaves no other to be current than the one that is.
LEMMA OverCurrent ==
  ASSUME ComposerInv, NEW i \in DOMAIN uploads, uploads[i].step # "over", Reach(i, "over"),
         NEW c, c.name = composer.name, c.current = IF composer.current = i THEN 0 ELSE composer.current
  PROVE  Current(c, uploads')
BY ReachFollows DEF ComposerInv, Current

\* A failure ends an upload and leaves what it could retry.
LEMMA RefusedKeeps ==
  ASSUME ComposerInv, NEW i \in DOMAIN uploads, uploads[i].step # "over", Refused(i),
         objects \subseteq objects', objects' \subseteq objects \cup {i}, composed' = composed
  PROVE  ComposerInv'
<1> DEFINE c == [Over(composer, i) EXCEPT !.error = TRUE]
<1>1. Reach(i, "over") /\ composer' = c
  BY DEF Refused
<1>2. /\ c \in Shapes /\ c.name = composer.name /\ c.result = composer.result /\ c.last = composer.last
      /\ c.current = IF composer.current = i THEN 0 ELSE composer.current
  BY OverShape DEF Shapes
<1> HIDE DEF c
<1>3. Follows(uploads') /\ DOMAIN uploads' = DOMAIN uploads
  BY <1>1, ReachFollows
<1>4. Current(composer', uploads')
  BY <1>1, <1>2, OverCurrent
<1>5. objects' \subseteq DOMAIN uploads'
  BY <1>3 DEF ComposerInv
<1>6. ComposerTypeOK'
  BY <1>1, <1>2, <1>3, <1>5, ComposerAssumption DEF ComposerInv, ComposerTypeOK, Follows, Upping, Shapes
<1>7. \A key, f : IsOf(key, f) => IsOf(key, f)'
  BY <1>3, SentStays
<1>8. AttachmentIsIntended'
  BY <1>1, <1>2, <1>7 DEF AttachmentIsIntended, ComposerInv
<1> QED
  BY <1>1, <1>2, <1>3, <1>4, <1>5, <1>6, <1>8 DEF ComposerInv, Follows, Retries

LEMMA PutKeeps ==
  ASSUME ComposerInv, NEW i \in DOMAIN uploads, PutDone(i)
  PROVE  ComposerInv'
<1> DEFINE c == [Over(composer, i) EXCEPT !.result = i, !.last = NoFile]
<1>1. /\ Reach(i, "over") /\ composer' = c /\ uploads[i].step = "put"
      /\ objects' = objects \cup {i} /\ composed' = composed
  BY DEF PutDone, At
<1>2. i \in 0 .. MaxUploads
  BY ComposerAssumption DEF ComposerInv, ComposerTypeOK
<1>3. /\ c \in Shapes /\ c.name = composer.name /\ c.result = i /\ c.last = NoFile
      /\ c.current = IF composer.current = i THEN 0 ELSE composer.current
  BY <1>2, OverShape DEF Shapes
<1> HIDE DEF c
<1>4. Follows(uploads') /\ DOMAIN uploads' = DOMAIN uploads
  BY <1>1, ReachFollows
<1>5. Current(composer', uploads')
  BY <1>1, <1>3, OverCurrent
<1>6. objects' \subseteq DOMAIN uploads'
  BY <1>1, <1>4 DEF ComposerInv
<1>7. ComposerTypeOK'
  BY <1>1, <1>3, <1>4, <1>6, ComposerAssumption DEF ComposerInv, ComposerTypeOK, Follows, Upping, Shapes
<1>8. \A key, f : IsOf(key, f) => IsOf(key, f)'
  BY <1>1, <1>4, SentStays
<1>9. uploads'[i].file = composer.name
  BY <1>1, <1>4 DEF ComposerInv, Stopped, Current, Follows
<1>10. AttachmentIsIntended'
  BY <1>1, <1>3, <1>8, <1>9 DEF AttachmentIsIntended, ComposerInv, IsOf
<1> QED
  BY <1>1, <1>3, <1>4, <1>5, <1>6, <1>7, <1>10 DEF ComposerInv, Follows, Retries

LEMMA SubmitKeeps ==
  ASSUME ComposerInv, Submit
  PROVE  ComposerInv'
<1> DEFINE e == [key |-> composer.result, name |-> composer.name]
           Entries == [key: 0 .. MaxUploads, name: Files \cup {NoFile}]
<1>1. /\ composer' = [composer EXCEPT !.submitting = TRUE] /\ composed' = Append(composed, e)
      /\ UNCHANGED <<uploads, objects>>
  BY DEF Submit
<1>2. composer \in Shapes /\ composed \in Seq(Entries)
  BY DEF ComposerInv, ComposerTypeOK, Shapes
<1>3. /\ composer' \in Shapes /\ composer'.result = composer.result /\ composer'.name = composer.name
      /\ composer'.last = composer.last /\ composer'.current = composer.current
  BY <1>1, <1>2 DEF Shapes
<1>4. e \in Entries /\ (e.key # 0 => IsOf(e.key, e.name))
  BY <1>2 DEF Shapes, ComposerInv, AttachmentIsIntended
<1> HIDE DEF e, Entries
<1>5. composed' \in Seq(Entries)
  BY <1>1, <1>2, <1>4
<1>6. \A n \in DOMAIN composed' : composed'[n] = e \/ (n \in DOMAIN composed /\ composed'[n] = composed[n])
  BY <1>1, <1>2, <1>4
<1>7. AttachmentIsIntended'
  BY <1>1, <1>3, <1>4, <1>6 DEF AttachmentIsIntended, ComposerInv, IsOf
<1>8. ComposerTypeOK'
  BY <1>1, <1>3, <1>5 DEF ComposerInv, ComposerTypeOK, Entries, Shapes
<1> QED
  BY <1>1, <1>3, <1>7, <1>8 DEF ComposerInv, Current, Retries

\* A change of the form alone.
LEMMA FormKeeps ==
  ASSUME ComposerInv, composer' \in Shapes, UNCHANGED <<uploads, objects, composed>>,
         composer'.result = composer.result, composer'.name = composer.name,
         composer'.last = composer.last, composer'.current = composer.current
  PROVE  ComposerInv'
BY DEF ComposerInv, ComposerTypeOK, Shapes, Current, Retries, AttachmentIsIntended, IsOf

LEMMA CancelKeeps ==
  ASSUME ComposerInv, CancelUpload
  PROVE  ComposerInv'
<1> DEFINE i == composer.current
           us == Aborted(i)
<1>1. /\ Follows(us) /\ Len(us) = Len(uploads) /\ DOMAIN us = DOMAIN uploads
      /\ \A j \in DOMAIN us : us[j].step = "over" \/ us[j].aborted
  BY NoneLive
<1>2. /\ uploads' = us /\ Under(i) /\ UNCHANGED <<objects, composed>>
      /\ composer' = Over(composer, i) \/ composer' = composer
  BY DEF CancelUpload
<1>3. i \in DOMAIN uploads /\ composer \in Shapes
  BY <1>2 DEF Under, ComposerInv, ComposerTypeOK, Shapes, Current
<1>4. /\ composer' \in Shapes /\ composer'.name = composer.name /\ composer'.result = composer.result
      /\ composer'.last = composer.last /\ composer'.current \in {0, i}
  BY <1>2, <1>3, OverShape
<1> HIDE DEF us
<1>5. Current(composer', uploads') /\ Retries(composer')
  BY <1>1, <1>2, <1>3, <1>4 DEF Current, Retries, ComposerInv
<1> QED
  BY <1>1, <1>2, <1>4, <1>5, Keeps

LEMMA FirstKeeps ==
  ASSUME ComposerInv, FirstSent
  PROVE  ComposerInv'
<1> DEFINE us == [i \in DOMAIN uploads |-> [uploads[i] EXCEPT !.step = "over"]]
<1>1. uploads' = us /\ composer' = Blank("thread") /\ UNCHANGED <<objects, composed>>
  BY DEF FirstSent
<1>2. uploads \in Seq(Upping) /\ Len(uploads) <= MaxUploads
  BY DEF ComposerInv, ComposerTypeOK, Upping
<1>3. \A i \in DOMAIN uploads : us[i] \in Upping /\ us[i].step = "over" /\ us[i].file = uploads[i].file
  <2> TAKE i \in DOMAIN uploads
  <2>1. uploads[i] \in Upping /\ us[i] = [uploads[i] EXCEPT !.step = "over"]
    BY <1>2
  <2> HIDE DEF us
  <2> QED
    BY <2>1 DEF Upping
<1>4. us \in Seq(Upping) /\ DOMAIN us = DOMAIN uploads /\ Len(us) = Len(uploads)
  <2>1. DOMAIN us = 1 .. Len(uploads)
    BY <1>2
  <2>2. us = [i \in 1 .. Len(uploads) |-> us[i]] /\ Len(uploads) \in Nat
    BY <1>2, <2>1
  <2> HIDE DEF us
  <2>3. \A i \in 1 .. Len(uploads) : us[i] \in Upping
    BY <1>2, <1>3
  <2>4. [i \in 1 .. Len(uploads) |-> us[i]] \in Seq(Upping)
    BY <2>2, <2>3
  <2> QED
    BY <1>2, <2>1, <2>2, <2>4
<1> HIDE DEF us
<1>5. Follows(us)
  BY <1>2, <1>3, <1>4 DEF Follows, Stopped
<1>6. /\ composer' \in Shapes /\ composer'.result = 0 /\ composer'.current = 0 /\ composer'.last = NoFile
  BY <1>1, ComposerAssumption DEF Blank, Shapes, ComposerKinds
<1>7. Current(composer', uploads') /\ Retries(composer')
  BY <1>1, <1>3, <1>4, <1>6 DEF Current, Retries
<1> QED
  BY <1>1, <1>5, <1>6, <1>7, Keeps

LEMMA ComposerSteps == ComposerInv /\ [ComposerNext]_composerVars => ComposerInv'
<1> SUFFICES ASSUME ComposerInv, [ComposerNext]_composerVars PROVE ComposerInv'
  OBVIOUS
<1>0. composer \in Shapes /\ uploads \in Seq(Upping)
  BY DEF ComposerInv, ComposerTypeOK, Shapes, Upping
<1>1. ASSUME NEW f \in Files, PickFile(f) PROVE ComposerInv'
  <2>1. [composer EXCEPT !.name = f] \in Shapes /\ [composer EXCEPT !.name = f].name = f
    BY <1>0 DEF Shapes
  <2> QED
    BY <1>1, <2>1, UploadKeeps DEF PickFile
<1>2. CASE RetryUpload
  <2>1. composer.last \in Files /\ composer.name = composer.last
    BY <1>0, <1>2 DEF RetryUpload, ComposerInv, Retries, Shapes
  <2> QED
    BY <1>0, <1>2, <2>1, UploadKeeps DEF RetryUpload
<1>3. CASE CancelUpload
  BY <1>3, CancelKeeps
<1>4. CASE RemoveAttachment
  BY <1>0, <1>4, ClearKeeps DEF RemoveAttachment
<1>5. ASSUME NEW i \in DOMAIN uploads, PresignUnauthorized(i) \/ Presigned(i)
      PROVE  ComposerInv'
  <2>1. PICK step \in {"renew", "put"} :
          /\ Reach(i, step) /\ uploads[i].step # "over"
          /\ step = "put" => ~uploads[i].aborted
    BY <1>5 DEF PresignUnauthorized, Presigned, At, Live
  <2>2. UNCHANGED <<composer, objects, composed>>
    BY <1>5 DEF PresignUnauthorized, Presigned
  <2>3. /\ Follows(uploads') /\ DOMAIN uploads' = DOMAIN uploads
    BY <2>1, ReachFollows
  <2>4. Current(composer', uploads')
    BY <2>2, <2>3 DEF ComposerInv, Current, Follows
  <2> QED
    BY <1>0, <2>2, <2>3, <2>4, Keeps DEF ComposerInv, Retries
<1>6. ASSUME NEW i \in DOMAIN uploads, RenewedInVain(i)
      PROVE  ComposerInv'
  <2>1. /\ Reach(i, "over") /\ uploads[i].step # "over"
        /\ composer' = Over(composer, i) /\ UNCHANGED <<objects, composed>>
    BY <1>6 DEF RenewedInVain, At
  <2>2. /\ composer' \in Shapes /\ composer'.name = composer.name
        /\ composer'.result = composer.result /\ composer'.last = composer.last
        /\ composer'.current = IF composer.current = i THEN 0 ELSE composer.current
    BY <2>1, OverShape
  <2>3. Follows(uploads') /\ Current(composer', uploads') /\ Retries(composer')
    BY <2>1, <2>2, ReachFollows, OverCurrent DEF ComposerInv, Retries
  <2> QED
    BY <2>1, <2>2, <2>3, Keeps
<1>7. ASSUME NEW i \in DOMAIN uploads, PresignFails(i) \/ PutFails(i)
      PROVE  ComposerInv'
  <2>1. /\ uploads[i].step # "over" /\ Refused(i) /\ composed' = composed
        /\ objects \subseteq objects' /\ objects' \subseteq objects \cup {i}
    BY <1>7 DEF PresignFails, PutFails, At, Live, Under
  <2> QED
    BY <2>1, RefusedKeeps
<1>8. ASSUME NEW i \in DOMAIN uploads, PutDone(i)
      PROVE  ComposerInv'
  BY <1>8, PutKeeps
<1>9. CASE Type
  BY <1>0, <1>9, FormKeeps DEF Type, Shapes
<1>10. CASE Submit
  BY <1>10, SubmitKeeps
<1>11. CASE ThreadSent \/ FollowUpSent
  <2>1. Emptied \in Shapes
    BY <1>0 DEF Emptied, Shapes
  <2> QED
    BY <1>11, <2>1, ClearKeeps DEF ThreadSent, FollowUpSent
<1>12. CASE FirstSent
  BY <1>12, FirstKeeps
<1>13. CASE NotSent
  BY <1>0, <1>13, FormKeeps DEF NotSent, Shapes
<1>14. CASE UNCHANGED composerVars
  BY <1>0, <1>14, FormKeeps DEF composerVars
<1> QED
  BY <1>1, <1>2, <1>3, <1>4, <1>5, <1>6, <1>7, <1>8, <1>9, <1>10, <1>11, <1>12, <1>13, <1>14
     DEF ComposerNext

LEMMA ComposerStarts == ComposerInit => ComposerInv
<1> SUFFICES ASSUME ComposerInit PROVE ComposerInv
  OBVIOUS
<1>1. PICK kind \in ComposerKinds : composer = Blank(kind)
  BY DEF ComposerInit
<1>2. uploads = <<>> /\ objects = {} /\ composed = <<>> /\ MaxUploads \in Nat
  BY ComposerAssumption DEF ComposerInit
<1>3. ComposerTypeOK
  BY <1>1, <1>2 DEF Blank, ComposerTypeOK
<1> QED
  BY <1>1, <1>2, <1>3 DEF Blank, ComposerInv, Stopped, Current, Retries, AttachmentIsIntended

\* useMediaUpload, useComposerMediaAttachment: the key a message carries is that of an
\* object in storage and of the file shown, whatever was cancelled, removed, retried or
\* replaced while its upload was under way.
THEOREM AttachmentIntended == ComposerSpec => []AttachmentIsIntended
<1>1. ComposerInv => AttachmentIsIntended
  BY DEF ComposerInv
<1> QED
  BY <1>1, ComposerStarts, ComposerSteps, PTL DEF ComposerSpec

-----------------------------------------------------------------------------
(* The profile.                                                            *)

Patches == {<<>>} \cup UNION {[S -> Texts] : S \in SUBSET Fields}
SaveShape == [page: Nat, photo: BOOLEAN, step: {"presign", "put", "patch", "read", "answer", "over"},
              patch: Patches, typed: SUBSET Fields, answer: Rows]
FormShape == [page: Nat, open: BOOLEAN, draft: [Fields -> Texts], photo: BOOLEAN,
              submitting: BOOLEAN, typed: SUBSET Fields]
ApprovalShape == [step: {"idle", "refreshing"}, user: Rows, same: BOOLEAN]

\* The form differs from the user only where something was typed, and the user that an
\* approval keeps is the one of the slice as long as no other took its place.
PageInv ==
  /\ user \in Rows /\ form \in FormShape /\ approval \in ApprovalShape
  /\ form.open => Changed \subseteq form.typed
  /\ approval.same => approval.user = user

\* A photo is in storage before its save writes the row.
SavesInv ==
  /\ saves \in Seq(SaveShape) /\ Len(saves) <= MaxSaves
  /\ photos \subseteq 1 .. MaxSaves /\ profile \in Rows
  /\ \A i \in DOMAIN saves : saves[i].photo /\ saves[i].step = "patch" => i \in photos
  /\ profile.picture \in DOMAIN saves \cup {0}
  /\ SavesOnlyEdits

ProfileInv == PageInv /\ SavesInv

LEMMA NobodyTyped == Nobody \in Rows
BY ProfileAssumption DEF Nobody, Rows

LEMMA ClosedTyped ==
  ASSUME NEW n \in Nat
  PROVE  Closed(n) \in FormShape /\ ~Closed(n).open
BY ProfileAssumption DEF Closed, FormShape

\* The effect of the page leaves nothing typed, and nothing changed.
LEMMA FilledTyped ==
  ASSUME NEW u \in Rows, NEW page \in FormShape
  PROVE  /\ Filled(u, page) \in FormShape
         /\ Filled(u, page).open => Filled(u, page).draft = u.texts
BY DEF Filled, FormShape, Rows

\* One submission goes on; its photo, if it has one, was stored before it is named.
LEMMA SaveGoesOn ==
  ASSUME SavesInv, NEW i \in DOMAIN saves, NEW s \in SaveShape, s.photo = saves[i].photo,
         DOMAIN s.patch \subseteq s.typed, saves' = [saves EXCEPT ![i] = s],
         photos \subseteq photos', photos' \subseteq 1 .. MaxSaves,
         s.photo /\ s.step = "patch" => i \in photos',
         profile' \in Rows,
         \/ profile'.picture = profile.picture
         \/ profile'.picture = i /\ s.photo /\ i \in photos
  PROVE  SavesInv'
<1>1. saves \in Seq(SaveShape)
  BY DEF SavesInv
<1>2. /\ saves' \in Seq(SaveShape) /\ DOMAIN saves' = DOMAIN saves /\ Len(saves') = Len(saves)
      /\ saves'[i] = s /\ \A j \in DOMAIN saves : j # i => saves'[j] = saves[j]
  BY <1>1
<1>3. \A j \in DOMAIN saves : saves'[j].photo = saves[j].photo
  BY <1>2
<1>4. \A j \in DOMAIN saves' : saves'[j].photo /\ saves'[j].step = "patch" => j \in photos'
  BY <1>2 DEF SavesInv
<1>5. profile'.picture \in DOMAIN saves' \cup {0}
  BY <1>2 DEF SavesInv
<1>6. SavesOnlyEdits'
  <2>1. \A j \in DOMAIN saves' : DOMAIN saves'[j].patch \subseteq saves'[j].typed
    BY <1>2 DEF SavesInv, SavesOnlyEdits
  <2>2. profile'.picture # 0 => profile'.picture \in photos' /\ saves'[profile'.picture].photo
    <3>1. CASE profile'.picture = profile.picture
      BY <1>3, <3>1 DEF SavesInv, SavesOnlyEdits
    <3>2. CASE profile'.picture = i /\ s.photo /\ i \in photos
      BY <1>2, <3>2
    <3> QED
      BY <3>1, <3>2
  <2> QED
    BY <2>1, <2>2 DEF SavesOnlyEdits
<1> QED
  BY <1>2, <1>4, <1>5, <1>6 DEF SavesInv

LEMMA ToShape ==
  ASSUME SavesInv, NEW i \in DOMAIN saves, NEW step \in {"put", "patch", "read"}, To(i, step)
  PROVE  \E s \in SaveShape : /\ saves' = [saves EXCEPT ![i] = s]
                              /\ s.photo = saves[i].photo /\ s.step = step
                              /\ s.patch = saves[i].patch /\ s.typed = saves[i].typed
<1> DEFINE s == [saves[i] EXCEPT !.step = step]
<1>1. saves[i] \in SaveShape
  BY DEF SavesInv
<1>2. /\ s \in SaveShape /\ s.photo = saves[i].photo /\ s.step = step
      /\ s.patch = saves[i].patch /\ s.typed = saves[i].typed
  BY <1>1 DEF SaveShape
<1>3. saves' = [saves EXCEPT ![i] = s]
  BY DEF To
<1> HIDE DEF s
<1> QED
  BY <1>2, <1>3

\* A submission that is over sends nothing.
LEMMA EndedKeeps ==
  ASSUME SavesInv, NEW i \in DOMAIN saves, Ended(i), profile' = profile,
         photos \subseteq photos', photos' \subseteq 1 .. MaxSaves
  PROVE  SavesInv'
<1> DEFINE s == [saves[i] EXCEPT !.step = "over", !.patch = <<>>, !.typed = {}, !.answer = Nobody]
<1>1. saves[i] \in SaveShape /\ <<>> \in Patches
  BY DEF SavesInv, Patches
<1>2. s \in SaveShape /\ s.photo = saves[i].photo /\ s.step = "over" /\ s.patch = <<>>
  BY <1>1, NobodyTyped DEF SaveShape
<1>3. saves' = [saves EXCEPT ![i] = s]
  BY DEF Ended
<1>4. DOMAIN s.patch \subseteq s.typed
  BY <1>2
<1> HIDE DEF s
<1> QED
  BY <1>2, <1>3, <1>4, SaveGoesOn DEF SavesInv

\* The row after the update of a submission.
LEMMA PatchedTyped ==
  ASSUME SavesInv, NEW i \in DOMAIN saves
  PROVE  /\ Patched(profile, saves[i], i) \in Rows
         /\ Patched(profile, saves[i], i).picture = IF saves[i].photo THEN i ELSE profile.picture
<1> DEFINE s == saves[i]
           texts == [f \in Fields |-> IF f \in DOMAIN s.patch THEN s.patch[f] ELSE profile.texts[f]]
           picture == IF s.photo THEN i ELSE profile.picture
<1>1. s \in SaveShape /\ i \in 0 .. MaxSaves /\ profile \in Rows
  BY ProfileAssumption DEF SavesInv
<1>2. \A f \in DOMAIN s.patch : s.patch[f] \in Texts
  BY <1>1 DEF SaveShape, Patches
<1>3. texts \in [Fields -> Texts]
  BY <1>1, <1>2 DEF Rows
<1>4. picture \in 0 .. MaxSaves
  BY <1>1 DEF Rows
<1>5. Patched(profile, saves[i], i) = [texts |-> texts, picture |-> picture]
  BY DEF Patched
<1> HIDE DEF texts, picture
<1>6. [texts |-> texts, picture |-> picture] \in Rows
  BY <1>3, <1>4 DEF Rows
<1> QED
  BY <1>5, <1>6 DEF picture

LEMMA UpdatesKeeps ==
  ASSUME SavesInv, NEW i \in DOMAIN saves, Updates(i)
  PROVE  SavesInv'
<1>1. PICK s \in SaveShape : /\ saves' = [saves EXCEPT ![i] = s]
                            /\ s.photo = saves[i].photo /\ s.step = "read"
                            /\ s.patch = saves[i].patch /\ s.typed = saves[i].typed
  BY ToShape DEF Updates
<1>2. /\ profile' = Patched(profile, saves[i], i) /\ photos' = photos
      /\ saves[i].photo => i \in photos
  BY DEF Updates, SavesInv
<1>3. /\ profile' \in Rows
      /\ profile'.picture = IF saves[i].photo THEN i ELSE profile.picture
  BY <1>2, PatchedTyped
<1>4. DOMAIN s.patch \subseteq s.typed /\ photos \subseteq 1 .. MaxSaves
  BY <1>1 DEF SavesInv, SavesOnlyEdits
<1> QED
  BY <1>1, <1>2, <1>3, <1>4, SaveGoesOn

LEMMA SubmitProfileKeeps ==
  ASSUME ProfileInv, SubmitProfile
  PROVE  SavesInv'
<1> DEFINE step == IF form.photo THEN "presign" ELSE "patch"
           patch == [f \in Changed |-> form.draft[f]]
           s == [page |-> form.page, photo |-> form.photo, step |-> step,
                 patch |-> patch, typed |-> form.typed, answer |-> Nobody]
           n == Len(saves) + 1
<1>1. /\ form.open /\ Len(saves) < MaxSaves /\ saves' = Append(saves, s)
      /\ UNCHANGED <<profile, photos>>
  BY DEF SubmitProfile
<1>2. Changed \subseteq form.typed /\ Changed \subseteq Fields /\ form \in FormShape
  BY <1>1 DEF ProfileInv, PageInv, Changed
<1>3. patch \in Patches /\ DOMAIN patch = Changed
  BY <1>2 DEF Patches, FormShape
<1> HIDE DEF patch
<1>4. /\ s \in SaveShape /\ s.photo = form.photo /\ s.patch = patch /\ s.typed = form.typed
      /\ s.photo => s.step = "presign"
  BY <1>2, <1>3, NobodyTyped DEF SaveShape, FormShape
<1> HIDE DEF s
<1>5. saves \in Seq(SaveShape) /\ Len(saves) \in Nat /\ MaxSaves \in Nat
  BY ProfileAssumption DEF ProfileInv, SavesInv
<1>6. /\ saves' \in Seq(SaveShape) /\ Len(saves') = n /\ saves'[n] = s
      /\ DOMAIN saves' = DOMAIN saves \cup {n} /\ n \notin DOMAIN saves
      /\ \A i \in DOMAIN saves : saves'[i] = saves[i]
  BY <1>1, <1>4, <1>5
<1>7. Len(saves') <= MaxSaves
  BY <1>1, <1>5, <1>6
<1> HIDE DEF n
<1>8. \A i \in DOMAIN saves' : saves'[i].photo /\ saves'[i].step = "patch" => i \in photos'
  BY <1>1, <1>4, <1>6 DEF ProfileInv, SavesInv
<1>9. SavesOnlyEdits'
  BY <1>1, <1>2, <1>3, <1>4, <1>6 DEF ProfileInv, SavesInv, SavesOnlyEdits
<1> QED
  BY <1>1, <1>6, <1>7, <1>8, <1>9 DEF ProfileInv, SavesInv

\* What the user types marks the fields that differ.
LEMMA TypeKeeps ==
  ASSUME PageInv, NEW f \in Fields, NEW t \in Texts, TypeField(f, t)
  PROVE  PageInv'
<1> DEFINE draft == [form.draft EXCEPT ![f] = t]
           typed == form.typed \cup {f}
<1>1. form \in FormShape /\ form.open
  BY DEF PageInv, TypeField
<1>2. form' = [form EXCEPT !.draft = draft, !.typed = typed] /\ UNCHANGED <<user, approval>>
  BY DEF TypeField
<1>3. draft \in [Fields -> Texts] /\ typed \in SUBSET Fields /\ \A g \in Fields \ {f} : draft[g] = form.draft[g]
  BY <1>1 DEF FormShape
<1> HIDE DEF draft
<1>4. form' \in FormShape /\ form'.draft = draft /\ form'.typed = typed
  BY <1>1, <1>2, <1>3 DEF FormShape
<1>5. Changed' \subseteq typed
  BY <1>1, <1>2, <1>3, <1>4 DEF Changed, PageInv
<1> QED
  BY <1>2, <1>4, <1>5 DEF PageInv

\* A new user fills the form.
LEMMA UserFills ==
  ASSUME NEW u \in Rows, NEW page \in FormShape, user' = u, form' = Filled(u, page),
         approval' \in ApprovalShape, ~approval'.same
  PROVE  PageInv'
<1>1. form' \in FormShape /\ (form'.open => form'.draft = u.texts)
  BY FilledTyped
<1> QED
  BY <1>1 DEF PageInv, Changed

\* Other changes of the form leave its drafts.
LEMMA PageKeeps ==
  ASSUME PageInv, NEW page \in FormShape, form' = page, UNCHANGED <<user, approval>>,
         page.open => form.open /\ page.draft = form.draft /\ page.typed = form.typed
  PROVE  PageInv'
BY DEF PageInv, Changed

LEMMA ProfileSteps == ProfileInv /\ [ProfileNext]_profileVars => ProfileInv'
<1> SUFFICES ASSUME ProfileInv, [ProfileNext]_profileVars PROVE ProfileInv'
  OBVIOUS
<1>0. /\ PageInv /\ SavesInv /\ form \in FormShape /\ user \in Rows /\ approval \in ApprovalShape
      /\ photos \subseteq 1 .. MaxSaves
  BY DEF ProfileInv, PageInv, SavesInv
<1>a. UNCHANGED <<profile, photos, saves>> => SavesInv'
  BY <1>0 DEF SavesInv, SavesOnlyEdits
<1>b. UNCHANGED <<user, form, approval>> => PageInv'
  BY <1>0 DEF PageInv, Changed
<1>1. CASE OpenSettings
  <2> DEFINE page == [Closed(form.page + 1) EXCEPT !.open = TRUE]
  <2>0. Closed(form.page + 1) \in FormShape
    BY <1>0, ClosedTyped DEF FormShape
  <2>1. page \in FormShape
    BY <2>0 DEF FormShape
  <2>2. form' = Filled(user, page) /\ UNCHANGED <<profile, photos, saves, user, approval>>
    BY <1>1 DEF OpenSettings
  <2> HIDE DEF page
  <2>3. form' \in FormShape /\ (form'.open => form'.draft = user.texts)
    BY <1>0, <2>1, <2>2, FilledTyped
  <2>4. PageInv'
    BY <1>0, <2>2, <2>3 DEF PageInv, Changed
  <2> QED
    BY <1>a, <2>2, <2>4 DEF ProfileInv
<1>2. CASE LeaveSettings
  <2>1. Closed(form.page) \in FormShape /\ ~Closed(form.page).open
    BY <1>0, ClosedTyped DEF FormShape
  <2>2. PageInv'
    BY <1>0, <1>2, <2>1, PageKeeps DEF LeaveSettings
  <2> QED
    BY <1>2, <1>a, <2>2 DEF LeaveSettings, ProfileInv
<1>3. CASE ChoosePhoto \/ DiscardPhoto
  <2>1. PICK b \in BOOLEAN : form' = [form EXCEPT !.photo = b]
    BY <1>3 DEF ChoosePhoto, DiscardPhoto
  <2>2. UNCHANGED <<profile, photos, saves, user, approval>>
    BY <1>3 DEF ChoosePhoto, DiscardPhoto
  <2>3. /\ [form EXCEPT !.photo = b] \in FormShape
        /\ [form EXCEPT !.photo = b].open = form.open /\ [form EXCEPT !.photo = b].draft = form.draft
        /\ [form EXCEPT !.photo = b].typed = form.typed
    BY <1>0 DEF FormShape
  <2>4. PageInv'
    BY <1>0, <2>1, <2>2, <2>3, PageKeeps
  <2> QED
    BY <1>a, <2>2, <2>4 DEF ProfileInv
<1>4. CASE SubmitProfile
  <2>1. form' = [form EXCEPT !.submitting = TRUE] /\ UNCHANGED <<user, approval>>
    BY <1>4 DEF SubmitProfile
  <2>2. /\ [form EXCEPT !.submitting = TRUE] \in FormShape
        /\ [form EXCEPT !.submitting = TRUE].open = form.open
        /\ [form EXCEPT !.submitting = TRUE].draft = form.draft
        /\ [form EXCEPT !.submitting = TRUE].typed = form.typed
    BY <1>0 DEF FormShape
  <2>3. PageInv'
    BY <1>0, <2>1, <2>2, PageKeeps
  <2> QED
    BY <1>4, <2>3, SubmitProfileKeeps DEF ProfileInv
<1>5. ASSUME NEW f \in Fields, NEW t \in Texts, TypeField(f, t) PROVE ProfileInv'
  BY <1>5, <1>0, <1>a, TypeKeeps DEF TypeField, ProfileInv
<1>6. ASSUME NEW f \in Fields, NEW t \in Texts, SavedElsewhere(f, t) PROVE ProfileInv'
  <2>1. profile \in Rows
    BY <1>0 DEF SavesInv
  <2>2. profile' \in Rows /\ profile'.picture = profile.picture
    BY <1>6, <2>1 DEF SavedElsewhere, Rows
  <2>3. UNCHANGED <<photos, saves>>
    BY <1>6 DEF SavedElsewhere
  <2>4. SavesInv'
    BY <1>0, <2>2, <2>3 DEF SavesInv, SavesOnlyEdits
  <2> QED
    BY <1>6, <1>b, <2>4 DEF SavedElsewhere, ProfileInv
<1>7. ASSUME NEW i \in DOMAIN saves, PresignAvatar(i) PROVE ProfileInv'
  <2>1. PICK s \in SaveShape : /\ saves' = [saves EXCEPT ![i] = s]
                              /\ s.photo = saves[i].photo /\ s.step = "put"
                              /\ s.patch = saves[i].patch /\ s.typed = saves[i].typed
    BY <1>0, <1>7, ToShape DEF PresignAvatar
  <2>2. UNCHANGED <<profile, photos, user, form, approval>>
    BY <1>7 DEF PresignAvatar
  <2>3. DOMAIN s.patch \subseteq s.typed /\ profile \in Rows
    BY <1>0, <2>1 DEF SavesInv, SavesOnlyEdits
  <2>4. SavesInv'
    BY <1>0, <2>1, <2>2, <2>3, SaveGoesOn
  <2> QED
    BY <1>b, <2>2, <2>4 DEF ProfileInv
<1>8. ASSUME NEW i \in DOMAIN saves, PutAvatar(i) PROVE ProfileInv'
  <2>1. PICK s \in SaveShape : /\ saves' = [saves EXCEPT ![i] = s]
                              /\ s.photo = saves[i].photo /\ s.step = "patch"
                              /\ s.patch = saves[i].patch /\ s.typed = saves[i].typed
    BY <1>0, <1>8, ToShape DEF PutAvatar
  <2>2. photos' = photos \cup {i} /\ UNCHANGED <<profile, user, form, approval>>
    BY <1>8 DEF PutAvatar
  <2>3. DOMAIN s.patch \subseteq s.typed /\ profile \in Rows /\ i \in 1 .. MaxSaves
    BY <1>0, <2>1, ProfileAssumption DEF SavesInv, SavesOnlyEdits
  <2>4. SavesInv'
    BY <1>0, <2>1, <2>2, <2>3, SaveGoesOn
  <2> QED
    BY <1>b, <2>2, <2>4 DEF ProfileInv
<1>9. ASSUME NEW i \in DOMAIN saves, patchMeMultipartBody(i) \/ patchMeJsonBody(i) PROVE ProfileInv'
  <2>1. Updates(i)
    BY <1>9 DEF patchMeMultipartBody, patchMeJsonBody
  <2> QED
    BY <1>0, <1>b, <2>1, UpdatesKeeps DEF Updates, ProfileInv
<1>10. ASSUME NEW i \in DOMAIN saves, ReadProfile(i) PROVE ProfileInv'
  <2> DEFINE s == [saves[i] EXCEPT !.step = "answer", !.answer = profile]
  <2>1. saves[i] \in SaveShape /\ profile \in Rows
    BY <1>0 DEF SavesInv
  <2>2. /\ s \in SaveShape /\ s.photo = saves[i].photo /\ s.step = "answer"
        /\ s.patch = saves[i].patch /\ s.typed = saves[i].typed
    BY <2>1 DEF SaveShape
  <2>3. saves' = [saves EXCEPT ![i] = s] /\ UNCHANGED <<profile, photos, user, form, approval>>
    BY <1>10 DEF ReadProfile
  <2> HIDE DEF s
  <2>4. DOMAIN s.patch \subseteq s.typed
    BY <1>0, <2>2 DEF SavesInv, SavesOnlyEdits
  <2>5. SavesInv'
    BY <1>0, <2>1, <2>2, <2>3, <2>4, SaveGoesOn
  <2> QED
    BY <1>b, <2>3, <2>5 DEF ProfileInv
<1>11. ASSUME NEW i \in DOMAIN saves, ProfileSaved(i) PROVE ProfileInv'
  <2> DEFINE page == IF form.open /\ form.page = saves[i].page
                     THEN [form EXCEPT !.submitting = FALSE, !.photo = FALSE] ELSE form
  <2>0. saves[i] \in SaveShape
    BY <1>0 DEF SavesInv
  <2>1. saves[i].answer \in Rows
    BY <2>0 DEF SaveShape
  <2>2. page \in FormShape
    BY <1>0 DEF FormShape
  <2>3. approval' \in ApprovalShape /\ ~approval'.same
    BY <1>0, <1>11 DEF ProfileSaved, ApprovalShape
  <2>4. user' = saves[i].answer /\ form' = Filled(saves[i].answer, page) /\ UNCHANGED <<profile, photos>>
    BY <1>11 DEF ProfileSaved
  <2> HIDE DEF page
  <2>5. PageInv'
    BY <2>1, <2>2, <2>3, <2>4, UserFills
  <2>6. SavesInv'
    BY <1>0, <1>11, <2>4, EndedKeeps DEF ProfileSaved
  <2> QED
    BY <2>5, <2>6 DEF ProfileInv
<1>12. ASSUME NEW i \in DOMAIN saves, SaveFails(i) PROVE ProfileInv'
  <2> DEFINE page == IF form.page = saves[i].page THEN [form EXCEPT !.submitting = FALSE] ELSE form
  <2>1. /\ page \in FormShape /\ page.open = form.open
        /\ page.draft = form.draft /\ page.typed = form.typed
    BY <1>0 DEF FormShape
  <2>2. form' = page /\ UNCHANGED <<profile, user, approval>> /\ Ended(i)
    BY <1>12 DEF SaveFails
  <2> HIDE DEF page
  <2>3. PageInv'
    BY <1>0, <2>1, <2>2, PageKeeps
  <2>4. i \in 1 .. MaxSaves
    BY <1>0, ProfileAssumption DEF SavesInv
  <2>5. photos \subseteq photos' /\ photos' \subseteq 1 .. MaxSaves
    BY <1>0, <1>12, <2>4 DEF SaveFails
  <2>6. SavesInv'
    BY <1>0, <2>2, <2>5, EndedKeeps
  <2> QED
    BY <2>3, <2>6 DEF ProfileInv
<1>13. CASE ApproveStarts
  <2>1. approval' = [step |-> "refreshing", user |-> user, same |-> TRUE] /\ UNCHANGED <<user, form>>
    BY <1>13 DEF ApproveStarts
  <2>2. PageInv'
    BY <1>0, <2>1 DEF PageInv, Changed, ApprovalShape
  <2> QED
    BY <1>13, <1>a, <2>2 DEF ApproveStarts, ProfileInv
<1>14. CASE ApproveRefreshed
  <2>1. /\ approval' = [step |-> "idle", user |-> Nobody, same |-> FALSE] /\ user' = approval.user
        /\ form' = IF approval.same THEN form ELSE Filled(approval.user, form)
        /\ UNCHANGED <<profile, photos, saves>>
    BY <1>14 DEF ApproveRefreshed
  <2>2. approval.user \in Rows /\ approval' \in ApprovalShape /\ ~approval'.same
    BY <1>0, <2>1, NobodyTyped DEF ApprovalShape
  <2>3. CASE approval.same
    BY <1>0, <1>a, <2>1, <2>2, <2>3 DEF PageInv, Changed, ProfileInv
  <2>4. CASE ~approval.same
    BY <1>0, <1>a, <2>1, <2>2, <2>4, UserFills DEF ProfileInv
  <2> QED
    BY <2>3, <2>4
<1>15. CASE UNCHANGED profileVars
  BY <1>a, <1>b, <1>15 DEF profileVars, ProfileInv
<1> QED
  BY <1>1, <1>2, <1>3, <1>4, <1>5, <1>6, <1>7, <1>8, <1>9, <1>10, <1>11, <1>12, <1>13, <1>14, <1>15
     DEF ProfileNext

LEMMA ProfileStarts == ProfileInit => ProfileInv
<1> SUFFICES ASSUME ProfileInit PROVE ProfileInv
  OBVIOUS
<1>1. profile \in Rows /\ profile.picture = 0
  BY ProfileAssumption DEF ProfileInit, Rows
<1>2. form \in FormShape /\ ~form.open
  BY ClosedTyped DEF ProfileInit
<1>3. approval \in ApprovalShape /\ ~approval.same
  BY NobodyTyped DEF ProfileInit, ApprovalShape
<1>4. SavesInv
  BY <1>1, ProfileAssumption DEF ProfileInit, SavesInv, SavesOnlyEdits
<1> QED
  BY <1>1, <1>2, <1>3, <1>4 DEF ProfileInit, ProfileInv, PageInv

\* The settings page, patchMe: no save writes a field its page has not typed, and the
\* picture of the row is in storage, whatever another browser, an approval or a failure
\* does meanwhile.
THEOREM OnlyEditsSaved == ProfileSpec => []SavesOnlyEdits
<1>1. ProfileInv => SavesOnlyEdits
  BY DEF ProfileInv, SavesInv
<1> QED
  BY <1>1, ProfileStarts, ProfileSteps, PTL DEF ProfileSpec

-----------------------------------------------------------------------------
(* The texts of a conversation.                                            *)

Some == SUBSET AllMessages
ThreadShape ==
  [place: {"gate", "away", "here"}, listed: Nat, rows: Some, slots: Some, keys: Some, own: KeptTexts,
   body: [AllMessages -> {"none", "text", "noSlot", "noKey", "failed"}],
   typing: Typed \cup {NoMessage}, shown: BOOLEAN, deaf: BOOLEAN,
   asked: BOOLEAN, page: Some, pageSlots: Some]
RunShape == [step: {"idle", "key", "id", "body"}, left: Some, slots: Some, id: BOOLEAN]
DeviceShape == [held: {"none", "id", "key"}, step: {"idle", "register", "store"}, tries: Nat]

TextShapes ==
  /\ stored \in Some /\ wrapped \in Some /\ disk \in KeptTexts
  /\ device \in DeviceShape /\ thread \in ThreadShape /\ decrypt \in RunShape

\* The entries that the effect depends on.
Unread == {m \in thread.slots : m \in Theirs \/ thread.own[m] = NoMessage}

\* A row this device could read is a target of the run under way.
Covered == thread.place = "here" => Targets \cap thread.slots \subseteq decrypt.left

\* What the run has rendered is up to date, and the device keeps the key it found.
Rendered ==
  /\ decrypt.step # "idle" => decrypt.left \cap Unread \subseteq decrypt.slots
  /\ decrypt.step = "idle" => decrypt.left = {}
  /\ decrypt.step = "id" => device.held = "key"
  /\ decrypt.step = "body" => decrypt.id
  /\ device.step # "idle" => device.held # "key"

TextInv == TextShapes /\ Covered /\ Rendered

-----------------------------------------------------------------------------
\* The effect follows every change of the rows, of the entries and of the texts typed here.
LEMMA EffectKeeps ==
  ASSUME TextInv, thread' \in ThreadShape, device' \in DeviceShape,
         stored' \in Some, wrapped' \in Some, disk' \in KeptTexts, Effect,
         \A m \in thread'.rows : thread'.body[m] = thread.body[m],
         device.held = "key" => device'.held = "key",
         device'.step # "idle" => device'.held # "key"
  PROVE  TextInv'
<1> USE DEF TextInv
<1>1. thread \in ThreadShape /\ decrypt \in RunShape
  BY DEF TextShapes
<1>2. CASE thread'.place # "here"
  <2>1. decrypt' = Idle
    BY <1>2 DEF Effect
  <2> QED
    BY <1>2, <2>1 DEF TextShapes, Covered, Rendered, Idle, RunShape, Some
<1>3. CASE thread'.place = "here" /\ Signature' = Signature
  <2>1. decrypt' = decrypt
    BY <1>3 DEF Effect
  <2>2. thread.place = "here" /\ thread'.rows = thread.rows /\ Unread' = Unread
    BY <1>3 DEF Signature, Unread
  <2>3. Targets \cap thread.slots = {m \in thread.rows \cap Unread : thread.body[m] \in {"none", "noSlot"}}
    BY DEF Targets, Unread
  <2>4. (Targets \cap thread.slots)' =
          {m \in thread'.rows \cap Unread' : thread'.body[m] \in {"none", "noSlot"}}
    BY DEF Targets, Unread
  <2>5. (Targets \cap thread.slots)' \subseteq Targets \cap thread.slots
    BY <2>2, <2>3, <2>4
  <2>6. Covered'
    BY <2>1, <2>2, <2>5 DEF Covered
  <2>7. Rendered'
    BY <2>1, <2>2 DEF Rendered
  <2> QED
    BY <2>1, <2>6, <2>7 DEF TextShapes
<1>4. CASE thread'.place = "here" /\ Signature' # Signature
  <2>1. decrypt' = Run'
    BY <1>3, <1>4 DEF Effect
  <2>2. Targets' \in Some
    BY DEF Targets, ThreadShape, Some
  <2>3. CASE Targets' = {}
    <3>1. decrypt' = Idle
      BY <2>1, <2>3 DEF Run
    <3> QED
      BY <2>3, <3>1 DEF TextShapes, Covered, Rendered, Idle, RunShape, Some
  <2>4. CASE Targets' # {}
    <3>1. decrypt' = [step |-> "key", left |-> Targets', slots |-> Targets' \cap thread'.slots, id |-> FALSE]
      BY <2>1, <2>4 DEF Run, Idle
    <3>2. decrypt' \in RunShape
      BY <2>2, <3>1 DEF RunShape, Some
    <3>3. Covered' /\ Rendered'
      BY <3>1 DEF Covered, Rendered, Unread
    <3> QED
      BY <3>2, <3>3 DEF TextShapes
  <2> QED
    BY <2>3, <2>4
<1> QED
  BY <1>2, <1>3, <1>4

\* Without a change of what the effect depends on.
LEMMA StillKeeps ==
  ASSUME TextInv, thread' \in ThreadShape, device' \in DeviceShape,
         stored' \in Some, wrapped' \in Some, disk' \in KeptTexts, decrypt' = decrypt,
         thread'.place = thread.place \/ thread'.place # "here",
         thread'.rows = thread.rows, thread'.slots = thread.slots,
         thread'.own = thread.own, thread'.body = thread.body,
         device.held = "key" => device'.held = "key",
         device'.step # "idle" => device'.held # "key"
  PROVE  TextInv'
<1>1. Targets' = Targets /\ Unread' = Unread
  BY DEF Targets, Unread
<1> QED
  BY <1>1 DEF TextInv, TextShapes, Covered, Rendered

\* The text of some rows.
LEMMA BodyShape ==
  ASSUME thread \in ThreadShape, NEW ms, NEW what \in {"text", "noSlot", "noKey", "failed"}, Body(ms, what)
  PROVE  /\ thread' \in ThreadShape
         /\ \A m \in AllMessages : thread'.body[m] = IF m \in ms THEN what ELSE thread.body[m]
         /\ UNCHANGED <<thread.place, thread.rows, thread.slots, thread.own>>
<1> DEFINE body == [m \in AllMessages |-> IF m \in ms THEN what ELSE thread.body[m]]
<1>1. thread' = [thread EXCEPT !.body = body]
  BY DEF Body
<1>2. body \in [AllMessages -> {"none", "text", "noSlot", "noKey", "failed"}]
  BY DEF ThreadShape
<1>3. \A m \in AllMessages : body[m] = IF m \in ms THEN what ELSE thread.body[m]
  OBVIOUS
<1> HIDE DEF body
<1> QED
  BY <1>1, <1>2, <1>3 DEF ThreadShape

LEMMA LoadKeyKeeps ==
  ASSUME TextInv, LoadKey
  PROVE  TextInv'
<1>1. /\ thread \in ThreadShape /\ decrypt \in RunShape /\ decrypt.step = "key"
      /\ UNCHANGED <<stored, wrapped, device, disk>>
  BY DEF LoadKey, TextInv, TextShapes
<1>2. CASE device.held = "key"
  <2>1. decrypt' = [decrypt EXCEPT !.step = "id"] /\ UNCHANGED thread
    BY <1>2 DEF LoadKey
  <2>2. decrypt' \in RunShape /\ decrypt'.step = "id" /\ decrypt'.left = decrypt.left /\ decrypt'.slots = decrypt.slots
    BY <1>1, <2>1 DEF RunShape
  <2>3. Targets' = Targets /\ Unread' = Unread
    BY <2>1 DEF Targets, Unread
  <2> QED
    BY <1>1, <1>2, <2>1, <2>2, <2>3 DEF TextInv, TextShapes, Covered, Rendered
<1>3. CASE device.held # "key"
  <2>1. decrypt' = Idle /\ Body(decrypt.left, "noKey")
    BY <1>3 DEF LoadKey
  <2>2. /\ thread' \in ThreadShape
        /\ \A m \in AllMessages : thread'.body[m] = IF m \in decrypt.left THEN "noKey" ELSE thread.body[m]
        /\ UNCHANGED <<thread.place, thread.rows, thread.slots, thread.own>>
    BY <1>1, <2>1, BodyShape
  <2>3. thread.rows \subseteq AllMessages
    BY <1>1 DEF ThreadShape, Some
  <2>4. Targets' \cap decrypt.left = {} /\ Targets' \subseteq Targets
    BY <2>2, <2>3 DEF Targets
  <2>5. Covered'
    BY <2>2, <2>4 DEF TextInv, Covered
  <2>6. decrypt' \in RunShape
    BY <2>1 DEF Idle, RunShape, Some
  <2> QED
    BY <1>1, <2>1, <2>2, <2>5, <2>6 DEF TextInv, TextShapes, Rendered, Idle
<1> QED
  BY <1>2, <1>3

LEMMA DecryptKeeps ==
  ASSUME TextInv, NEW m \in AllMessages, Decrypt(m)
  PROVE  TextInv'
<1>1. /\ thread \in ThreadShape /\ decrypt \in RunShape /\ decrypt.step = "body" /\ m \in decrypt.left
      /\ UNCHANGED <<stored, wrapped, device, disk>> /\ decrypt.id
  BY DEF Decrypt, TextInv, TextShapes, Rendered
<1>2. PICK what \in Outcomes(m) : Body({m}, what)
  BY DEF Decrypt
<1>3. what \in {"text", "noSlot", "noKey", "failed"} /\ (m \in Unread => what \in {"text", "failed"})
  BY <1>1, <1>2 DEF Outcomes, TextInv, Rendered
<1>4. /\ thread' \in ThreadShape
      /\ \A r \in AllMessages : thread'.body[r] = IF r \in {m} THEN what ELSE thread.body[r]
      /\ UNCHANGED <<thread.place, thread.rows, thread.slots, thread.own>>
  BY <1>1, <1>2, <1>3, BodyShape
<1>5. thread.rows \subseteq AllMessages
  BY <1>1 DEF ThreadShape, Some
<1>6. Unread' = Unread
  BY <1>4 DEF Unread
<1>7. Targets' \cap thread'.slots \subseteq (Targets \cap thread.slots) \ {m}
  BY <1>3, <1>4, <1>5 DEF Targets, Unread
<1>8. CASE decrypt.left = {m}
  <2>1. decrypt' = Idle
    BY <1>8 DEF Decrypt
  <2>2. Covered'
    BY <1>4, <1>7, <1>8 DEF TextInv, Covered
  <2>3. decrypt' \in RunShape
    BY <2>1 DEF Idle, RunShape, Some
  <2> QED
    BY <1>1, <1>4, <2>1, <2>2, <2>3 DEF TextInv, TextShapes, Rendered, Idle
<1>9. CASE decrypt.left # {m}
  <2>1. decrypt' = [decrypt EXCEPT !.left = @ \ {m}, !.slots = @ \ {m}]
    BY <1>9 DEF Decrypt
  <2>2. /\ decrypt' \in RunShape /\ decrypt'.step = "body" /\ decrypt'.id = decrypt.id
        /\ decrypt'.left = decrypt.left \ {m} /\ decrypt'.slots = decrypt.slots \ {m}
    BY <1>1, <2>1 DEF RunShape, Some
  <2>3. Covered'
    BY <1>4, <1>7, <2>2 DEF TextInv, Covered
  <2>4. Rendered'
    BY <1>1, <1>6, <2>2 DEF TextInv, Rendered
  <2> QED
    BY <1>1, <1>4, <2>2, <2>3, <2>4 DEF TextInv, TextShapes
<1> QED
  BY <1>8, <1>9

-----------------------------------------------------------------------------
\* What the store does with a row leaves the decrypted texts alone.
LEMMA TakeShape ==
  ASSUME NEW t \in ThreadShape, NEW m \in AllMessages
  PROVE  Take(t, m) \in ThreadShape /\ Take(t, m).body = t.body
<1> DEFINE keys == IF t.shown /\ t.typing \in Attached THEN t.keys \cup {m} ELSE t.keys \ {m}
           own == [t.own EXCEPT ![m] = IF t.shown /\ t.typing \in Captioned THEN t.typing ELSE @]
<1>1. keys \in Some /\ own \in KeptTexts
  BY DEF ThreadShape, Some, KeptTexts
<1>2. Take(t, m) = [t EXCEPT !.keys = keys, !.own = own]
  BY DEF Take
<1> HIDE DEF keys, own
<1> QED
  BY <1>1, <1>2, ZenonT(60) DEF ThreadShape

LEMMA RowShape ==
  ASSUME NEW t \in ThreadShape, NEW m \in AllMessages
  PROVE  Row(t, m) \in ThreadShape /\ Row(t, m).body = t.body
<1> DEFINE shown == t.rows \cup {m}
           slots == IF m \in wrapped' THEN t.slots \cup {m} ELSE t.slots \ {m}
<1>1. shown \in Some /\ slots \in Some
  BY DEF ThreadShape, Some
<1>2. Row(t, m) = [t EXCEPT !.rows = shown, !.slots = slots]
  BY DEF Row
<1> HIDE DEF shown, slots
<1> QED
  BY <1>1, <1>2, ZenonT(60) DEF ThreadShape

LEMMA FinishedShape ==
  ASSUME NEW t \in ThreadShape
  PROVE  Finished(t) \in ThreadShape /\ Finished(t).body = t.body
BY DEF Finished, ThreadShape

LEMMA FreshShape ==
  ASSUME NEW texts \in KeptTexts, NEW n \in Nat
  PROVE  FreshThread(texts, n) \in ThreadShape
<1> DEFINE body == [m \in AllMessages |-> "none"]
<1>1. body \in [AllMessages -> {"none", "text", "noSlot", "noKey", "failed"}]
  OBVIOUS
<1>2. {} \in Some
  BY DEF Some
<1> HIDE DEF body
<1>3. FreshThread(texts, n) =
        [place |-> "gate", listed |-> n, rows |-> {}, slots |-> {}, keys |-> {}, own |-> texts,
         body |-> body, typing |-> NoMessage, shown |-> FALSE, deaf |-> FALSE,
         asked |-> FALSE, page |-> {}, pageSlots |-> {}]
  BY DEF FreshThread, body
<1> QED
  BY <1>1, <1>2, <1>3 DEF ThreadShape

LEMMA PersistShape ==
  ASSUME disk \in KeptTexts, thread' \in ThreadShape, NEW m \in AllMessages, Persist(m)
  PROVE  disk' \in KeptTexts
<1>1. CASE disk' = disk
  BY <1>1
<1>2. CASE disk' = [disk EXCEPT ![m] = thread'.own[m]]
  <2>1. thread'.own[m] \in Typed \cup {NoMessage}
    BY DEF ThreadShape, KeptTexts
  <2> QED
    BY <1>2, <2>1 DEF KeptTexts
<1> QED
  BY <1>1, <1>2 DEF Persist

LEMMA IncomingShape ==
  ASSUME thread \in ThreadShape, disk \in KeptTexts, NEW m \in AllMessages, Incoming(m)
  PROVE  thread' \in ThreadShape /\ thread'.body = thread.body /\ disk' \in KeptTexts
<1>1. thread' \in ThreadShape /\ thread'.body = thread.body
  <2>1. CASE m \in thread.rows
    BY <2>1 DEF Incoming
  <2>2. CASE m \notin thread.rows /\ m \in Mine /\ thread.shown
    <3> DEFINE t == Row(Take(thread, m), m)
    <3>1. t \in ThreadShape /\ t.body = thread.body
      BY TakeShape, RowShape
    <3>2. thread' = [t EXCEPT !.shown = FALSE]
      BY <2>2 DEF Incoming
    <3> HIDE DEF t
    <3> QED
      BY <3>1, <3>2 DEF ThreadShape
  <2>3. CASE m \notin thread.rows /\ ~(m \in Mine /\ thread.shown)
    BY <2>3, RowShape DEF Incoming
  <2> QED
    BY <2>1, <2>2, <2>3
<1> QED
  BY <1>1, PersistShape DEF Incoming

LEMMA HydrateShape ==
  ASSUME thread \in ThreadShape, Hydrate
  PROVE  /\ thread' \in ThreadShape
         /\ \A m \in thread'.rows : thread'.body[m] = thread.body[m]
<1> DEFINE gone == thread.rows \ thread.page
           own == [m \in AllMessages |-> IF m \in gone THEN NoMessage ELSE thread.own[m]]
           body == [m \in AllMessages |-> IF m \in gone THEN "none" ELSE thread.body[m]]
           keys == thread.keys \cap thread.page
<1>1. thread' = [thread EXCEPT !.rows = thread.page, !.slots = thread.pageSlots, !.keys = keys,
                               !.own = own, !.body = body, !.shown = FALSE, !.asked = FALSE,
                               !.page = {}, !.pageSlots = {}]
  BY DEF Hydrate
<1>2. own \in KeptTexts /\ keys \in Some /\ {} \in Some
  BY DEF ThreadShape, KeptTexts, Some
<1>3. body \in [AllMessages -> {"none", "text", "noSlot", "noKey", "failed"}]
  BY DEF ThreadShape
<1>4. \A m \in thread.page : body[m] = thread.body[m]
  BY DEF ThreadShape, Some
<1> HIDE DEF own, body, keys
<1>5. thread' \in ThreadShape /\ thread'.rows = thread.page /\ thread'.body = body
  BY <1>1, <1>2, <1>3 DEF ThreadShape
<1> QED
  BY <1>4, <1>5

\* The answer to a first message.
LEMMA FirstShape ==
  ASSUME thread \in ThreadShape, disk \in KeptTexts, NEW m \in Typed, FirstMessage(m)
  PROVE  thread' \in ThreadShape /\ thread'.body = thread.body /\ disk' \in KeptTexts
<1> DEFINE own == [thread.own EXCEPT ![m] = IF m \in Captioned THEN m ELSE @]
<1>1. own \in KeptTexts
  BY DEF ThreadShape, KeptTexts, AllMessages
<1>2. thread' = [thread EXCEPT !.place = "here", !.own = own]
  BY DEF FirstMessage
<1> HIDE DEF own
<1>3. thread' \in ThreadShape /\ thread'.body = thread.body
  BY <1>1, <1>2 DEF ThreadShape
<1> QED
  BY <1>3, PersistShape DEF FirstMessage, AllMessages

\* The steps of the device: it keeps its key.
LEMMA DeviceKeeps ==
  ASSUME TextInv, EnsureStarts \/ Registered \/ KeyStored \/ RegisterFails
  PROVE  /\ device' \in DeviceShape
         /\ device.held = "key" => device'.held = "key"
         /\ device'.step # "idle" => device'.held # "key"
<1>1. device \in DeviceShape /\ (device.step # "idle" => device.held # "key")
  BY DEF TextInv, TextShapes, Rendered
<1>2. CASE EnsureStarts
  <2>1. /\ device' = [device EXCEPT !.step = "register", !.tries = device.tries + 1]
        /\ device.held = "none" /\ device.tries + 1 \in Nat
    BY <1>1, <1>2 DEF EnsureStarts, DeviceShape
  <2> QED
    BY <1>1, <2>1 DEF DeviceShape
<1>3. CASE Registered
  BY <1>1, <1>3 DEF Registered, DeviceShape
<1>4. CASE KeyStored
  BY <1>1, <1>4 DEF KeyStored, DeviceShape
<1>5. CASE RegisterFails
  BY <1>1, <1>5 DEF RegisterFails, DeviceShape
<1> QED
  BY <1>2, <1>3, <1>4, <1>5

LEMMA TextSteps == TextInv /\ [TextNext]_textVars => TextInv'
<1> SUFFICES ASSUME TextInv, [TextNext]_textVars PROVE TextInv'
  OBVIOUS
<1>0. /\ thread \in ThreadShape /\ device \in DeviceShape /\ decrypt \in RunShape
      /\ stored \in Some /\ wrapped \in Some /\ disk \in KeptTexts
      /\ device.step # "idle" => device.held # "key"
  BY DEF TextInv, TextShapes, Rendered
<1>a. Typed \subseteq AllMessages /\ \A m \in Typed : m # NoMessage
  BY TextAssumption DEF AllMessages
<1>1. CASE LoadKey
  BY <1>1, LoadKeyKeeps
<1>2. CASE LoadDeviceId
  <2>1. decrypt.step = "id" /\ decrypt' = [decrypt EXCEPT !.step = "body", !.id = device.held # "none"]
    BY <1>2 DEF LoadDeviceId
  <2>2. device.held = "key" /\ UNCHANGED <<stored, wrapped, device, disk, thread>>
    BY <1>2, <2>1 DEF LoadDeviceId, TextInv, Rendered
  <2>3. /\ decrypt' \in RunShape /\ decrypt'.step = "body" /\ decrypt'.id
        /\ decrypt'.left = decrypt.left /\ decrypt'.slots = decrypt.slots
    BY <1>0, <2>1, <2>2 DEF RunShape
  <2>4. Targets' = Targets /\ Unread' = Unread
    BY <2>2 DEF Targets, Unread
  <2> QED
    BY <1>0, <2>1, <2>2, <2>3, <2>4 DEF TextInv, TextShapes, Covered, Rendered
<1>3. ASSUME NEW m \in AllMessages, Decrypt(m) PROVE TextInv'
  BY <1>3, DecryptKeeps
<1>4. ASSUME NEW m \in AllMessages, WrapForDevice(m) PROVE TextInv'
  <2>1. wrapped' \in Some /\ UNCHANGED <<stored, device, disk, thread, decrypt>>
    BY <1>0, <1>4 DEF WrapForDevice, Some
  <2> QED
    BY <1>0, <2>1, StillKeeps
<1>5. CASE EnsureStarts
  <2>1. thread' = [thread EXCEPT !.listed = device.tries + 1] /\ Effect /\ UNCHANGED <<stored, wrapped, disk>>
    BY <1>5 DEF EnsureStarts
  <2>2. thread' \in ThreadShape /\ thread'.body = thread.body
    BY <1>0, <2>1 DEF ThreadShape, DeviceShape
  <2> QED
    BY <1>0, <1>5, <2>1, <2>2, DeviceKeeps, EffectKeeps
<1>6. CASE Registered
  <2>1. UNCHANGED <<stored, wrapped, disk, thread, decrypt>>
    BY <1>6 DEF Registered
  <2> QED
    BY <1>0, <1>6, <2>1, DeviceKeeps, StillKeeps
<1>7. CASE KeyStored \/ RegisterFails
  <2>1. thread' = [thread EXCEPT !.place = Past(@)] /\ Effect /\ UNCHANGED <<stored, wrapped, disk>>
    BY <1>7 DEF KeyStored, RegisterFails
  <2>2. thread' \in ThreadShape /\ thread'.body = thread.body
    BY <1>0, <2>1 DEF ThreadShape, Past
  <2> QED
    BY <1>0, <1>7, <2>1, <2>2, DeviceKeeps, EffectKeeps
<1>8. CASE GateOpens
  <2>1. thread' = [thread EXCEPT !.place = "away"] /\ UNCHANGED <<stored, wrapped, device, disk, decrypt>>
    BY <1>8 DEF GateOpens
  <2>2. /\ thread' \in ThreadShape /\ thread'.place # "here" /\ thread'.rows = thread.rows
        /\ thread'.slots = thread.slots /\ thread'.own = thread.own /\ thread'.body = thread.body
    BY <1>0, <2>1 DEF ThreadShape
  <2> QED
    BY <1>0, <2>1, <2>2, StillKeeps
<1>9. CASE OpenThread
  <2>1. thread' = [thread EXCEPT !.place = "here"] /\ Effect /\ UNCHANGED <<stored, wrapped, device, disk>>
    BY <1>9 DEF OpenThread
  <2>2. thread' \in ThreadShape /\ thread'.body = thread.body
    BY <1>0, <2>1 DEF ThreadShape
  <2> QED
    BY <1>0, <2>1, <2>2, EffectKeeps
<1>10. CASE LeaveThread
  <2>1. /\ thread' = [thread EXCEPT !.place = "away", !.asked = FALSE, !.page = {}, !.pageSlots = {}]
        /\ Effect /\ UNCHANGED <<stored, wrapped, device, disk>>
    BY <1>10 DEF LeaveThread
  <2>2. thread' \in ThreadShape /\ thread'.body = thread.body
    BY <1>0, <2>1 DEF ThreadShape, Some
  <2> QED
    BY <1>0, <2>1, <2>2, EffectKeeps
<1>11. CASE FetchThread
  <2>1. /\ thread' = [thread EXCEPT !.asked = TRUE, !.page = stored, !.pageSlots = wrapped]
        /\ UNCHANGED <<stored, wrapped, device, disk, decrypt>>
    BY <1>11 DEF FetchThread
  <2>2. /\ thread' \in ThreadShape /\ thread'.place = thread.place /\ thread'.rows = thread.rows
        /\ thread'.slots = thread.slots /\ thread'.own = thread.own /\ thread'.body = thread.body
    BY <1>0, <2>1 DEF ThreadShape
  <2> QED
    BY <1>0, <2>1, <2>2, StillKeeps
<1>12. CASE Hydrate
  <2>1. Effect /\ UNCHANGED <<stored, wrapped, device, disk>>
    BY <1>12 DEF Hydrate
  <2>2. thread' \in ThreadShape /\ \A m \in thread'.rows : thread'.body[m] = thread.body[m]
    BY <1>0, <1>12, HydrateShape
  <2> QED
    BY <1>0, <2>1, <2>2, EffectKeeps
<1>13. ASSUME NEW m \in Echoes \cup Theirs, SendElsewhere(m) PROVE TextInv'
  <2>1. m \in AllMessages
    BY DEF AllMessages
  <2>2. stored' \in Some /\ wrapped' \in Some /\ Effect /\ UNCHANGED device
    BY <1>0, <1>13, <2>1 DEF SendElsewhere, Some
  <2>3. thread' \in ThreadShape /\ thread'.body = thread.body /\ disk' \in KeptTexts
    <3>1. CASE Incoming(m)
      BY <1>0, <2>1, <3>1, IncomingShape
    <3>2. CASE UNCHANGED <<thread, disk>>
      BY <1>0, <3>2
    <3> QED
      BY <1>13, <3>1, <3>2 DEF SendElsewhere
  <2> QED
    BY <1>0, <2>2, <2>3, EffectKeeps
<1>14. ASSUME NEW m \in Typed, TypeMessage(m) PROVE TextInv'
  <2>1. /\ thread' = [thread EXCEPT !.typing = m, !.shown = TRUE]
        /\ Effect /\ UNCHANGED <<stored, wrapped, device, disk>>
    BY <1>14 DEF TypeMessage
  <2>2. thread' \in ThreadShape /\ thread'.body = thread.body
    BY <1>0, <2>1 DEF ThreadShape
  <2> QED
    BY <1>0, <2>1, <2>2, EffectKeeps
<1>15. ASSUME NEW m \in Typed, FirstMessage(m) PROVE TextInv'
  <2>1. thread' \in ThreadShape /\ thread'.body = thread.body /\ disk' \in KeptTexts
    BY <1>0, <1>15, FirstShape
  <2>2. stored' = {m} /\ wrapped' = {m} /\ Effect /\ UNCHANGED device
    BY <1>15 DEF FirstMessage
  <2>3. {m} \in Some
    BY <1>a DEF Some
  <2> QED
    BY <1>0, <2>1, <2>2, <2>3, EffectKeeps
<1>16. CASE StoreTyped
  <2>1. /\ thread.typing # NoMessage /\ stored' = stored \cup {thread.typing}
        /\ wrapped' = wrapped \cup {thread.typing}
        /\ UNCHANGED <<device, disk, thread, decrypt>>
    BY <1>16 DEF StoreTyped
  <2>2. thread.typing \in AllMessages
    BY <1>0, <1>a, <2>1 DEF ThreadShape
  <2>3. stored' \in Some /\ wrapped' \in Some
    BY <1>0, <2>1, <2>2 DEF Some
  <2> QED
    BY <1>0, <2>1, <2>3, StillKeeps
<1>17. CASE Acknowledged
  <2>1. thread.typing \in AllMessages
    BY <1>0, <1>a, <1>17 DEF Acknowledged, Typing, ThreadShape
  <2>2. thread' \in ThreadShape /\ thread'.body = thread.body
    BY <1>0, <1>17, <2>1, TakeShape, RowShape, FinishedShape DEF Acknowledged
  <2>3. disk' \in KeptTexts
    BY <1>0, <1>17, <2>1, <2>2, PersistShape DEF Acknowledged
  <2> QED
    BY <1>0, <1>17, <2>2, <2>3, EffectKeeps DEF Acknowledged
<1>18. CASE ConnectionLost
  <2>1. thread' = [thread EXCEPT !.deaf = TRUE] /\ UNCHANGED <<stored, wrapped, device, disk, decrypt>>
    BY <1>18 DEF ConnectionLost
  <2>2. /\ thread' \in ThreadShape /\ thread'.place = thread.place /\ thread'.rows = thread.rows
        /\ thread'.slots = thread.slots /\ thread'.own = thread.own /\ thread'.body = thread.body
    BY <1>0, <2>1 DEF ThreadShape
  <2> QED
    BY <1>0, <2>1, <2>2, StillKeeps
<1>19. CASE EchoTyped
  <2>1. thread.typing \in AllMessages
    BY <1>0, <1>a, <1>19 DEF EchoTyped, Typing, ThreadShape
  <2>2. thread' \in ThreadShape /\ thread'.body = thread.body /\ disk' \in KeptTexts
    BY <1>0, <1>19, <2>1, IncomingShape DEF EchoTyped
  <2> QED
    BY <1>0, <1>19, <2>2, EffectKeeps DEF EchoTyped
<1>20. CASE SendFailed
  <2>1. thread' \in ThreadShape /\ thread'.body = thread.body
    BY <1>0, <1>20, FinishedShape DEF SendFailed
  <2> QED
    BY <1>0, <1>20, <2>1, EffectKeeps DEF SendFailed
<1>21. CASE Reload
  <2>1. PICK texts \in {disk, NoTexts} :
          thread' = FreshThread(texts, IF device.held = "none" THEN 0 ELSE device.tries)
    BY <1>21 DEF Reload
  <2>2. texts \in KeptTexts
    BY <1>0 DEF NoTexts, KeptTexts
  <2>3. (IF device.held = "none" THEN 0 ELSE device.tries) \in Nat
    BY <1>0 DEF DeviceShape
  <2>4. thread' \in ThreadShape /\ thread'.place = "gate"
    BY <2>1, <2>2, <2>3, FreshShape DEF FreshThread
  <2>5. device' = [device EXCEPT !.step = "idle"] /\ decrypt' = Idle /\ UNCHANGED <<stored, wrapped, disk>>
    BY <1>21 DEF Reload
  <2>6. device' \in DeviceShape /\ device'.step = "idle" /\ decrypt' \in RunShape
    BY <1>0, <2>5 DEF DeviceShape, RunShape, Idle, Some
  <2> QED
    BY <1>0, <2>4, <2>5, <2>6 DEF TextInv, TextShapes, Covered, Rendered, Idle
<1>22. CASE UNCHANGED textVars
  BY <1>0, <1>22, StillKeeps DEF textVars
<1> QED
  BY <1>1, <1>2, <1>3, <1>4, <1>5, <1>6, <1>7, <1>8, <1>9, <1>10, <1>11, <1>12, <1>13, <1>14, <1>15,
     <1>16, <1>17, <1>18, <1>19, <1>20, <1>21, <1>22 DEF TextNext

LEMMA TextStarts == TextInit => TextInv
<1> SUFFICES ASSUME TextInit PROVE TextInv
  OBVIOUS
<1>1. NoTexts \in KeptTexts
  BY DEF NoTexts, KeptTexts
<1>2. PICK old \in SUBSET (Echoes \cup Theirs), new \in BOOLEAN :
        /\ stored = old /\ wrapped = IF new THEN {} ELSE old
        /\ device = [held |-> IF new THEN "none" ELSE "key", step |-> "idle", tries |-> IF new THEN 0 ELSE 1]
        /\ thread = FreshThread(NoTexts, IF new THEN 0 ELSE 1)
  BY DEF TextInit
<1>3. thread \in ThreadShape /\ thread.place = "gate"
  BY <1>1, <1>2, FreshShape DEF FreshThread
<1>4. device \in DeviceShape /\ device.step = "idle" /\ stored \in Some /\ wrapped \in Some
  BY <1>2 DEF DeviceShape, Some, AllMessages
<1>5. disk \in KeptTexts /\ decrypt = Idle
  BY <1>1 DEF TextInit
<1> QED
  BY <1>3, <1>4, <1>5 DEF TextInv, TextShapes, Covered, Rendered, Idle, RunShape, Some

\* usePeerMessageDecryption: in whatever order the rows, their entries, the device's key and
\* the texts typed here arrive, at rest no row that the device could read is left unread.
THEOREM RestReadable == TextSpec => []RestIsReadable
<1>1. TextInv => RestIsReadable
  BY DEF TextInv, TextShapes, ThreadShape, Some, AllMessages, Mine, Covered, Rendered, Readable,
         RestIsReadable, Targets
<1> QED
  BY <1>1, TextStarts, TextSteps, PTL DEF TextSpec

-----------------------------------------------------------------------------
(* Who is online.                                                          *)

\* A heartbeat under way belongs to a connection that is open or whose flush waits for it.
BeatSent ==
  \A c \in Connections : beat[c] # 0 => conn[c] = "up" \/ flush[c].step = "get" \/ broken

\* A key in Redis will be deleted by somebody.
Owned ==
  redis # 0 => broken \/ \E c \in Connections : conn[c] = "up" \/ flush[c].step # "none"

\* A flush deletes the key only after it has written a time.
Written ==
  \A c \in Connections : /\ flush[c].step = "update" => flush[c].at # 0
                         /\ flush[c].step = "del" => mongo # 0

\* Who has been seen is in one store or the other.
Somewhere == known => redis # 0 \/ mongo # 0 \/ broken

\* A lookup that began after that and found no key finds a time in MongoDB.
Found == \A a \in asks : a.step = "mongodb" /\ a.knew => mongo # 0 \/ broken

Stores == BeatSent /\ Owned /\ Written /\ Somewhere

PresenceInv == PresenceTypeOK /\ Stores /\ Found /\ SeenIsAnswered

-----------------------------------------------------------------------------
(* Type correctness.                                                       *)

\* What a message to the page of the viewer leaves in its channel.
LEMMA Posted ==
  ASSUME NEW S, NEW s \in Seq(S), NEW x \in S
  PROVE  Append(s, x) \in Seq(S)
OBVIOUS

LEMMA Taken ==
  ASSUME NEW S, NEW s \in Seq(S), s # <<>>
  PROVE  Tail(s) \in Seq(S) /\ Head(s) \in S
OBVIOUS

\* Whatever the page renders, it asks for no more than the bound and stays typed.
LEMMA RendersTyped ==
  ASSUME PresenceTypeOK, NEW h \in Headers, Renders(h, asks)
  PROVE  /\ header' \in Headers /\ asks' \subseteq Ask /\ asked' \in 0 .. MaxAsks
         /\ \A a \in asks' : a \in asks \/ a.step = "posted"
<1> DEFINE was == header
           runs == h.connected # was.connected \/ h.entry # was.entry
           load == runs /\ Loads(h)
           ticks == h.live /\ h.connected /\ ~(was.live /\ was.connected)
           n == (IF load THEN 1 ELSE 0) + (IF ticks THEN 1 ELSE 0)
<1>1. /\ asked + n <= MaxAsks
      /\ header' = IF runs THEN Loaded(h) ELSE h
      /\ asks' = asks \cup (IF load THEN {Request(asked + 1, "load")} ELSE {})
                      \cup (IF ticks THEN {Request(asked + n, "tick")} ELSE {})
      /\ asked' = asked + n
  BY DEF Renders
<1>2. MaxAsks \in Nat /\ asked \in 0 .. MaxAsks /\ asks \subseteq Ask
  BY PresenceAssumption DEF PresenceTypeOK
<1>3. n \in 0 .. 2 /\ (load => n >= 1) /\ (ticks => n >= 1)
  <2> HIDE DEF load, ticks
  <2>1. CASE load /\ ticks
    BY <2>1
  <2>2. CASE load /\ ~ticks
    BY <2>2
  <2>3. CASE ~load /\ ticks
    BY <2>3
  <2>4. CASE ~load /\ ~ticks
    BY <2>4
  <2> QED
    BY <2>1, <2>2, <2>3, <2>4
<1>4. Loaded(h) \in Headers
  BY DEF Loaded, Loads, Headers
<1> HIDE DEF load, ticks, n, runs
<1>5. load => Request(asked + 1, "load") \in Ask /\ Request(asked + 1, "load").step = "posted"
  BY <1>1, <1>2, <1>3 DEF Request, Ask
<1>6. ticks => Request(asked + n, "tick") \in Ask /\ Request(asked + n, "tick").step = "posted"
  BY <1>1, <1>2, <1>3 DEF Request, Ask
<1>7. header' \in Headers
  BY <1>1, <1>4
<1>8. asked' \in 0 .. MaxAsks
  BY <1>1, <1>2, <1>3
<1>9. \A a \in asks' : (a \in asks \/ a.step = "posted") /\ a \in Ask
  BY <1>1, <1>2, <1>5, <1>6
<1> QED
  BY <1>7, <1>8, <1>9

\* What the page makes of a message has the shape of a header.
LEMMA SettledTyped ==
  ASSUME NEW h \in Headers, NEW a \in Ask, NEW answer \in Terminal
  PROVE  Settled(h, a, answer) \in Headers
BY DEF Settled, Headers, Terminal

\* The steps of the user's connections keep the types and leave the viewer alone.
LEMMA ServerTyped ==
  ASSUME PresenceTypeOK,
         \/ \E c \in Connections : \/ Connect(c) \/ Heartbeat(c) \/ setLastSeen(c) \/ Disconnect(c)
                                   \/ FlushGet(c) \/ FlushUpdate(c) \/ FlushDelete(c) \/ Lost(c)
         \/ Lapse
  PROVE  PresenceTypeOK' /\ UNCHANGED viewerVars
<1> USE PresenceAssumption DEF PresenceTypeOK, viewerVars, Time, Mishap
<1>1. ASSUME NEW c \in Connections, Connect(c)
      PROVE  PresenceTypeOK' /\ UNCHANGED viewerVars
  BY <1>1 DEF Connect
<1>2. ASSUME NEW c \in Connections, Heartbeat(c)
      PROVE  PresenceTypeOK' /\ UNCHANGED viewerVars
  BY <1>2 DEF Heartbeat
<1>3. ASSUME NEW c \in Connections, setLastSeen(c)
      PROVE  PresenceTypeOK' /\ UNCHANGED viewerVars
  <2>1. CASE redis' = beat[c] /\ written' = beat[c] /\ known' = TRUE /\ UNCHANGED <<broken, mishaps>>
    BY <1>3, <2>1 DEF setLastSeen
  <2>2. CASE Mishap /\ UNCHANGED <<redis, written, known>>
    BY <1>3, <2>2 DEF setLastSeen
  <2> QED
    BY <1>3, <2>1, <2>2 DEF setLastSeen
<1>4. ASSUME NEW c \in Connections, Disconnect(c)
      PROVE  PresenceTypeOK' /\ UNCHANGED viewerVars
  BY <1>4 DEF Disconnect
<1>5. ASSUME NEW c \in Connections, FlushGet(c)
      PROVE  PresenceTypeOK' /\ UNCHANGED viewerVars
  <2>1. CASE redis = 0
    BY <1>5, <2>1 DEF FlushGet
  <2>2. CASE redis # 0
    BY <1>5, <2>2 DEF FlushGet
  <2> QED
    BY <2>1, <2>2
<1>6. ASSUME NEW c \in Connections, FlushUpdate(c)
      PROVE  PresenceTypeOK' /\ UNCHANGED viewerVars
  BY <1>6 DEF FlushUpdate
<1>7. ASSUME NEW c \in Connections, FlushDelete(c)
      PROVE  PresenceTypeOK' /\ UNCHANGED viewerVars
  BY <1>7 DEF FlushDelete, NoFlush
<1>8. ASSUME NEW c \in Connections, Lost(c)
      PROVE  PresenceTypeOK' /\ UNCHANGED viewerVars
  BY <1>8 DEF Lost, NoFlush
<1>9. ASSUME Lapse
      PROVE  PresenceTypeOK' /\ UNCHANGED viewerVars
  BY <1>9 DEF Lapse
<1> HIDE DEF PresenceTypeOK, viewerVars
<1> QED
  BY <1>1, <1>2, <1>3, <1>4, <1>5, <1>6, <1>7, <1>8, <1>9

\* A message appended for the page, or the first one taken by it.
LEMMA AskTaken ==
  ASSUME PresenceTypeOK, toMain # <<>>, Head(toMain).kind = "answer"
  PROVE  Head(toMain).ask \in Ask /\ Head(toMain).answer \in Terminal
<1>1. Head(toMain) \in Reports \cup Answered
  BY Taken DEF PresenceTypeOK
<1>2. Head(toMain) \in Answered
  BY <1>1 DEF Reports
<1> QED
  BY <1>2 DEF Answered

\* An answer that leaves for the page.
LEMMA AnswerTyped ==
  ASSUME PresenceTypeOK, NEW a \in asks, NEW answer \in Terminal, Answers(a, answer)
  PROVE  /\ asks' \subseteq asks
         /\ [kind |-> "answer", ask |-> a, answer |-> answer] \in Reports \cup Answered
         /\ toMain' = Append(toMain, [kind |-> "answer", ask |-> a, answer |-> answer])
         /\ toMain' \in Seq(Reports \cup Answered)
<1>1. [kind |-> "answer", ask |-> a, answer |-> answer] \in Reports \cup Answered
  BY DEF Answered, PresenceTypeOK
<1>2. toMain' \in Seq(Reports \cup Answered)
  BY <1>1, Posted DEF Answers, PresenceTypeOK
<1> QED
  BY <1>1, <1>2 DEF Answers

\* The lookups and the steps of the worker and of the page keep the types.
LEMMA ViewerTyped ==
  ASSUME PresenceTypeOK,
         \/ \E a \in asks : LookInRedis(a) \/ LookInMongo(a) \/ LookupFails(a) \/ WorkerTakes(a)
         \/ LinkUp \/ LinkDown \/ PageTakes \/ Tick \/ presenceClearedForUser \/ ChangeVisibility
  PROVE  PresenceTypeOK' /\ UNCHANGED serverVars
<1> USE PresenceAssumption DEF serverVars
<1>1. ASSUME NEW a \in asks, LookInRedis(a)
      PROVE  PresenceTypeOK' /\ UNCHANGED serverVars
  <2> DEFINE b == [[a EXCEPT !.knew = known] EXCEPT !.step = "mongodb"]
  <2>1. CASE redis # 0
    <3>1. Answers(a, "redis") /\ "redis" \in Terminal
      BY <1>1, <2>1 DEF LookInRedis, Terminal
    <3> QED
      BY <1>1, <3>1, AnswerTyped DEF LookInRedis, PresenceTypeOK
  <2>2. CASE redis = 0
    <3>1. b \in Ask
      BY DEF PresenceTypeOK, Ask
    <3>2. asks' = (asks \ {a}) \cup {b} /\ UNCHANGED toMain
      BY <1>1, <2>2 DEF LookInRedis, Moves
    <3> QED
      BY <1>1, <3>1, <3>2 DEF LookInRedis, PresenceTypeOK
  <2> QED
    BY <2>1, <2>2
<1>2. ASSUME NEW a \in asks, LookInMongo(a)
      PROVE  PresenceTypeOK' /\ UNCHANGED serverVars
  <2>1. PICK answer \in Terminal : Answers(a, answer)
    BY <1>2 DEF LookInMongo, Terminal
  <2> QED
    BY <1>2, <2>1, AnswerTyped DEF LookInMongo, PresenceTypeOK
<1>3. ASSUME NEW a \in asks, LookupFails(a)
      PROVE  PresenceTypeOK' /\ UNCHANGED serverVars
  <2>1. Answers(a, "error") /\ "error" \in Terminal
    BY <1>3 DEF LookupFails, Terminal
  <2> QED
    BY <1>3, <2>1, AnswerTyped DEF LookupFails, PresenceTypeOK, Mishap
<1>4. ASSUME NEW a \in asks, WorkerTakes(a)
      PROVE  PresenceTypeOK' /\ UNCHANGED serverVars
  <2>1. CASE ~link
    <3>1. Answers(a, "error") /\ "error" \in Terminal
      BY <1>4, <2>1 DEF WorkerTakes, Terminal
    <3> QED
      BY <1>4, <3>1, AnswerTyped DEF WorkerTakes, PresenceTypeOK
  <2>2. CASE link
    <3>1. [a EXCEPT !.step = "redis"] \in Ask
      BY DEF PresenceTypeOK, Ask
    <3>2. asks' = (asks \ {a}) \cup {[a EXCEPT !.step = "redis"]} /\ UNCHANGED toMain
      BY <1>4, <2>2 DEF WorkerTakes, Moves
    <3> QED
      BY <1>4, <3>1, <3>2 DEF WorkerTakes, PresenceTypeOK
  <2> QED
    BY <2>1, <2>2
<1>5. ASSUME LinkUp
      PROVE  PresenceTypeOK' /\ UNCHANGED serverVars
  <2>1. [kind |-> "connected"] \in Reports \cup Answered
    BY DEF Reports
  <2>2. toMain' \in Seq(Reports \cup Answered)
    BY <1>5, <2>1, Posted DEF LinkUp, PresenceTypeOK
  <2> QED
    BY <1>5, <2>2 DEF LinkUp, PresenceTypeOK
<1>6. ASSUME LinkDown
      PROVE  PresenceTypeOK' /\ UNCHANGED serverVars
  <2>1. [kind |-> "disconnected"] \in Reports \cup Answered
    BY DEF Reports
  <2>2. toMain' \in Seq(Reports \cup Answered)
    BY <1>6, <2>1, Posted DEF LinkDown, PresenceTypeOK
  <2>3. deaf' \in BOOLEAN /\ asks' \subseteq asks
    BY <1>6 DEF LinkDown
  <2> QED
    BY <1>6, <2>2, <2>3 DEF LinkDown, PresenceTypeOK
<1>7. ASSUME PageTakes
      PROVE  PresenceTypeOK' /\ UNCHANGED serverVars
  <2> DEFINE m == Head(toMain)
  <2>1. toMain' \in Seq(Reports \cup Answered)
    BY <1>7, Taken DEF PageTakes, PresenceTypeOK
  <2>2. CASE m.kind = "answer"
    <3>1. Settled(header, m.ask, m.answer) \in Headers
      BY <1>7, <2>2, AskTaken, SettledTyped DEF PageTakes, PresenceTypeOK
    <3>2. Renders(Settled(header, m.ask, m.answer), asks)
      BY <1>7, <2>2 DEF PageTakes
    <3> QED
      BY <1>7, <2>1, <3>1, <3>2, RendersTyped DEF PageTakes, PresenceTypeOK
  <2>3. CASE m.kind # "answer"
    <3>1. [header EXCEPT !.connected = (m.kind = "connected")] \in Headers
      BY DEF PresenceTypeOK, Headers
    <3>2. Renders([header EXCEPT !.connected = (m.kind = "connected")], asks)
      BY <1>7, <2>3 DEF PageTakes
    <3> QED
      BY <1>7, <2>1, <3>1, <3>2, RendersTyped DEF PageTakes, PresenceTypeOK
  <2> QED
    BY <2>2, <2>3
<1>8. ASSUME Tick
      PROVE  PresenceTypeOK' /\ UNCHANGED serverVars
  <2>1. asked + 1 \in 1 .. MaxAsks
    BY <1>8 DEF Tick, PresenceTypeOK
  <2>2. Request(asked + 1, "tick") \in Ask
    BY <2>1 DEF Request, Ask
  <2> QED
    BY <1>8, <2>1, <2>2 DEF Tick, PresenceTypeOK
<1>9. ASSUME presenceClearedForUser
      PROVE  PresenceTypeOK' /\ UNCHANGED serverVars
  <2>1. [header EXCEPT !.entry = "idle"] \in Headers
    BY DEF PresenceTypeOK, Headers
  <2>2. Renders([header EXCEPT !.entry = "idle"], asks)
    BY <1>9 DEF presenceClearedForUser
  <2> QED
    BY <1>9, <2>1, <2>2, RendersTyped DEF presenceClearedForUser, PresenceTypeOK
<1>10. ASSUME ChangeVisibility
      PROVE  PresenceTypeOK' /\ UNCHANGED serverVars
  <2>1. [header EXCEPT !.live = ~@] \in Headers
    BY DEF PresenceTypeOK, Headers
  <2>2. Renders([header EXCEPT !.live = ~@], asks)
    BY <1>10 DEF ChangeVisibility
  <2> QED
    BY <1>10, <2>1, <2>2, RendersTyped DEF ChangeVisibility, PresenceTypeOK
<1> QED
  BY <1>1, <1>2, <1>3, <1>4, <1>5, <1>6, <1>7, <1>8, <1>9, <1>10

-----------------------------------------------------------------------------
(* The stores.                                                             *)

\* The steps of the user's connections keep the time in one store or the other, and
\* neither MongoDB's time nor the record of a failure goes away.
LEMMA ServerKeeps ==
  ASSUME PresenceTypeOK, Stores,
         \/ \E c \in Connections : \/ Connect(c) \/ Heartbeat(c) \/ setLastSeen(c) \/ Disconnect(c)
                                   \/ FlushGet(c) \/ FlushUpdate(c) \/ FlushDelete(c) \/ Lost(c)
         \/ Lapse
  PROVE  Stores' /\ (mongo # 0 \/ broken => mongo' # 0 \/ broken')
<1> DEFINE Kept == Stores' /\ (mongo # 0 \/ broken => mongo' # 0 \/ broken')
<1> USE DEF Stores, BeatSent, Owned, Written, Somewhere, PresenceTypeOK, Mishap
<1>1. ASSUME NEW c \in Connections, Connect(c) PROVE Kept
  BY <1>1 DEF Connect
<1>2. ASSUME NEW c \in Connections, Heartbeat(c) PROVE Kept
  BY <1>2 DEF Heartbeat
<1>3. ASSUME NEW c \in Connections, setLastSeen(c) PROVE Kept
  <2>1. CASE redis' = beat[c] /\ written' = beat[c] /\ known' = TRUE /\ UNCHANGED <<broken, mishaps>>
    BY <1>3, <2>1 DEF setLastSeen
  <2>2. CASE Mishap /\ UNCHANGED <<redis, written, known>>
    BY <1>3, <2>2 DEF setLastSeen
  <2> QED
    BY <1>3, <2>1, <2>2 DEF setLastSeen
<1>4. ASSUME NEW c \in Connections, Disconnect(c) PROVE Kept
  BY <1>4 DEF Disconnect
<1>5. ASSUME NEW c \in Connections, FlushGet(c) PROVE Kept
  <2> DEFINE t == IF redis = 0 THEN clock + 1 ELSE redis
  <2>1. t # 0
    BY DEF Time
  <2>2. flush' = [flush EXCEPT ![c] = [step |-> "update", at |-> t]]
    BY <1>5 DEF FlushGet
  <2> HIDE DEF t
  <2> QED
    BY <1>5, <2>1, <2>2 DEF FlushGet
<1>6. ASSUME NEW c \in Connections, FlushUpdate(c) PROVE Kept
  BY <1>6 DEF FlushUpdate
<1>7. ASSUME NEW c \in Connections, FlushDelete(c) PROVE Kept
  BY <1>7 DEF FlushDelete, NoFlush
<1>8. ASSUME NEW c \in Connections, Lost(c) PROVE Kept
  BY <1>8 DEF Lost, NoFlush
<1>9. ASSUME Lapse PROVE Kept
  BY <1>9 DEF Lapse
<1> HIDE DEF Stores, PresenceTypeOK
<1> QED
  BY <1>1, <1>2, <1>3, <1>4, <1>5, <1>6, <1>7, <1>8, <1>9

\* What the page is told stays right when one more message follows.
LEMMA OneMore ==
  ASSUME SeenIsAnswered, PresenceTypeOK, broken => broken', NEW m \in Reports \cup Answered,
         toMain' = Append(toMain, m),
         m.kind = "answer" => (m.answer = "not_available" => ~m.ask.knew \/ broken')
  PROVE  SeenIsAnswered'
BY DEF SeenIsAnswered, PresenceTypeOK

\* ... or an answer.
LEMMA AnswerKeeps ==
  ASSUME SeenIsAnswered, Found, PresenceTypeOK, broken => broken', mongo' = mongo,
         NEW a \in asks, NEW answer \in Terminal, Answers(a, answer),
         answer = "not_available" => ~a.knew \/ broken'
  PROVE  SeenIsAnswered' /\ Found'
<1> DEFINE m == [kind |-> "answer", ask |-> a, answer |-> answer]
<1>1. m \in Reports \cup Answered /\ toMain' = Append(toMain, m) /\ asks' \subseteq asks
  BY AnswerTyped
<1>2. m.answer = "not_available" => ~m.ask.knew \/ broken'
  OBVIOUS
<1> HIDE DEF m
<1>3. SeenIsAnswered'
  BY <1>1, <1>2, OneMore
<1>4. Found'
  BY <1>1 DEF Found
<1> QED
  BY <1>3, <1>4

\* What the page renders changes only its requests, and new ones have not been looked up.
LEMMA RendersKeeps ==
  ASSUME Found, PresenceTypeOK, UNCHANGED <<mongo, broken>>, NEW h \in Headers, Renders(h, asks)
  PROVE  Found'
BY RendersTyped DEF Found

\* The lookups and the steps of the worker and of the page answer what is known.
LEMMA ViewerKeeps ==
  ASSUME PresenceInv,
         \/ \E a \in asks : LookInRedis(a) \/ LookInMongo(a) \/ LookupFails(a) \/ WorkerTakes(a)
         \/ LinkUp \/ LinkDown \/ PageTakes \/ Tick \/ presenceClearedForUser \/ ChangeVisibility
  PROVE  (broken => broken') /\ Found' /\ SeenIsAnswered'
<1> DEFINE Kept == (broken => broken') /\ Found' /\ SeenIsAnswered'
<1> USE DEF PresenceInv, serverVars
<1>1. ASSUME NEW a \in asks, LookInRedis(a) PROVE Kept
  <2> DEFINE b == [[a EXCEPT !.knew = known] EXCEPT !.step = "mongodb"]
  <2>1. CASE redis # 0
    <3>1. Answers(a, "redis") /\ "redis" \in Terminal
      BY <1>1, <2>1 DEF LookInRedis, Terminal
    <3> QED
      BY <1>1, <3>1, AnswerKeeps DEF LookInRedis
  <2>2. CASE redis = 0
    <3>1. b.knew = known /\ (b.knew => mongo # 0 \/ broken)
      BY <2>2 DEF PresenceTypeOK, Ask, Stores, Somewhere
    <3>2. asks' = (asks \ {a}) \cup {b} /\ UNCHANGED <<toMain, mongo, broken>>
      BY <1>1, <2>2 DEF LookInRedis, Moves
    <3> HIDE DEF b
    <3> QED
      BY <3>1, <3>2 DEF Found, SeenIsAnswered
  <2> QED
    BY <2>1, <2>2
<1>2. ASSUME NEW a \in asks, LookInMongo(a) PROVE Kept
  <2>1. CASE mongo # 0
    <3>1. Answers(a, "mongodb") /\ "mongodb" \in Terminal
      BY <1>2, <2>1 DEF LookInMongo, Terminal
    <3> QED
      BY <1>2, <3>1, AnswerKeeps DEF LookInMongo
  <2>2. CASE mongo = 0
    <3>1. Answers(a, "not_available") /\ "not_available" \in Terminal
      BY <1>2, <2>2 DEF LookInMongo, Terminal
    <3>2. UNCHANGED <<mongo, broken>> /\ (~a.knew \/ broken)
      BY <1>2, <2>2 DEF LookInMongo, Found
    <3> QED
      BY <3>1, <3>2, AnswerKeeps
  <2> QED
    BY <2>1, <2>2
<1>3. ASSUME NEW a \in asks, LookupFails(a) PROVE Kept
  <2>1. Answers(a, "error") /\ "error" \in Terminal
    BY <1>3 DEF LookupFails, Terminal
  <2> QED
    BY <1>3, <2>1, AnswerKeeps DEF LookupFails, Mishap
<1>4. ASSUME NEW a \in asks, WorkerTakes(a) PROVE Kept
  <2>1. CASE ~link
    <3>1. Answers(a, "error") /\ "error" \in Terminal
      BY <1>4, <2>1 DEF WorkerTakes, Terminal
    <3> QED
      BY <1>4, <3>1, AnswerKeeps DEF WorkerTakes
  <2>2. CASE link
    <3>1. [a EXCEPT !.step = "redis"].step # "mongodb"
      BY DEF PresenceTypeOK, Ask
    <3>2. /\ asks' = (asks \ {a}) \cup {[a EXCEPT !.step = "redis"]}
          /\ UNCHANGED <<toMain, mongo, broken>>
      BY <1>4, <2>2 DEF WorkerTakes, Moves
    <3> QED
      BY <3>1, <3>2 DEF Found, SeenIsAnswered
  <2> QED
    BY <2>1, <2>2
<1>5. ASSUME LinkUp PROVE Kept
  <2>1. [kind |-> "connected"] \in Reports \cup Answered
    BY DEF Reports
  <2> QED
    BY <1>5, <2>1, OneMore DEF LinkUp, Found
<1>6. ASSUME LinkDown PROVE Kept
  <2>1. [kind |-> "disconnected"] \in Reports \cup Answered
    BY DEF Reports
  <2> QED
    BY <1>6, <2>1, OneMore DEF LinkDown, Found
<1>7. ASSUME PageTakes PROVE Kept
  <2> DEFINE m == Head(toMain)
  <2>1. SeenIsAnswered'
    BY <1>7 DEF PageTakes, SeenIsAnswered, PresenceTypeOK
  <2>2. CASE m.kind = "answer"
    <3>1. Settled(header, m.ask, m.answer) \in Headers
      BY <1>7, <2>2, AskTaken, SettledTyped DEF PageTakes, PresenceTypeOK
    <3>2. Renders(Settled(header, m.ask, m.answer), asks)
      BY <1>7, <2>2 DEF PageTakes
    <3> QED
      BY <1>7, <2>1, <3>1, <3>2, RendersKeeps DEF PageTakes
  <2>3. CASE m.kind # "answer"
    <3>1. [header EXCEPT !.connected = (m.kind = "connected")] \in Headers
      BY DEF PresenceTypeOK, Headers
    <3>2. Renders([header EXCEPT !.connected = (m.kind = "connected")], asks)
      BY <1>7, <2>3 DEF PageTakes
    <3> QED
      BY <1>7, <2>1, <3>1, <3>2, RendersKeeps DEF PageTakes
  <2> QED
    BY <2>2, <2>3
<1>8. ASSUME Tick PROVE Kept
  <2>1. Request(asked + 1, "tick").step # "mongodb"
    BY DEF Request
  <2> QED
    BY <1>8, <2>1 DEF Tick, Found, SeenIsAnswered
<1>9. ASSUME presenceClearedForUser PROVE Kept
  <2>1. [header EXCEPT !.entry = "idle"] \in Headers
    BY DEF PresenceTypeOK, Headers
  <2>2. Renders([header EXCEPT !.entry = "idle"], asks)
    BY <1>9 DEF presenceClearedForUser
  <2> QED
    BY <1>9, <2>1, <2>2, RendersKeeps DEF presenceClearedForUser, SeenIsAnswered
<1>10. ASSUME ChangeVisibility PROVE Kept
  <2>1. [header EXCEPT !.live = ~@] \in Headers
    BY DEF PresenceTypeOK, Headers
  <2>2. Renders([header EXCEPT !.live = ~@], asks)
    BY <1>10 DEF ChangeVisibility
  <2> QED
    BY <1>10, <2>1, <2>2, RendersKeeps DEF ChangeVisibility, SeenIsAnswered
<1> QED
  BY <1>1, <1>2, <1>3, <1>4, <1>5, <1>6, <1>7, <1>8, <1>9, <1>10

-----------------------------------------------------------------------------
(* The theorems.                                                           *)

LEMMA PresenceStarts == PresenceInit => PresenceInv
<1> SUFFICES ASSUME PresenceInit PROVE PresenceInv
  OBVIOUS
<1>1. PresenceTypeOK
  <2>1. header \in Headers
    BY DEF PresenceInit, Headers
  <2>2. toMain \in Seq(Reports \cup Answered)
    BY DEF PresenceInit
  <2>3. flush \in [Connections -> [step : {"none", "get", "update", "del"}, at : Time]]
    BY PresenceAssumption DEF PresenceInit, NoFlush, Time
  <2>4. link \in BOOLEAN /\ known \in BOOLEAN /\ crossed \in BOOLEAN /\ broken \in BOOLEAN /\ deaf \in BOOLEAN
    BY DEF PresenceInit
  <2>5. /\ clock \in Time /\ redis \in Time /\ mongo \in Time /\ written \in Time
        /\ asked \in 0 .. MaxAsks /\ asks \subseteq Ask
    BY PresenceAssumption DEF PresenceInit, Time
  <2>6. conn \in [Connections -> {"new", "up", "gone"}] /\ beat \in [Connections -> Time]
    BY PresenceAssumption DEF PresenceInit, Time
  <2> QED
    BY <2>1, <2>2, <2>3, <2>4, <2>5, <2>6 DEF PresenceTypeOK
<1> QED
  BY <1>1 DEF PresenceInit, PresenceInv, Stores, BeatSent, Owned, Written, Somewhere, Found,
              SeenIsAnswered, NoFlush

LEMMA PresenceSteps == PresenceInv /\ [PresenceNext]_presenceVars => PresenceInv'
<1> SUFFICES ASSUME PresenceInv, [PresenceNext]_presenceVars PROVE PresenceInv'
  OBVIOUS
<1>1. CASE \/ \E c \in Connections : \/ Connect(c) \/ Heartbeat(c) \/ setLastSeen(c) \/ Disconnect(c)
                                     \/ FlushGet(c) \/ FlushUpdate(c) \/ FlushDelete(c) \/ Lost(c)
           \/ Lapse
  <2>1. PresenceTypeOK' /\ UNCHANGED <<asks, toMain>>
    BY <1>1, ServerTyped DEF PresenceInv, viewerVars
  <2>2. Stores' /\ (mongo # 0 \/ broken => mongo' # 0 \/ broken')
    BY <1>1, ServerKeeps DEF PresenceInv
  <2>3. broken => broken'
    BY <1>1 DEF Connect, Heartbeat, setLastSeen, Disconnect, FlushGet, FlushUpdate, FlushDelete,
                Lost, Lapse, Mishap
  <2> QED
    BY <2>1, <2>2, <2>3 DEF PresenceInv, Found, SeenIsAnswered
<1>2. CASE \/ \E a \in asks : LookInRedis(a) \/ LookInMongo(a) \/ LookupFails(a) \/ WorkerTakes(a)
           \/ LinkUp \/ LinkDown \/ PageTakes \/ Tick \/ presenceClearedForUser \/ ChangeVisibility
  <2>1. PresenceTypeOK' /\ UNCHANGED serverVars
    BY <1>2, ViewerTyped DEF PresenceInv
  <2>2. (broken => broken') /\ Found' /\ SeenIsAnswered'
    BY <1>2, ViewerKeeps
  <2>3. Stores'
    BY <2>1, <2>2 DEF PresenceInv, Stores, BeatSent, Owned, Written, Somewhere, serverVars
  <2> QED
    BY <2>1, <2>2, <2>3 DEF PresenceInv
<1>3. CASE UNCHANGED presenceVars
  BY <1>3 DEF PresenceInv, PresenceTypeOK, Stores, BeatSent, Owned, Written, Somewhere, Found,
              SeenIsAnswered, presenceVars, serverVars, viewerVars
<1> QED
  BY <1>1, <1>2, <1>3 DEF PresenceNext

\* The conditions on the two stores and on the lookups under way hold in every state.
THEOREM PresenceInvariant == PresenceSpec => []PresenceInv
BY PresenceStarts, PresenceSteps, PTL DEF PresenceSpec

\* resolveLastSeenForUser: whoever has been seen is never reported as unknown, although
\* the flush moves his time from Redis to MongoDB between the two reads.
THEOREM SeenAnswered == PresenceSpec => []SeenIsAnswered
<1>1. PresenceInv => SeenIsAnswered
  BY DEF PresenceInv
<1> QED
  BY <1>1, PresenceInvariant, PTL

\* setLastSeen, flushLastSeenToMongo: once all his connections are closed and have done
\* what they sent and started, no key in Redis reports the user as online.
THEOREM OfflineNotOnline == PresenceSpec => []OfflineIsNotOnline
<1>1. PresenceInv => OfflineIsNotOnline
  BY DEF PresenceInv, OfflineIsNotOnline, Offline, Stores, Owned
<1> QED
  BY <1>1, PresenceInvariant, PTL
-----------------------------------------------------------------------------
(* The last heartbeat reaches MongoDB.                                     *)

\* A connection is open, or the flush of a closed one has still to read.
Active == \E c \in Connections : conn[c] = "up" \/ flush[c].step = "get"

\* A time in Redis is that of the last heartbeat stored, and no time is in the future.
Recent ==
  /\ redis # 0 => redis = written
  /\ written <= clock
  /\ \A c \in Connections : beat[c] <= clock

\* At most one flush is between its read and its write.
Alone ==
  \A c, d \in Connections : flush[c].step = "update" /\ flush[d].step = "update" => c = d

\* Once all have closed and read, the last heartbeat is in MongoDB or in the hands of a
\* flush that will write it.
Carried ==
  ~Active =>
    /\ \A c \in Connections : flush[c].step = "update" => flush[c].at >= written
    /\ (mongo >= written \/ \E c \in Connections : flush[c].step = "update")

LastInv == ~broken => Recent /\ (~crossed => Alone /\ Carried)

LEMMA LastKeeps ==
  ASSUME PresenceTypeOK, BeatSent, LastInv,
         \/ \E c \in Connections : \/ Connect(c) \/ Heartbeat(c) \/ setLastSeen(c) \/ Disconnect(c)
                                   \/ FlushGet(c) \/ FlushUpdate(c) \/ FlushDelete(c) \/ Lost(c)
         \/ Lapse
  PROVE  LastInv'
<1> USE DEF LastInv, Recent, Alone, Carried, Active, BeatSent, PresenceTypeOK, Mishap, Time
<1>0. MaxClock \in Nat
  BY PresenceAssumption
<1>1. ASSUME NEW c \in Connections, Connect(c) PROVE LastInv'
  BY <1>1 DEF Connect
<1>2. ASSUME NEW c \in Connections, Heartbeat(c) PROVE LastInv'
  BY <1>0, <1>2 DEF Heartbeat
<1>3. ASSUME NEW c \in Connections, setLastSeen(c) PROVE LastInv'
  <2>1. CASE redis' = beat[c] /\ written' = beat[c] /\ known' = TRUE /\ UNCHANGED <<broken, mishaps>>
    BY <1>0, <1>3, <2>1 DEF setLastSeen
  <2>2. CASE Mishap /\ UNCHANGED <<redis, written, known>>
    BY <2>2
  <2> QED
    BY <1>3, <2>1, <2>2 DEF setLastSeen
<1>4. ASSUME NEW c \in Connections, Disconnect(c) PROVE LastInv'
  BY <1>4 DEF Disconnect
<1>5. ASSUME NEW c \in Connections, FlushGet(c) PROVE LastInv'
  <2> DEFINE t == IF redis = 0 THEN clock + 1 ELSE redis
  <2>1. t \in Nat /\ (~broken => t >= written)
    BY <1>0
  <2>2. clock' \in Nat /\ clock' >= clock /\ UNCHANGED <<redis, mongo, conn, beat, written, broken>>
    BY <1>0, <1>5 DEF FlushGet
  <2>3. /\ flush' = [flush EXCEPT ![c] = [step |-> "update", at |-> t]]
        /\ ~crossed' => ~crossed /\ \A d \in Connections : flush[d].step # "update"
    BY <1>5 DEF FlushGet
  <2> HIDE DEF t
  <2>4. ~broken => Recent'
    BY <1>0, <2>2
  <2>5. ~crossed' => Alone'
    BY <2>3
  <2>6. ~broken /\ ~crossed' => Carried'
    BY <2>1, <2>2, <2>3
  <2> QED
    BY <2>2, <2>4, <2>5, <2>6
<1>6. ASSUME NEW c \in Connections, FlushUpdate(c) PROVE LastInv'
  BY <1>0, <1>6 DEF FlushUpdate
<1>7. ASSUME NEW c \in Connections, FlushDelete(c) PROVE LastInv'
  BY <1>0, <1>7 DEF FlushDelete, NoFlush
<1>8. ASSUME NEW c \in Connections, Lost(c) PROVE LastInv'
  BY <1>8 DEF Lost
<1>9. ASSUME Lapse PROVE LastInv'
  BY <1>9 DEF Lapse
<1> HIDE DEF LastInv
<1> QED
  BY <1>1, <1>2, <1>3, <1>4, <1>5, <1>6, <1>7, <1>8, <1>9

LEMMA LastSteps == PresenceInv /\ LastInv /\ [PresenceNext]_presenceVars => LastInv'
<1> SUFFICES ASSUME PresenceInv, LastInv, [PresenceNext]_presenceVars PROVE LastInv'
  OBVIOUS
<1> USE DEF LastInv, Recent, Alone, Carried, Active, serverVars
<1>1. CASE \/ \E c \in Connections : \/ Connect(c) \/ Heartbeat(c) \/ setLastSeen(c) \/ Disconnect(c)
                                     \/ FlushGet(c) \/ FlushUpdate(c) \/ FlushDelete(c) \/ Lost(c)
           \/ Lapse
  BY <1>1, LastKeeps DEF PresenceInv, Stores
<1>2. CASE \/ \E a \in asks : LookInRedis(a) \/ LookInMongo(a) \/ LookupFails(a) \/ WorkerTakes(a)
           \/ LinkUp \/ LinkDown \/ PageTakes \/ Tick \/ presenceClearedForUser \/ ChangeVisibility
  BY <1>2, ViewerTyped, ViewerKeeps DEF PresenceInv
<1>3. CASE UNCHANGED presenceVars
  BY <1>3 DEF presenceVars
<1> QED
  BY <1>1, <1>2, <1>3 DEF PresenceNext

\* setLastSeen, flushLastSeenToMongo: once every connection has closed, MongoDB holds a
\* time no earlier than the last heartbeat stored, although a flush deletes the key that
\* another connection may have renewed meanwhile.
THEOREM LastSeenKept == PresenceSpec => []LastSeenIsLast
<1>1. PresenceInit => LastInv
  BY PresenceAssumption DEF PresenceInit, LastInv, Recent, Alone, Carried, Active, NoFlush
<1>2. PresenceInv /\ LastInv => LastSeenIsLast
  BY DEF LastInv, Carried, Active, LastSeenIsLast, Offline
<1> QED
  BY <1>1, <1>2, LastSteps, PresenceInvariant, PTL DEF PresenceSpec
-----------------------------------------------------------------------------
(* The header of the viewer.                                               *)

\* The answer to a load is still to come, or on its way to the page.
Coming ==
  \/ \E a \in asks : a.for = "load"
  \/ \E k \in DOMAIN toMain : toMain[k].kind = "answer" /\ toMain[k].ask.for = "load"

\* The load effect leaves no connected header without a flight ...
HeaderAsks(h) == h.connected /\ h.entry \notin Terminal => h.inflight

\* ... and a flight has its request or its answer, unless that was lost.
FedInv == HeaderAsks(header) /\ (header.inflight /\ ~deaf => Coming)

\* The page renders a header that it may leave without a flight only if the effect runs
\* on it; what comes to the page still comes, or has ended the flight.
LEMMA RendersFed ==
  ASSUME PresenceTypeOK, NEW h \in Headers, Renders(h, asks), FedInv, UNCHANGED deaf,
         HeaderAsks(h) \/ h.connected # header.connected \/ h.entry # header.entry,
         h.inflight /\ ~deaf =>
           \/ \E a \in asks : a.for = "load"
           \/ \E k \in DOMAIN toMain' : toMain'[k].kind = "answer" /\ toMain'[k].ask.for = "load"
  PROVE  FedInv'
<1> DEFINE was == header
           runs == h.connected # was.connected \/ h.entry # was.entry
           load == runs /\ Loads(h)
           ticks == h.live /\ h.connected /\ ~(was.live /\ was.connected)
           n == (IF load THEN 1 ELSE 0) + (IF ticks THEN 1 ELSE 0)
<1>1. /\ header' = IF runs THEN Loaded(h) ELSE h
      /\ asks' = asks \cup (IF load THEN {Request(asked + 1, "load")} ELSE {})
                      \cup (IF ticks THEN {Request(asked + n, "tick")} ELSE {})
  BY DEF Renders
<1> HIDE DEF ticks, n
<1>2. asks \subseteq asks'
  BY <1>1
<1>3. CASE load
  <2>1. Request(asked + 1, "load") \in asks' /\ Request(asked + 1, "load").for = "load"
    BY <1>1, <1>3 DEF Request
  <2>2. Coming'
    BY <2>1 DEF Coming
  <2>3. header' = [h EXCEPT !.entry = "loading", !.inflight = TRUE]
    BY <1>1, <1>3 DEF Loaded, Loads
  <2>4. HeaderAsks(header)'
    BY <2>3 DEF HeaderAsks, Headers
  <2> QED
    BY <2>2, <2>4 DEF FedInv
<1>4. CASE ~load
  <2>1. header'.inflight = h.inflight
    BY <1>1, <1>4 DEF Loaded, Headers
  <2>2. h.inflight /\ ~deaf => Coming'
    BY <1>2 DEF Coming
  <2>3. HeaderAsks(header')
    <3>1. CASE runs /\ ~h.connected
      BY <1>1, <3>1 DEF Loaded, HeaderAsks, Headers
    <3>2. CASE runs /\ h.connected
      BY <1>1, <1>4, <3>2 DEF Loaded, Loads, HeaderAsks
    <3>3. CASE ~runs
      BY <1>1, <3>3
    <3> QED
      BY <3>1, <3>2, <3>3
  <2> QED
    BY <2>1, <2>2, <2>3 DEF FedInv, HeaderAsks
<1> QED
  BY <1>3, <1>4

\* An answer that leaves for the page is still on its way.
LEMMA AnswersFed ==
  ASSUME PresenceTypeOK, FedInv, NEW a \in asks, NEW answer \in Terminal, Answers(a, answer),
         UNCHANGED <<header, deaf>>
  PROVE  FedInv'
<1> DEFINE m == [kind |-> "answer", ask |-> a, answer |-> answer]
<1>1. asks' = asks \ {a} /\ toMain' = Append(toMain, m) /\ toMain \in Seq(Reports \cup Answered)
  BY DEF Answers, PresenceTypeOK
<1>2. m \in Reports \cup Answered /\ m.kind = "answer" /\ m.ask = a
  BY DEF Answered, PresenceTypeOK
<1> HIDE DEF m
<1>3. Coming => Coming'
  <2>1. CASE \E b \in asks : b.for = "load" /\ b # a
    BY <1>1, <2>1 DEF Coming
  <2>2. CASE a.for = "load"
    <3>1. toMain'[Len(toMain) + 1] = m /\ Len(toMain) + 1 \in DOMAIN toMain'
      BY <1>1, <1>2
    <3> QED
      BY <1>2, <2>2, <3>1 DEF Coming
  <2>3. CASE \E k \in DOMAIN toMain : toMain[k].kind = "answer" /\ toMain[k].ask.for = "load"
    <3>1. PICK k \in DOMAIN toMain : toMain[k].kind = "answer" /\ toMain[k].ask.for = "load"
      BY <2>3
    <3>2. k \in DOMAIN toMain' /\ toMain'[k] = toMain[k]
      BY <1>1, <1>2
    <3> QED
      BY <3>1, <3>2 DEF Coming
  <2> QED
    BY <2>1, <2>2, <2>3 DEF Coming
<1> QED
  BY <1>3 DEF FedInv, HeaderAsks

\* So is a request that goes on, and what precedes a message to the page.
LEMMA MovesFed ==
  ASSUME FedInv, NEW a \in asks, NEW b, b.for = a.for, Moves(a, b), UNCHANGED <<toMain, header, deaf>>
  PROVE  FedInv'
BY DEF FedInv, HeaderAsks, Coming, Moves

LEMMA ReportFed ==
  ASSUME PresenceTypeOK, FedInv, NEW m \in Reports, toMain' = Append(toMain, m), UNCHANGED header,
         deaf => deaf', ~deaf' => \A a \in asks : a.for = "load" => a \in asks'
  PROVE  FedInv'
<1>1. toMain \in Seq(Reports \cup Answered) /\ m \in Reports \cup Answered
  BY DEF PresenceTypeOK
<1>2. ASSUME NEW k \in DOMAIN toMain
      PROVE  k \in DOMAIN toMain' /\ toMain'[k] = toMain[k]
  BY <1>1
<1>3. Coming /\ ~deaf' => Coming'
  BY <1>2 DEF Coming
<1> QED
  BY <1>3 DEF FedInv, HeaderAsks

\* What the page takes is not the answer to a load, or ends the flight.
LEMMA TakesFed ==
  ASSUME PresenceTypeOK, FedInv, PageTakes
  PROVE  FedInv'
<1> DEFINE m == Head(toMain)
           Later == \E k \in DOMAIN toMain' : toMain'[k].kind = "answer" /\ toMain'[k].ask.for = "load"
<1>1. /\ toMain \in Seq(Reports \cup Answered) /\ toMain # <<>> /\ toMain' = Tail(toMain)
      /\ UNCHANGED deaf /\ header \in Headers
  BY DEF PageTakes, PresenceTypeOK
<1>2. ASSUME NEW k \in DOMAIN toMain, k # 1
      PROVE  k - 1 \in DOMAIN toMain' /\ toMain'[k - 1] = toMain[k]
  BY <1>1, <1>2
<1>3. Coming /\ ~(m.kind = "answer" /\ m.ask.for = "load") =>
        Later \/ \E a \in asks : a.for = "load"
  <2> SUFFICES ASSUME NEW k \in DOMAIN toMain, toMain[k].kind = "answer", toMain[k].ask.for = "load",
                      ~(m.kind = "answer" /\ m.ask.for = "load")
               PROVE  Later
    BY DEF Coming
  <2>1. k # 1
    BY <1>1
  <2> QED
    BY <1>2, <2>1
<1> HIDE DEF Later
<1>4. CASE m.kind = "answer"
  <2> DEFINE h == Settled(header, m.ask, m.answer)
  <2>1. m.ask \in Ask /\ m.answer \in Terminal
    BY <1>1, <1>4, AskTaken
  <2>2. h \in Headers
    BY <1>1, <2>1, SettledTyped
  <2>3. Renders(h, asks)
    BY <1>4 DEF PageTakes
  <2>4. /\ m.ask.for = "load" => ~h.inflight
        /\ m.ask.for # "load" => h.inflight = header.inflight
    BY <1>1 DEF Settled, Headers
  <2>5. HeaderAsks(h)
    BY <1>1, <2>1 DEF Settled, Headers, HeaderAsks, FedInv
  <2>6. h.inflight /\ ~deaf => Later \/ \E a \in asks : a.for = "load"
    BY <1>3, <1>4, <2>4 DEF FedInv
  <2> HIDE DEF h
  <2> QED
    BY <1>1, <2>2, <2>3, <2>5, <2>6, RendersFed DEF Later
<1>5. CASE m.kind # "answer"
  <2> DEFINE h == [header EXCEPT !.connected = (m.kind = "connected")]
  <2>1. h \in Headers /\ h.inflight = header.inflight /\ h.entry = header.entry
    BY <1>1 DEF Headers
  <2>2. Renders(h, asks)
    BY <1>5 DEF PageTakes
  <2>3. HeaderAsks(h) \/ h.connected # header.connected
    BY <2>1 DEF HeaderAsks, FedInv
  <2>4. h.inflight /\ ~deaf => Later \/ \E a \in asks : a.for = "load"
    BY <1>3, <1>5, <2>1 DEF FedInv
  <2> HIDE DEF h
  <2> QED
    BY <1>1, <2>1, <2>2, <2>3, <2>4, RendersFed DEF Later
<1> QED
  BY <1>4, <1>5

LEMMA FedSteps == PresenceInv /\ FedInv /\ [PresenceNext]_presenceVars => FedInv'
<1> SUFFICES ASSUME PresenceInv, FedInv, [PresenceNext]_presenceVars PROVE FedInv'
  OBVIOUS
<1> USE DEF PresenceInv
<1>1. CASE \/ \E c \in Connections : \/ Connect(c) \/ Heartbeat(c) \/ setLastSeen(c) \/ Disconnect(c)
                                     \/ FlushGet(c) \/ FlushUpdate(c) \/ FlushDelete(c) \/ Lost(c)
           \/ Lapse
  BY <1>1, ServerTyped DEF FedInv, HeaderAsks, Coming, viewerVars
<1>2. ASSUME NEW a \in asks, LookInRedis(a) PROVE FedInv'
  <2> DEFINE b == [[a EXCEPT !.knew = known] EXCEPT !.step = "mongodb"]
  <2>1. CASE redis # 0
    BY <1>2, <2>1, AnswersFed DEF LookInRedis, Terminal
  <2>2. CASE redis = 0
    <3>1. b.for = a.for
      BY DEF PresenceTypeOK, Ask
    <3>2. Moves(a, b) /\ UNCHANGED <<toMain, header, deaf>>
      BY <1>2, <2>2 DEF LookInRedis
    <3> HIDE DEF b
    <3> QED
      BY <3>1, <3>2, MovesFed
  <2> QED
    BY <2>1, <2>2
<1>3. ASSUME NEW a \in asks, LookInMongo(a) PROVE FedInv'
  <2>1. PICK answer \in Terminal : Answers(a, answer)
    BY <1>3 DEF LookInMongo, Terminal
  <2> QED
    BY <1>3, <2>1, AnswersFed DEF LookInMongo
<1>4. ASSUME NEW a \in asks, LookupFails(a) PROVE FedInv'
  BY <1>4, AnswersFed DEF LookupFails, Terminal
<1>5. ASSUME NEW a \in asks, WorkerTakes(a) PROVE FedInv'
  <2>1. CASE ~link
    BY <1>5, <2>1, AnswersFed DEF WorkerTakes, Terminal
  <2>2. CASE link
    <3>1. [a EXCEPT !.step = "redis"].for = a.for
      BY DEF PresenceTypeOK, Ask
    <3> QED
      BY <1>5, <2>2, <3>1, MovesFed DEF WorkerTakes
  <2> QED
    BY <2>1, <2>2
<1>6. CASE LinkUp
  BY <1>6, ReportFed DEF LinkUp, Reports
<1>7. CASE LinkDown
  BY <1>7, ReportFed DEF LinkDown, Reports
<1>8. CASE PageTakes
  BY <1>8, TakesFed
<1>9. CASE Tick
  BY <1>9 DEF Tick, FedInv, HeaderAsks, Coming
<1>10. CASE presenceClearedForUser
  <2> DEFINE h == [header EXCEPT !.entry = "idle"]
  <2>1. h \in Headers /\ h.inflight = header.inflight /\ (HeaderAsks(h) \/ h.entry # header.entry)
    BY DEF PresenceTypeOK, Headers, FedInv, HeaderAsks
  <2>2. Renders(h, asks) /\ UNCHANGED <<toMain, deaf>>
    BY <1>10 DEF presenceClearedForUser
  <2> HIDE DEF h
  <2> QED
    BY <2>1, <2>2, RendersFed DEF FedInv, Coming
<1>11. CASE ChangeVisibility
  <2> DEFINE h == [header EXCEPT !.live = ~@]
  <2>1. h \in Headers /\ h.inflight = header.inflight /\ HeaderAsks(h)
    BY DEF PresenceTypeOK, Headers, FedInv, HeaderAsks
  <2>2. Renders(h, asks) /\ UNCHANGED <<toMain, deaf>>
    BY <1>11 DEF ChangeVisibility
  <2> HIDE DEF h
  <2> QED
    BY <2>1, <2>2, RendersFed DEF FedInv, Coming
<1>12. CASE UNCHANGED presenceVars
  BY <1>12 DEF presenceVars, viewerVars, FedInv, HeaderAsks, Coming
<1> QED
  BY <1>1, <1>2, <1>3, <1>4, <1>5, <1>6, <1>7, <1>8, <1>9, <1>10, <1>11, <1>12 DEF PresenceNext

\* useLastSeen: whatever crosses, a connected header that shows nothing has a load in
\* flight whose request or answer is on its way, unless a connection took that answer.
THEOREM HeaderFed == PresenceSpec => []HeaderIsFed
<1>1. PresenceInit => FedInv
  BY DEF PresenceInit, FedInv, HeaderAsks
<1>2. FedInv => HeaderIsFed
  BY DEF FedInv, HeaderAsks, Coming, HeaderIsFed
<1> QED
  BY <1>1, <1>2, FedSteps, PresenceInvariant, PTL DEF PresenceSpec
=============================================================================
