--------------------------- MODULE ReceiptsProofs ---------------------------
(***************************************************************************)
(* Results about receipts for any number of users, devices, messages and   *)
(* concurrent receipt calls: who marks a message, what an ok and a tick    *)
(* stand for, that a receipt which was sent is not lost on the way to the  *)
(* screen, and that ticks do not fall back.                                *)
(*                                                                         *)
(* Then about the page that sends them (ThreadView), for any number of     *)
(* threads and messages and any arrival of pages of the log: the refs stand*)
(* for receipts that were sent, so the last message of the peer on the     *)
(* screen was reported read; and a log that was scrolled to its tail is at *)
(* the tail of what has come since.                                        *)
(***************************************************************************)
EXTENDS Receipts, ThreadView, SequenceLemmas

Fields == {"delivered", "seen"}

-----------------------------------------------------------------------------
(* The data.                                                               *)

\* What a receipt call is made of.
LEMMA CallFacts ==
    ASSUME NEW c \in Calls
    PROVE  /\ c.dev \in Devices /\ c.kind \in Kinds /\ c.msg \in Messages
           /\ Actor(c) \in Users /\ Field(c) \in Fields
BY ReceiptsAssumption DEF Actor, Field, Fields, Kinds

\* An entry is a time for each field; setting one keeps it an entry.
LEMMA EntryFacts ==
    ASSUME NEW e \in Entry, NEW f \in Fields, NEW t \in Time
    PROVE  /\ e[f] \in Time
           /\ [e EXCEPT ![f] = t] \in Entry
           /\ \A g \in Fields : [e EXCEPT ![f] = t][g] = IF g = f THEN t ELSE e[g]
BY DEF Entry, Fields

\* A time that is not set is a time.
LEMMA ZeroIsTime == 0 \in Time
BY ReceiptsAssumption DEF Time

\* Nothing is marked at first.
LEMMA EmptyTableType == EmptyTable \in Table
BY ZeroIsTime DEF EmptyTable, Table, Unset, Entry

\* setReceiptDelivered and setReceiptSeen change one field of one entry.
LEMMA StampFacts ==
    ASSUME TypeOK, NEW c \in Calls
    PROVE  /\ Stamp(c) \in Table
           /\ \A m \in Messages, u \in Users, f \in Fields :
                 Stamp(c)[m][u][f] = IF m = c.msg /\ u = Actor(c) /\ f = Field(c)
                                     THEN at[c] ELSE receipts[m][u][f]
           /\ \A m \in Messages, u \in Users :
                 m # c.msg \/ u # Actor(c) => Stamp(c)[m][u] = receipts[m][u]
<1>1. /\ receipts \in Table /\ at[c] \in Time
      /\ c.msg \in Messages /\ Actor(c) \in Users /\ Field(c) \in Fields
  BY CallFacts DEF TypeOK
<1> DEFINE new(m, u) == IF m = c.msg /\ u = Actor(c)
                        THEN [receipts[m][u] EXCEPT ![Field(c)] = at[c]] ELSE receipts[m][u]
<1>2. Stamp(c) = [m \in Messages |-> [u \in Users |-> new(m, u)]]
  BY <1>1 DEF Stamp, Table
<1>3. ASSUME NEW m \in Messages, NEW u \in Users
      PROVE  /\ new(m, u) \in Entry
             /\ m # c.msg \/ u # Actor(c) => new(m, u) = receipts[m][u]
             /\ \A f \in Fields : new(m, u)[f] = IF m = c.msg /\ u = Actor(c) /\ f = Field(c)
                                                 THEN at[c] ELSE receipts[m][u][f]
  <2>1. receipts[m][u] \in Entry
    BY <1>1 DEF Table
  <2> QED
    BY <1>1, <2>1, EntryFacts
<1> HIDE DEF new
<1> QED
  BY <1>2, <1>3 DEF Table

\* A receipt event says what its call stored.
LEMMA EventFacts ==
    ASSUME TypeOK, NEW c \in Calls
    PROVE  EventOf(c) \in Event
BY CallFacts DEF TypeOK, EventOf, Event, Fields

\* The two merges of the client keep entries, and what is set stays set.
LEMMA WithEventFacts ==
    ASSUME NEW x \in Entry, NEW e \in Event
    PROVE  /\ WithEvent(x, e) \in Entry
           /\ \A f \in Fields : WithEvent(x, e)[f] = IF f = e.field THEN e.at ELSE x[f]
<1>1. e.field \in Fields /\ e.at \in Time
  BY DEF Event, Fields
<1> QED
  BY <1>1, EntryFacts DEF WithEvent

\* mergeReceiptSummary keeps what is set on either side.
LEMMA MergeFacts ==
    ASSUME NEW x \in Entry, NEW y \in Entry
    PROVE  /\ mergeReceiptSummary(x, y) \in Entry
           /\ \A f \in Fields : mergeReceiptSummary(x, y)[f] = IF y[f] # 0 THEN y[f] ELSE x[f]
BY DEF mergeReceiptSummary, Entry, Fields

-----------------------------------------------------------------------------
(* Type correctness.                                                       *)

\* Every step of a handler or a client keeps the types.
LEMMA TypeStep == TypeOK /\ [Next]_vars => TypeOK'
<1> SUFFICES ASSUME TypeOK, [Next]_vars
             PROVE  TypeOK'
    OBVIOUS
<1> USE ReceiptsAssumption
<1>1. ASSUME NEW c \in Calls, Receive(c) \/ Reject(c) \/ LoadReceipt(c) \/ Fail(c)
      PROVE  TypeOK'
  <2>1. CASE Receive(c)
    <3>1. now' \in Time
      BY <2>1 DEF TypeOK, Receive, Time
    <3> QED
      BY <2>1, <3>1 DEF TypeOK, Receive, storeVars, clientVars
  <2>2. CASE Reject(c) \/ Fail(c)
    BY <2>2 DEF TypeOK, Reject, Fail, Finish, storeVars, clientVars
  <2>3. CASE LoadReceipt(c)
    <3>1. pc' \in [Calls -> {"idle", "loading", "loaded", "stamped", "publishing", "done"}]
          /\ reply' \in [Calls -> {"none", "ok", "error"}]
      BY <2>3 DEF TypeOK, LoadReceipt, Finish
    <3> QED
      BY <2>3, <3>1 DEF TypeOK, LoadReceipt, storeVars, clientVars
  <2> QED
    BY <1>1, <2>1, <2>2, <2>3
<1>2. ASSUME NEW c \in Calls, StoreReceipt(c)
      PROVE  TypeOK'
  <2>1. receipts' \in Table
    BY <1>2, StampFacts DEF StoreReceipt
  <2> QED
    BY <1>2, <2>1, ZenonT(60) DEF TypeOK, StoreReceipt, Finish, clientVars
<1>3. ASSUME NEW c \in Calls, upsertConversationRead(c)
      PROVE  TypeOK'
  <2>1. cursor' \in [Users -> [msg : Messages \cup {0}, at : Time]]
    BY <1>3, CallFacts DEF TypeOK, upsertConversationRead, MoveCursor
  <2> QED
    BY <1>3, <2>1, ZenonT(60) DEF TypeOK, upsertConversationRead, Finish, clientVars
<1>4. ASSUME NEW c \in Calls, NEW u \in Participants, Publish(c, u)
      PROVE  TypeOK'
  <2>1. inflight' \in [Watched -> SUBSET Event]
    BY <1>4, EventFacts DEF TypeOK, Publish
  <2>2. told' \in [Watched -> SUBSET (Messages \X Users \X {"delivered", "seen"})]
    BY <1>4, CallFacts DEF TypeOK, Publish, Fields
  <2>3. pc' \in [Calls -> {"idle", "loading", "loaded", "stamped", "publishing", "done"}]
        /\ reply' \in [Calls -> {"none", "ok", "error"}] /\ left' \in [Calls -> SUBSET Participants]
    BY <1>4 DEF TypeOK, Publish, Finish
  <2> QED
    BY <1>4, <2>1, <2>2, <2>3 DEF TypeOK, Publish, storeVars, clientVars
<1>5. ASSUME NEW d \in Watched, NEW e \in inflight[d], mergeReceiptFanoutFromSocket(d, e)
      PROVE  TypeOK'
  <2>1. shown' \in [Watched -> Table]
    <3>1. e \in Event /\ shown[d] \in Table /\ e.msg \in Messages /\ e.user \in Users
      BY <1>5 DEF TypeOK, Event
    <3>2. WithEvent(shown[d][e.msg][e.user], e) \in Entry
      BY <3>1, WithEventFacts, ZenonT(60) DEF Table
    <3> QED
      BY <1>5, <3>1, <3>2 DEF TypeOK, mergeReceiptFanoutFromSocket, Table
  <2> QED
    BY <1>5, <2>1 DEF TypeOK, mergeReceiptFanoutFromSocket, callVars, storeVars
<1>6. ASSUME NEW d \in Watched, FetchReceipts(d)
      PROVE  TypeOK'
  BY <1>6 DEF TypeOK, FetchReceipts, callVars, storeVars
<1>7. ASSUME NEW d \in Watched, NEW table \in fetched[d], mergeReceiptSummariesFromFetch(d, table)
      PROVE  TypeOK'
  <2>1. shown' \in [Watched -> Table]
    <3>1. shown[d] \in Table /\ table \in Table
      BY <1>7 DEF TypeOK
    <3>2. \A m \in Messages, u \in Users : mergeReceiptSummary(shown[d][m][u], table[m][u]) \in Entry
      BY <3>1, MergeFacts DEF Table
    <3> QED
      BY <1>7, <3>2 DEF TypeOK, mergeReceiptSummariesFromFetch, Table
  <2> QED
    BY <1>7, <2>1 DEF TypeOK, mergeReceiptSummariesFromFetch, callVars, storeVars
<1>8. ASSUME NEW d \in Watched, NEW m \in Messages, Learn(d, m)
      PROVE  TypeOK'
  BY <1>8 DEF TypeOK, Learn, callVars, storeVars
<1>8a. ASSUME NEW d \in Watched, NEW m \in Messages, Forget(d, m)
      PROVE  TypeOK'
  <2>1. [u \in Users |-> Unset] \in [Users -> Entry]
    BY ZeroIsTime DEF Unset, Entry
  <2>2. shown' \in [Watched -> Table]
    BY <1>8a, <2>1 DEF TypeOK, Forget, Table
  <2>3. known' \in [Watched -> SUBSET Messages]
    BY <1>8a DEF TypeOK, Forget
  <2>4. told' \in [Watched -> SUBSET (Messages \X Users \X {"delivered", "seen"})]
    BY <1>8a DEF TypeOK, Forget
  <2> QED
    BY <1>8a, <2>2, <2>3, <2>4 DEF TypeOK, Forget, callVars, storeVars
<1>9. ASSUME NEW d \in Watched, Disconnect(d) \/ Reconnect(d)
      PROVE  TypeOK'
  BY <1>9, ZenonT(60) DEF TypeOK, Disconnect, Reconnect, callVars, storeVars, clientVars
<1>10. ASSUME UNCHANGED vars
       PROVE  TypeOK'
  BY <1>10 DEF TypeOK, vars, callVars, storeVars, clientVars
<1> QED
  BY <1>1, <1>2, <1>3, <1>4, <1>5, <1>6, <1>7, <1>8, <1>8a, <1>9, <1>10 DEF Next

\* The initial state is well typed.
LEMMA TypeInit == Init => TypeOK
BY ReceiptsAssumption, EmptyTableType, ZeroIsTime DEF Init, TypeOK, NoCursor

\* Type correctness of the receipt handlers, the stored receipts and what
\* clients keep of them.
THEOREM TypeCorrect == Spec => []TypeOK
BY TypeInit, TypeStep, PTL DEF Spec

-----------------------------------------------------------------------------
(* Who marks, and what stands behind an ok and a tick.  A handler past its  *)
(* checks is allowed, carries a time, and has stored what its progress says *)
(* (Handlers); an event on its way and a response on its way are backed by  *)
(* the store (Backed).  Nothing stored is ever unset (StoreGrows), so that  *)
(* other handlers cannot take the ground away.                              *)

\* What a tick of a client stands for on the server.
Backs(m, u, f) == receipts[m][u][f] # 0 \/ (f = "seen" /\ cursor[u] # NoCursor)

\* What a handler has stored when it publishes or says ok.
Stored(c) ==
    /\ c.kind # "conversation" => receipts[c.msg][Actor(c)][Field(c)] # 0
    /\ c.kind # "delivered" => cursor[Actor(c)] # NoCursor

Handlers ==
    \A c \in Calls :
        /\ pc[c] \in {"loading", "loaded", "stamped", "publishing"} => Allowed(c) /\ at[c] # 0
        /\ pc[c] \in {"loading", "loaded"} => c.kind # "conversation"
        /\ pc[c] = "stamped" => c.kind # "delivered"
        /\ pc[c] = "stamped" /\ c.kind = "read" => receipts[c.msg][Actor(c)][Field(c)] # 0
        /\ pc[c] = "publishing" \/ reply[c] = "ok" => Stored(c)

Backed ==
    \A d \in Watched :
        /\ \A e \in inflight[d] : e.at # 0 /\ Backs(e.msg, e.user, e.field)
        /\ \A table \in fetched[d], m \in Messages, u \in Users, f \in Fields :
              table[m][u][f] # 0 => receipts[m][u][f] # 0
        /\ \A m \in Messages, u \in Users, f \in Fields :
              shown[d][m][u][f] # 0 => Backs(m, u, f)

Inv == TypeOK /\ Handlers /\ OnlyRecipientsMark /\ Backed

Grows ==
    /\ \A m \in Messages, u \in Users, f \in Fields : receipts[m][u][f] # 0 => receipts'[m][u][f] # 0
    /\ \A u \in Users : cursor[u] # NoCursor => cursor'[u] # NoCursor

\* The store changes in two places, and only to add.
LEMMA StoreGrows == TypeOK /\ Handlers /\ [Next]_vars => Grows
<1> SUFFICES ASSUME TypeOK, Handlers, [Next]_vars
             PROVE  Grows
    OBVIOUS
<1>1. ASSUME NEW c \in Calls, StoreReceipt(c)
      PROVE  Grows
  <2>1. receipts' = Stamp(c) /\ cursor' = cursor /\ at[c] # 0
    BY <1>1 DEF StoreReceipt, Handlers
  <2> QED
    BY <2>1, StampFacts DEF Grows
<1>2. ASSUME NEW c \in Calls, upsertConversationRead(c)
      PROVE  Grows
  <2>1. receipts' = receipts /\ cursor' = MoveCursor(c) /\ at[c] # 0
    BY <1>2 DEF upsertConversationRead, Handlers
  <2>2. \A u \in Users : cursor'[u] = cursor[u] \/ cursor'[u] = [msg |-> c.msg, at |-> at[c]]
    BY <2>1, CallFacts DEF TypeOK, MoveCursor
  <2> QED
    BY <2>1, <2>2 DEF Grows, NoCursor
<1>3. CASE UNCHANGED storeVars
  BY <1>3 DEF Grows, storeVars
<1> QED
  BY <1>1, <1>2, <1>3
     DEF Next, vars, Receive, Reject, LoadReceipt, Fail, Publish, FetchReceipts,
         mergeReceiptFanoutFromSocket, mergeReceiptSummariesFromFetch, Learn, Forget,
         Disconnect, Reconnect, storeVars

\* A handler that goes on has stored what it relies on (MongoDB never unsets it).
LEMMA HandlersStep == TypeOK /\ Handlers /\ [Next]_vars => Handlers'
<1> SUFFICES ASSUME TypeOK, Handlers, [Next]_vars, NEW q \in Calls
             PROVE  /\ pc'[q] \in {"loading", "loaded", "stamped", "publishing"} => Allowed(q) /\ at'[q] # 0
                    /\ pc'[q] \in {"loading", "loaded"} => q.kind # "conversation"
                    /\ pc'[q] = "stamped" => q.kind # "delivered"
                    /\ pc'[q] = "stamped" /\ q.kind = "read" => receipts'[q.msg][Actor(q)][Field(q)] # 0
                    /\ pc'[q] = "publishing" \/ reply'[q] = "ok" => Stored(q)'
    BY DEF Handlers, Allowed, Actor, Field
<1> USE ReceiptsAssumption
<1>0. /\ q.kind \in Kinds /\ q.msg \in Messages /\ Actor(q) \in Users /\ Field(q) \in Fields
      /\ Grows
  BY CallFacts, StoreGrows
<1>1. Stored(q) => Stored(q)'
  BY <1>0 DEF Stored, Grows, Actor, Field
<1>2. receipts[q.msg][Actor(q)][Field(q)] # 0 => receipts'[q.msg][Actor(q)][Field(q)] # 0
  BY <1>0 DEF Grows
<1>3. CASE pc'[q] = pc[q] /\ at'[q] = at[q] /\ reply'[q] = reply[q]
  BY <1>1, <1>2, <1>3 DEF Handlers
<1>4. CASE Receive(q)
  <2>1. /\ at'[q] # 0 /\ Allowed(q) /\ reply' = reply
        /\ pc'[q] = IF q.kind = "conversation" THEN "stamped" ELSE "loading"
    BY <1>4 DEF Receive, TypeOK, Time
  <2> QED
    BY <1>1, <2>1 DEF Handlers
<1>5. CASE Reject(q) \/ Fail(q)
  BY <1>5 DEF Reject, Fail, Finish, TypeOK
<1>6. CASE LoadReceipt(q)
  <2>1. /\ Allowed(q) /\ at[q] # 0 /\ at' = at /\ receipts' = receipts /\ cursor' = cursor
        /\ q.kind # "conversation" /\ at[q] \in Nat
    BY <1>6 DEF Handlers, LoadReceipt, storeVars, TypeOK, Time
  <2>2. CASE receipts[q.msg][Actor(q)][Field(q)] >= at[q]
    <3>1. receipts[q.msg][Actor(q)][Field(q)] # 0
      BY <2>1, <2>2
    <3>2. CASE q.kind = "delivered"
      BY <1>6, <2>1, <2>2, <3>1, <3>2 DEF LoadReceipt, Finish, TypeOK, Stored, Actor, Field
    <3>3. CASE q.kind # "delivered"
      BY <1>1, <1>6, <2>1, <2>2, <3>1, <3>3 DEF LoadReceipt, TypeOK, Handlers, Actor, Field
    <3> QED
      BY <3>2, <3>3
  <2>3. CASE ~(receipts[q.msg][Actor(q)][Field(q)] >= at[q])
    BY <1>1, <1>6, <2>1, <2>3 DEF LoadReceipt, TypeOK, Handlers
  <2> QED
    BY <2>2, <2>3
<1>7. CASE StoreReceipt(q)
  <2>1. /\ Allowed(q) /\ at[q] # 0 /\ at' = at /\ q.kind # "conversation"
        /\ receipts' = Stamp(q) /\ reply' = reply
    BY <1>7 DEF Handlers, StoreReceipt
  <2>2. receipts'[q.msg][Actor(q)][Field(q)] # 0
    BY <1>0, <2>1, StampFacts
  <2>3. pc'[q] = IF q.kind = "delivered" THEN "publishing" ELSE "stamped"
    BY <1>7 DEF StoreReceipt, TypeOK
  <2> QED
    BY <1>1, <2>1, <2>2, <2>3 DEF Handlers, Stored, Actor, Field
<1>8. CASE upsertConversationRead(q)
  <2>1. /\ Allowed(q) /\ at[q] # 0 /\ at' = at /\ q.kind # "delivered"
        /\ receipts' = receipts /\ cursor' = MoveCursor(q)
        /\ q.kind = "read" => receipts[q.msg][Actor(q)][Field(q)] # 0
    BY <1>8 DEF Handlers, upsertConversationRead
  <2>2. cursor'[Actor(q)] # NoCursor
    BY <1>0, <2>1 DEF MoveCursor, NoCursor, TypeOK
  <2>3. Stored(q)'
    BY <1>0, <2>1, <2>2 DEF Stored, Actor, Field, Kinds
  <2>4. pc'[q] \in {"publishing", "done"}
    BY <1>8 DEF upsertConversationRead, Finish, TypeOK
  <2> QED
    BY <2>1, <2>3, <2>4
<1>9. CASE \E u \in Participants : Publish(q, u)
  <2>1. Stored(q) /\ Allowed(q) /\ at[q] # 0 /\ at' = at
    BY <1>9 DEF Handlers, Publish
  <2>2. pc'[q] \in {"publishing", "done"}
    BY <1>9 DEF Publish, Finish, TypeOK
  <2> QED
    BY <1>1, <2>1, <2>2
<1>10. ASSUME NEW c \in Calls, c # q,
              \/ Receive(c) \/ Reject(c) \/ LoadReceipt(c) \/ StoreReceipt(c)
              \/ upsertConversationRead(c) \/ Fail(c) \/ \E u \in Participants : Publish(c, u)
       PROVE  pc'[q] = pc[q] /\ at'[q] = at[q] /\ reply'[q] = reply[q]
  BY <1>10 DEF Receive, Reject, LoadReceipt, StoreReceipt, upsertConversationRead, Fail, Publish, Finish, TypeOK
<1>11. ASSUME UNCHANGED callVars
       PROVE  pc'[q] = pc[q] /\ at'[q] = at[q] /\ reply'[q] = reply[q]
  BY <1>11 DEF callVars
<1>12. ASSUME NEW d \in Watched,
              \/ FetchReceipts(d)
              \/ \E table \in fetched[d] : mergeReceiptSummariesFromFetch(d, table)
              \/ Disconnect(d) \/ Reconnect(d)
              \/ \E m \in Messages : Learn(d, m) \/ Forget(d, m)
              \/ \E e \in inflight[d] : mergeReceiptFanoutFromSocket(d, e)
       PROVE  UNCHANGED callVars
  BY <1>12 DEF FetchReceipts, mergeReceiptSummariesFromFetch, Disconnect, Reconnect, Learn, Forget,
               mergeReceiptFanoutFromSocket
<1> QED
  BY <1>3, <1>4, <1>5, <1>6, <1>7, <1>8, <1>9, <1>10, <1>11, <1>12 DEF Next, vars

\* Only an allowed handler writes, and it writes for its actor.
LEMMA MarkStep == TypeOK /\ Handlers /\ OnlyRecipientsMark /\ [Next]_vars => OnlyRecipientsMark'
<1> SUFFICES ASSUME TypeOK, Handlers, OnlyRecipientsMark, [Next]_vars
             PROVE  OnlyRecipientsMark'
    OBVIOUS
<1>1. ASSUME NEW c \in Calls, StoreReceipt(c)
      PROVE  OnlyRecipientsMark'
  <2>1. receipts' = Stamp(c) /\ cursor' = cursor /\ Allowed(c)
    BY <1>1 DEF StoreReceipt, Handlers
  <2> QED
    BY <2>1, StampFacts DEF OnlyRecipientsMark, Allowed
<1>2. ASSUME NEW c \in Calls, upsertConversationRead(c)
      PROVE  OnlyRecipientsMark'
  <2>1. receipts' = receipts /\ cursor' = MoveCursor(c) /\ Allowed(c)
    BY <1>2 DEF upsertConversationRead, Handlers
  <2>2. ASSUME NEW u \in Users
        PROVE  cursor'[u] = cursor[u] \/ (u = Actor(c) /\ cursor'[u] = [msg |-> c.msg, at |-> at[c]])
    BY <2>1, CallFacts DEF TypeOK, MoveCursor
  <2> QED
    BY <2>1, <2>2 DEF OnlyRecipientsMark, Allowed
<1>3. CASE UNCHANGED storeVars
  BY <1>3 DEF OnlyRecipientsMark, storeVars
<1> QED
  BY <1>1, <1>2, <1>3
     DEF Next, vars, Receive, Reject, LoadReceipt, Fail, Publish, FetchReceipts,
         mergeReceiptFanoutFromSocket, mergeReceiptSummariesFromFetch, Learn, Forget,
         Disconnect, Reconnect, storeVars

\* What is on its way to a client, or shown by it, stays backed when the store
\* grows and the client does nothing.
LEMMA BackedGrows ==
    ASSUME TypeOK, Backed, Grows, UNCHANGED <<inflight, shown, fetched>>
    PROVE  Backed'
<1>1. ASSUME NEW m \in Messages, NEW u \in Users, NEW f \in Fields, Backs(m, u, f)
      PROVE  Backs(m, u, f)'
  BY <1>1 DEF Backs, Grows
<1>2. \A d \in Watched : \A e \in inflight[d] : e.msg \in Messages /\ e.user \in Users /\ e.field \in Fields
  BY DEF TypeOK, Event, Fields
<1> QED
  BY <1>1, <1>2 DEF Backed, Grows

\* A publish speaks of what is stored; the merges show what was published or read.
LEMMA BackedStep == Inv /\ [Next]_vars => Backed'
<1> SUFFICES ASSUME Inv, [Next]_vars
             PROVE  Backed'
    OBVIOUS
<1>0. TypeOK /\ Handlers /\ Backed /\ Grows
  BY StoreGrows DEF Inv
<1>1. CASE UNCHANGED <<inflight, shown, fetched>>
  BY <1>0, <1>1, BackedGrows
<1>2. ASSUME NEW c \in Calls, NEW u \in Participants, Publish(c, u)
      PROVE  Backed'
  <2> DEFINE e == EventOf(c)
  <2>1. Stored(c) /\ at[c] # 0 /\ UNCHANGED <<receipts, cursor, shown, fetched>>
    BY <1>0, <1>2 DEF Handlers, Publish, storeVars, clientVars
  <2>2. e.at # 0 /\ Backs(e.msg, e.user, e.field)
    BY <2>1, CallFacts DEF EventOf, Backs, Stored, Field, Kinds
  <2>3. \A d \in Watched : inflight'[d] \subseteq inflight[d] \cup {e}
    BY <1>2 DEF Publish
  <2> HIDE DEF e
  <2> QED
    BY <1>0, <2>1, <2>2, <2>3 DEF Backed, Backs
<1>3. ASSUME NEW d \in Watched, NEW e \in inflight[d], mergeReceiptFanoutFromSocket(d, e)
      PROVE  Backed'
  <2>1. /\ UNCHANGED <<receipts, cursor, fetched>>
        /\ e \in Event /\ e.msg \in Messages /\ e.user \in Users /\ shown \in [Watched -> Table]
    BY <1>0, <1>3 DEF mergeReceiptFanoutFromSocket, storeVars, TypeOK, Event
  <2>2. \A x \in Watched : inflight'[x] \subseteq inflight[x]
    BY <1>0, <1>3 DEF mergeReceiptFanoutFromSocket, TypeOK
  <2>3. Backs(e.msg, e.user, e.field)
    BY <1>0, <1>3 DEF Backed
  <2>4. ASSUME NEW x \in Watched, NEW m \in Messages, NEW u \in Users, NEW f \in Fields
        PROVE  \/ shown'[x][m][u][f] = shown[x][m][u][f]
               \/ m = e.msg /\ u = e.user /\ f = e.field
    <3>1. shown[d][e.msg][e.user] \in Entry
      BY <2>1 DEF Table
    <3>2. CASE shown' = shown
      BY <3>2
    <3>3. CASE shown' = [shown EXCEPT ![d][e.msg][e.user] = WithEvent(shown[d][e.msg][e.user], e)]
      <4>1. \/ shown'[x][m][u] = shown[x][m][u]
            \/ x = d /\ m = e.msg /\ u = e.user /\ shown'[x][m][u] = WithEvent(shown[d][e.msg][e.user], e)
        BY <2>1, <3>3 DEF Table
      <4> QED
        BY <2>1, <3>1, <4>1, WithEventFacts
    <3> QED
      BY <1>3, <3>2, <3>3 DEF mergeReceiptFanoutFromSocket
  <2>5. \A m \in Messages, u \in Users, f \in Fields : Backs(m, u, f)' = Backs(m, u, f)
    BY <2>1 DEF Backs
  <2>6. \A x \in Watched : \A g \in inflight'[x] :
            g \in inflight[x] /\ g.msg \in Messages /\ g.user \in Users /\ g.field \in Fields
    BY <1>0, <2>2 DEF TypeOK, Event, Fields
  <2> QED
    BY <1>0, <2>1, <2>3, <2>4, <2>5, <2>6 DEF Backed
<1>4. ASSUME NEW d \in Watched, FetchReceipts(d)
      PROVE  Backed'
  <2>1. /\ UNCHANGED <<receipts, cursor, inflight, shown>>
        /\ \A x \in Watched : fetched'[x] \subseteq fetched[x] \cup {receipts}
    BY <1>0, <1>4 DEF FetchReceipts, storeVars, TypeOK
  <2> QED
    BY <1>0, <2>1 DEF Backed, Backs
<1>5. ASSUME NEW d \in Watched, NEW table \in fetched[d], mergeReceiptSummariesFromFetch(d, table)
      PROVE  Backed'
  <2>1. /\ UNCHANGED <<receipts, cursor, inflight>>
        /\ \A x \in Watched : fetched'[x] \subseteq fetched[x]
        /\ table \in Table /\ shown \in [Watched -> Table]
    BY <1>0, <1>5 DEF mergeReceiptSummariesFromFetch, storeVars, TypeOK
  <2>2. ASSUME NEW x \in Watched, NEW m \in Messages, NEW u \in Users, NEW f \in Fields,
               shown'[x][m][u][f] # 0
        PROVE  Backs(m, u, f)
    <3>1. \/ shown'[x][m][u] = shown[x][m][u]
          \/ shown'[x][m][u] = mergeReceiptSummary(shown[d][m][u], table[m][u])
      BY <1>5, <2>1 DEF mergeReceiptSummariesFromFetch
    <3>2. shown[d][m][u] \in Entry /\ table[m][u] \in Entry
      BY <2>1 DEF Table
    <3>3. \/ shown[x][m][u][f] # 0 \/ shown[d][m][u][f] # 0 \/ table[m][u][f] # 0
      BY <2>2, <3>1, <3>2, MergeFacts
    <3>4. table[m][u][f] # 0 => receipts[m][u][f] # 0
      BY <1>0 DEF Backed
    <3> QED
      BY <1>0, <3>3, <3>4 DEF Backed, Backs
  <2> QED
    BY <1>0, <2>1, <2>2 DEF Backed, Backs
<1>6. ASSUME NEW d \in Watched, NEW m \in Messages, Forget(d, m)
      PROVE  Backed'
  <2>1. UNCHANGED <<receipts, cursor, inflight, fetched>>
    BY <1>6 DEF Forget, storeVars
  <2>2. ASSUME NEW x \in Watched, NEW n \in Messages, NEW u \in Users, NEW f \in Fields
        PROVE  shown'[x][n][u][f] = shown[x][n][u][f] \/ shown'[x][n][u][f] = 0
    <3>1. shown'[x][n][u] = shown[x][n][u] \/ shown'[x][n][u] = Unset
      BY <1>0, <1>6 DEF Forget, TypeOK, Table
    <3> QED
      BY <3>1 DEF Unset, Fields
  <2> QED
    BY <1>0, <2>1, <2>2 DEF Backed, Backs
<1>7. ASSUME NEW d \in Watched, Disconnect(d)
      PROVE  Backed'
  <2>1. /\ UNCHANGED <<receipts, cursor, shown, fetched>>
        /\ \A x \in Watched : inflight'[x] \subseteq inflight[x]
    BY <1>0, <1>7 DEF Disconnect, storeVars, clientVars, TypeOK
  <2> QED
    BY <1>0, <2>1 DEF Backed, Backs
<1> QED
  BY <1>1, <1>2, <1>3, <1>4, <1>5, <1>6, <1>7
     DEF Next, vars, Receive, Reject, LoadReceipt, StoreReceipt, upsertConversationRead, Fail,
         Learn, Reconnect, clientVars

\* Nothing is stored, sent or shown at first.
LEMMA InvInit == Init => Inv
<1> SUFFICES ASSUME Init
             PROVE  Inv
    OBVIOUS
<1>1. Handlers /\ OnlyRecipientsMark
  BY DEF Init, Handlers, OnlyRecipientsMark, EmptyTable, NoCursor, Stored
<1>2. \A d \in Watched, m \in Messages, u \in Users, f \in Fields : shown[d][m][u][f] = 0
  BY DEF Init, EmptyTable, Unset, Fields
<1>3. Backed
  BY <1>2 DEF Init, Backed
<1> QED
  BY <1>1, <1>3, TypeInit DEF Inv

\* The invariant is inductive.
LEMMA InvStep == Inv /\ [Next]_vars => Inv'
BY TypeStep, HandlersStep, MarkStep, BackedStep DEF Inv

\* setReceiptDelivered, setReceiptSeen and upsertConversationRead write only for
\* recipients of the message (assertParticipant, assertRecipientNotSender).
THEOREM RecipientsMark == Spec => []OnlyRecipientsMark
<1>1. Inv => OnlyRecipientsMark
  BY DEF Inv
<1> QED
  BY <1>1, InvInit, InvStep, PTL DEF Spec

\* When a receipt handler acknowledges with ok, what it was called for is in the
\* store, whatever other handlers did between its own reads and writes.
THEOREM OkIsStored == Spec => []OkMeansStored
<1>1. Inv => OkMeansStored
  BY DEF Inv, Handlers, Stored, OkMeansStored
<1> QED
  BY <1>1, InvInit, InvStep, PTL DEF Spec

\* Every tick in receiptsByMessageId of a client is backed by the store, through
\* events and responses that arrive in any order.
THEOREM TicksAreStored == Spec => []ShownIsStored
<1>1. Inv => ShownIsStored
  <2> SUFFICES ASSUME Inv, NEW d \in Watched, NEW m \in Messages, NEW u \in Users
               PROVE  /\ shown[d][m][u].delivered # 0 => receipts[m][u].delivered # 0
                      /\ shown[d][m][u].seen # 0 => receipts[m][u].seen # 0 \/ cursor[u] # NoCursor
    BY DEF ShownIsStored
  <2>1. \A f \in Fields : shown[d][m][u][f] # 0 => Backs(m, u, f)
    BY DEF Inv, Backed
  <2> QED
    BY <2>1 DEF Backs, Fields
<1> QED
  BY <1>1, InvInit, InvStep, PTL DEF Spec

-----------------------------------------------------------------------------
(* What a client shows.  Ticks do not fall back because both merges keep    *)
(* what is set (ShownGrows); from that, and because an event is dropped     *)
(* only for a message the device does not know, what was sent arrives.      *)

\* A field that is set stays set in the merges of the client.
LEMMA ShownGrows ==
    ASSUME Inv, [Next]_vars,
           NEW d \in Watched, NEW m \in Messages, NEW u \in Users, NEW f \in Fields,
           m \in known[d], m \in known'[d], shown[d][m][u][f] # 0
    PROVE  shown'[d][m][u][f] # 0
<1>0. TypeOK /\ Backed /\ shown \in [Watched -> Table] /\ shown[d][m][u] \in Entry
  BY DEF Inv, TypeOK, Table
<1>1. CASE UNCHANGED shown
  BY <1>1
<1>2. ASSUME NEW x \in Watched, NEW e \in inflight[x], mergeReceiptFanoutFromSocket(x, e)
      PROVE  shown'[d][m][u][f] # 0
  <2>1. e \in Event /\ e.at # 0 /\ e.msg \in Messages /\ e.user \in Users /\ shown[x][e.msg][e.user] \in Entry
    BY <1>0, <1>2 DEF TypeOK, Event, Backed, Table
  <2>2. CASE shown' = shown
    BY <2>2
  <2>3. CASE shown' = [shown EXCEPT ![x][e.msg][e.user] = WithEvent(shown[x][e.msg][e.user], e)]
    <3>1. \/ shown'[d][m][u] = shown[d][m][u]
          \/ d = x /\ m = e.msg /\ u = e.user /\ shown'[d][m][u] = WithEvent(shown[d][m][u], e)
      BY <1>0, <2>1, <2>3 DEF Table
    <3> QED
      BY <1>0, <2>1, <3>1, WithEventFacts
  <2> QED
    BY <1>2, <2>2, <2>3 DEF mergeReceiptFanoutFromSocket
<1>3. ASSUME NEW x \in Watched, NEW table \in fetched[x], mergeReceiptSummariesFromFetch(x, table)
      PROVE  shown'[d][m][u][f] # 0
  <2>1. table[m][u] \in Entry
    BY <1>0, <1>3 DEF TypeOK, Table
  <2>2. \/ shown'[d][m][u] = shown[d][m][u]
        \/ shown'[d][m][u] = mergeReceiptSummary(shown[d][m][u], table[m][u])
    BY <1>0, <1>3 DEF mergeReceiptSummariesFromFetch
  <2> QED
    BY <1>0, <2>1, <2>2, MergeFacts
<1>4. ASSUME NEW x \in Watched, NEW n \in Messages, Forget(x, n)
      PROVE  shown'[d][m][u][f] # 0
  <2>1. ~(d = x /\ m = n)
    BY <1>0, <1>4 DEF Forget, TypeOK
  <2> QED
    BY <1>0, <1>4, <2>1 DEF Forget, Table
<1> QED
  BY <1>1, <1>2, <1>3, <1>4
     DEF Next, vars, Receive, Reject, LoadReceipt, StoreReceipt, upsertConversationRead, Fail, Publish,
         FetchReceipts, Learn, Disconnect, Reconnect, clientVars

\* A receipt a device was told of is of a message it knows, and shown or coming.
Coming(d, t) == \E e \in inflight[d] : <<e.msg, e.user, e.field>> = t
Heard == \A d \in Watched : \A t \in told[d] :
            t[1] \in known[d] /\ (shown[d][t[1]][t[2]][t[3]] # 0 \/ Coming(d, t))

\* An event that is told of is merged while its message is known.
LEMMA HeardStep == Inv /\ Heard /\ [Next]_vars => Heard'
<1> SUFFICES ASSUME Inv, Heard, [Next]_vars, NEW d \in Watched, NEW t \in told'[d]
             PROVE  t[1] \in known'[d] /\ (shown'[d][t[1]][t[2]][t[3]] # 0 \/ Coming(d, t)')
    BY DEF Heard, Coming
<1>0. TypeOK /\ TypeOK' /\ Backed
  BY TypeStep DEF Inv
<1>1. t[1] \in Messages /\ t[2] \in Users /\ t[3] \in Fields /\ t = <<t[1], t[2], t[3]>>
  BY <1>0 DEF TypeOK, Fields
<1>2. t \in told[d] => t[1] \in known[d] /\ (shown[d][t[1]][t[2]][t[3]] # 0 \/ Coming(d, t))
  BY DEF Heard
<1>3. t[1] \in known[d] /\ t[1] \in known'[d] /\ shown[d][t[1]][t[2]][t[3]] # 0
         => shown'[d][t[1]][t[2]][t[3]] # 0
  BY <1>1, ShownGrows
<1>4. CASE t \in told[d] /\ known[d] \subseteq known'[d] /\ inflight[d] \subseteq inflight'[d]
  BY <1>2, <1>3, <1>4 DEF Coming
<1>5. ASSUME NEW c \in Calls, NEW u \in Participants, Publish(c, u), t \notin told[d]
      PROVE  t[1] \in known'[d] /\ Coming(d, t)'
  <2>1. d \in Hearers(c, u) /\ c.msg \in known[d] /\ t = <<c.msg, Actor(c), Field(c)>> /\ known' = known
    BY <1>0, <1>5 DEF Publish, clientVars, TypeOK
  <2>2. EventOf(c) \in inflight'[d]
    BY <1>0, <1>5, <2>1 DEF Publish, TypeOK
  <2> QED
    BY <2>1, <2>2 DEF Coming, EventOf
<1>6. ASSUME NEW c \in Calls, NEW u \in Participants, Publish(c, u), t \in told[d]
      PROVE  known[d] \subseteq known'[d] /\ inflight[d] \subseteq inflight'[d]
  BY <1>0, <1>6 DEF Publish, clientVars, TypeOK
<1>7. ASSUME NEW x \in Watched, NEW e \in inflight[x], mergeReceiptFanoutFromSocket(x, e)
      PROVE  t[1] \in known'[d] /\ (shown'[d][t[1]][t[2]][t[3]] # 0 \/ Coming(d, t)')
  <2>1. told' = told /\ known' = known /\ t[1] \in known[d]
    BY <1>2, <1>7 DEF mergeReceiptFanoutFromSocket
  <2>2. CASE x = d /\ t = <<e.msg, e.user, e.field>>
    <3>1. /\ e \in Event /\ e.at # 0 /\ e.msg \in Messages /\ e.user \in Users
          /\ shown[d][e.msg][e.user] \in Entry /\ shown \in [Watched -> Table]
      BY <1>0, <1>7, <2>2 DEF TypeOK, Event, Backed, Table
    <3>2. shown'[d][e.msg][e.user] = WithEvent(shown[d][e.msg][e.user], e)
      BY <1>7, <2>1, <2>2, <3>1 DEF mergeReceiptFanoutFromSocket, Table
    <3>3. shown'[d][e.msg][e.user][e.field] = e.at
      BY <3>1, <3>2, WithEventFacts DEF Event, Fields
    <3> QED
      BY <2>1, <2>2, <3>1, <3>3
  <2>3. CASE ~(x = d /\ t = <<e.msg, e.user, e.field>>)
    <3>1. Coming(d, t) => Coming(d, t)'
      BY <1>0, <1>7, <2>3 DEF Coming, mergeReceiptFanoutFromSocket, TypeOK
    <3> QED
      BY <1>2, <1>3, <2>1, <3>1
  <2> QED
    BY <2>2, <2>3
<1>8. ASSUME NEW x \in Watched, NEW m \in Messages, Forget(x, m)
      PROVE  t \in told[d] /\ t[1] \in known'[d] /\ inflight' = inflight
  BY <1>0, <1>2, <1>8 DEF Forget, TypeOK
<1>9. ASSUME NEW x \in Watched, Disconnect(x)
      PROVE  t \in told[d] /\ known' = known /\ (x = d => shown'[d][t[1]][t[2]][t[3]] # 0)
             /\ (x # d => inflight'[d] = inflight[d])
  BY <1>0, <1>9 DEF Disconnect, clientVars, TypeOK
<1>10. CASE UNCHANGED <<known, told, inflight>>
  BY <1>2, <1>3, <1>10 DEF Coming
<1>11. ASSUME NEW x \in Watched, NEW m \in Messages, Learn(x, m)
       PROVE  t \in told[d] /\ known[d] \subseteq known'[d] /\ inflight' = inflight
  BY <1>0, <1>11 DEF Learn, TypeOK
<1>12. CASE t \in told[d] /\ t[1] \in known'[d] /\ inflight'[d] = inflight[d]
  BY <1>2, <1>3, <1>12 DEF Coming
<1> QED
  BY <1>2, <1>4, <1>5, <1>6, <1>7, <1>8, <1>9, <1>10, <1>11, <1>12
     DEF Next, vars, Receive, Reject, LoadReceipt, StoreReceipt, upsertConversationRead, Fail,
         FetchReceipts, mergeReceiptSummariesFromFetch, Reconnect, clientVars

\* No device was told of anything at first.
LEMMA HeardInit == Init => Heard
BY DEF Init, Heard

\* A receipt published to the connection of a device that knew the message is
\* shown there or still coming: mergeReceiptSummariesFromFetch and later events
\* do not overwrite it.
THEOREM ToldArrives == Spec => []ToldIsShown
<1>1. Heard => ToldIsShown
  BY DEF Heard, Coming, ToldIsShown
<1> QED
  BY <1>1, InvInit, InvStep, HeardInit, HeardStep, PTL DEF Spec

\* No event, response or reconnection takes a tick back while the message stays
\* in the store of the device.
THEOREM TicksStay == Spec => TicksNeverFallBack
<1> DEFINE Up == \A d \in Watched, m \in Messages, u \in Users :
                    m \in known[d] /\ m \in known'[d] => Level(shown'[d][m][u]) >= Level(shown[d][m][u])
<1>1. Inv /\ [Next]_vars => Up
  <2> SUFFICES ASSUME Inv, [Next]_vars, NEW d \in Watched, NEW m \in Messages, NEW u \in Users,
                      m \in known[d], m \in known'[d]
               PROVE  Level(shown'[d][m][u]) >= Level(shown[d][m][u])
    OBVIOUS
  <2>1. \A f \in Fields : shown[d][m][u][f] # 0 => shown'[d][m][u][f] # 0
    BY ShownGrows
  <2>2. /\ shown[d][m][u].delivered # 0 => shown'[d][m][u].delivered # 0
        /\ shown[d][m][u].seen # 0 => shown'[d][m][u].seen # 0
    BY <2>1 DEF Fields
  <2> QED
    BY <2>2 DEF Level
<1> HIDE DEF Up
<1>2. Spec => [][Up]_vars
  BY <1>1, InvInit, InvStep, PTL DEF Spec
<1> QED
  BY <1>2, PTL DEF TicksNeverFallBack, Up

-----------------------------------------------------------------------------
(* The page that reports (ThreadView): the threads it shows.               *)

Of(c) == {m \in Shown : ChatOf[m] = c}
Entries == Shown \cup {Pending(o) : o \in OfViewer}

\* An own message that is on its way or stored.
Within(o) == o \in sending \/ o \in Range(log[ChatOf[o]])

\* A row stands for a stored message of the thread, or for an own one being sent.
RowOf(x, c) == x \in Range(log[c]) \/ \E o \in OfViewer : x = Pending(o) /\ ChatOf[o] = c /\ Within(o)

ThreadShape ==
  /\ log \in [Chats -> Seq(Shown)] /\ page \in [Chats -> Seq(Shown) \cup {NoData}]
  /\ rowsOf \in [Chats -> Seq(Entries)] /\ open \in Chats \cup {NoChat}
  /\ news \subseteq Shown /\ sending \subseteq OfViewer /\ target \in Shown \cup {NoMessage}

\* A thread holds its own messages, each once.
LogSound ==
  \A c \in Chats : \A i \in DOMAIN log[c] :
    log[c][i] \in Of(c) /\ \A j \in DOMAIN log[c] : log[c][i] = log[c][j] => i = j

\* SWR holds a beginning of the thread.
PageSound ==
  \A c \in Chats : page[c] # NoData =>
    \A i \in DOMAIN page[c] : i \in DOMAIN log[c] /\ page[c][i] = log[c][i]

RowsSound == \A c \in Chats : \A x \in Range(rowsOf[c]) : RowOf(x, c)

\* What is told of is stored, what is being sent is not yet.
Underway ==
  /\ \A m \in news : m \in Range(log[ChatOf[m]])
  /\ \A o \in sending : o \notin Range(log[ChatOf[o]])
  /\ hydrating => open # NoChat /\ page[open] # NoData

ThreadsKept == ThreadShape /\ LogSound /\ PageSound /\ RowsSound /\ Underway

\* Threads only grow, and a message that is no longer being sent has been stored.
Extends == \A c \in Chats : \A i \in DOMAIN log[c] : i \in DOMAIN log'[c] /\ log'[c][i] = log[c][i]
Advances == Extends /\ \A o \in sending : o \in sending' \/ o \in Range(log'[ChatOf[o]])

\* Answers of SWR are data.
LEMMA LogIsData == ASSUME NEW s \in Seq(Shown) PROVE s # NoData
<1> SUFFICES ASSUME s = <<NoMessage>> PROVE FALSE
  BY DEF NoData
<1>1. 1 \in DOMAIN s /\ s[1] = NoMessage
  OBVIOUS
<1>2. s[1] \in Shown
  BY <1>1
<1> QED
  BY <1>1, <1>2, ThreadsAssumption

\* PeerSends and the acknowledgement append to one thread.
LEMMA LogAppended ==
  ASSUME ThreadShape, LogSound, NEW m \in Shown, m \notin Range(log[ChatOf[m]]),
         log' = [log EXCEPT ![ChatOf[m]] = Append(@, m)]
  PROVE  /\ log' \in [Chats -> Seq(Shown)] /\ LogSound' /\ Extends /\ m \in Range(log'[ChatOf[m]])
         /\ \A c \in Chats : Range(log'[c]) \subseteq Range(log[c]) \cup {m}
         /\ \A n \in Shown : n # m /\ n \notin Range(log[ChatOf[n]]) => n \notin Range(log'[ChatOf[n]])
<1> DEFINE h == ChatOf[m]
<1>1. h \in Chats /\ log \in [Chats -> Seq(Shown)]
  BY ThreadsAssumption DEF ThreadShape
<1>2. log'[h] = Append(log[h], m) /\ \A c \in Chats : c # h => log'[c] = log[c]
  BY <1>1
<1>3. log' \in [Chats -> Seq(Shown)]
  BY <1>1
<1>4. Range(log'[h]) = Range(log[h]) \cup {m}
  BY <1>1, <1>2, RangeAppend
<1>5. \A i \in DOMAIN log'[h] : \/ i \in DOMAIN log[h] /\ log'[h][i] = log[h][i]
                                \/ i = Len(log[h]) + 1 /\ log'[h][i] = m
  BY <1>1, <1>2
<1>6. \A i \in DOMAIN log[h] : i \in DOMAIN log'[h] /\ log'[h][i] = log[h][i] /\ log[h][i] # m
                               /\ i # Len(log[h]) + 1
  BY <1>1, <1>2 DEF Range
<1>7. m \in Of(h)
  BY DEF Of
<1> HIDE DEF h
<1>8. Extends
  BY <1>2, <1>6 DEF Extends
<1>9. LogSound'
  <2> SUFFICES ASSUME NEW c \in Chats, NEW i \in DOMAIN log'[c]
               PROVE  log'[c][i] \in Of(c) /\ \A j \in DOMAIN log'[c] : log'[c][i] = log'[c][j] => i = j
    BY DEF LogSound, Of
  <2>1. CASE c # h
    BY <1>2, <2>1 DEF LogSound
  <2>2. CASE c = h
    <3>1. \A k \in DOMAIN log[h] : log[h][k] \in Of(h) /\ \A j \in DOMAIN log[h] : log[h][k] = log[h][j] => k = j
      BY <1>1 DEF LogSound
    <3> QED
      BY <1>5, <1>6, <1>7, <2>2, <3>1
  <2> QED
    BY <2>1, <2>2
<1>10. \A n \in Shown : n # m /\ n \notin Range(log[ChatOf[n]]) => n \notin Range(log'[ChatOf[n]])
  <2> SUFFICES ASSUME NEW n \in Shown, n # m, n \notin Range(log[ChatOf[n]])
               PROVE  n \notin Range(log'[ChatOf[n]])
    OBVIOUS
  <2>1. ChatOf[n] \in Chats
    BY ThreadsAssumption
  <2>2. CASE ChatOf[n] = h
    BY <1>4, <2>2
  <2>3. CASE ChatOf[n] # h
    BY <1>2, <2>1, <2>3
  <2> QED
    BY <2>2, <2>3
<1>11. \A c \in Chats : Range(log'[c]) \subseteq Range(log[c]) \cup {m}
  BY <1>2, <1>4
<1> QED
  BY <1>3, <1>4, <1>8, <1>9, <1>10, <1>11 DEF h

LEMMA RangeExtends ==
  ASSUME ThreadShape, Extends, NEW c \in Chats
  PROVE  Range(log[c]) \subseteq Range(log'[c])
BY DEF Extends, Range

LEMMA WithinStays ==
  ASSUME ThreadShape, Advances, NEW o \in OfViewer, Within(o)
  PROVE  Within(o)'
<1>1. ChatOf[o] \in Chats
  BY ThreadsAssumption
<1>2. Range(log[ChatOf[o]]) \subseteq Range(log'[ChatOf[o]])
  BY <1>1, RangeExtends DEF Advances
<1> QED
  BY <1>2 DEF Within, Advances

\* A row stays one.
LEMMA RowStays ==
  ASSUME ThreadShape, Advances, NEW c \in Chats, NEW x, RowOf(x, c)
  PROVE  RowOf(x, c)'
<1>1. CASE x \in Range(log[c])
  BY <1>1, RangeExtends DEF RowOf, Advances
<1>2. CASE \E o \in OfViewer : x = Pending(o) /\ ChatOf[o] = c /\ Within(o)
  <2>1. PICK o \in OfViewer : x = Pending(o) /\ ChatOf[o] = c /\ Within(o)
    BY <1>2
  <2>2. Within(o)'
    BY <2>1, WithinStays
  <2> QED
    BY <2>1, <2>2 DEF RowOf
<1> QED
  BY <1>1, <1>2 DEF RowOf

\* SWR's data stay a beginning of the thread.
LEMMA PageStays ==
  ASSUME ThreadShape, PageSound, Extends, page' = page
  PROVE  PageSound'
BY DEF PageSound, Extends, ThreadShape

\* The acknowledgement puts the stored message where the optimistic row was.
LEMMA ReplaceAllFacts ==
  ASSUME NEW S, NEW s \in Seq(S), NEW old, NEW new \in S
  PROVE  /\ ReplaceAll(s, old, new) \in Seq(S) /\ Len(ReplaceAll(s, old, new)) = Len(s)
         /\ Range(ReplaceAll(s, old, new)) \subseteq Range(s) \cup {new}
         /\ \A x \in Range(s) : x # old => x \in Range(ReplaceAll(s, old, new))
<1> DEFINE t == ReplaceAll(s, old, new)
<1>1. t = [i \in 1 .. Len(s) |-> IF s[i] = old THEN new ELSE s[i]]
  BY DEF ReplaceAll
<1>2. t \in Seq(S) /\ Len(t) = Len(s) /\ DOMAIN t = 1 .. Len(s)
  <2>1. \A i \in 1 .. Len(s) : s[i] \in S
    OBVIOUS
  <2> HIDE DEF t
  <2>2. \A i \in 1 .. Len(s) : t[i] \in S
    BY <1>1, <2>1
  <2>3. Len(s) \in Nat /\ t \in [1 .. Len(s) -> S]
    BY <1>1, <2>2
  <2> QED
    BY <2>3
<1>3. \A i \in 1 .. Len(s) : t[i] = IF s[i] = old THEN new ELSE s[i]
  BY <1>1
<1> HIDE DEF t
<1>4. Range(t) \subseteq Range(s) \cup {new}
  BY <1>2, <1>3 DEF Range
<1>5. \A x \in Range(s) : x # old => x \in Range(t)
  BY <1>2, <1>3 DEF Range
<1> QED
  BY <1>2, <1>4, <1>5 DEF t

\* Rows of one thread change: what is new in it must stand for something.
LEMMA RowsChanged ==
  ASSUME ThreadsKept, Advances, NEW c \in Chats, NEW s \in Seq(Entries),
         rowsOf' = [rowsOf EXCEPT ![c] = s],
         \A x \in Range(s) : x \in Range(rowsOf[c]) \/ RowOf(x, c)'
  PROVE  rowsOf' \in [Chats -> Seq(Entries)] /\ RowsSound'
<1>1. rowsOf \in [Chats -> Seq(Entries)] /\ RowsSound /\ ThreadShape
  BY DEF ThreadsKept, ThreadShape
<1>2. rowsOf' \in [Chats -> Seq(Entries)] /\ rowsOf'[c] = s /\ \A d \in Chats : d # c => rowsOf'[d] = rowsOf[d]
  BY <1>1
<1>3. ASSUME NEW d \in Chats, NEW x \in Range(rowsOf'[d])
      PROVE  RowOf(x, d)'
  <2>1. x \in Range(rowsOf[d]) \/ RowOf(x, d)'
    BY <1>2, <1>3
  <2>2. CASE x \in Range(rowsOf[d])
    <3>1. RowOf(x, d)
      BY <1>1, <2>2 DEF RowsSound
    <3> QED
      BY <1>1, <3>1, RowStays
  <2> QED
    BY <2>1, <2>2
<1> QED
  BY <1>2, <1>3 DEF RowsSound

LEMMA RowsUnchanged ==
  ASSUME ThreadsKept, Advances, rowsOf' = rowsOf
  PROVE  RowsSound'
<1>1. ASSUME NEW d \in Chats, NEW x \in Range(rowsOf'[d])
      PROVE  RowOf(x, d)'
  <2>1. RowOf(x, d)
    BY <1>1 DEF ThreadsKept, RowsSound
  <2> QED
    BY <2>1, RowStays DEF ThreadsKept
<1> QED
  BY <1>1 DEF RowsSound

LEMMA LogStill ==
  ASSUME log' = log, sending \subseteq sending'
  PROVE  Advances
BY DEF Advances, Extends

\* Targets are messages, whatever the commit.
LEMMA ScrolledTarget ==
  ASSUME NEW want \in Shown \cup {NoMessage}, Scrolled(want)
  PROVE  target' \in Shown \cup {NoMessage}
BY DEF Scrolled, NoTarget

\* Before anything was opened the threads are what they were at first.
LEMMA ThreadsInit == ViewInit => ThreadsKept
<1> SUFFICES ASSUME ViewInit PROVE ThreadsKept
  OBVIOUS
<1>1. /\ log = Old /\ news = {} /\ open = NoChat /\ page = [c \in Chats |-> NoData]
      /\ hydrating = FALSE /\ sending = {} /\ rowsOf = [c \in Chats |-> <<>>] /\ target = NoMessage
  BY DEF ViewInit, Nothing, NoTarget
<1>2. ThreadShape
  BY <1>1, ThreadsAssumption DEF ThreadShape
<1>3. LogSound
  <2> SUFFICES ASSUME NEW c \in Chats, NEW i \in DOMAIN log[c]
               PROVE  log[c][i] \in Of(c) /\ \A j \in DOMAIN log[c] : log[c][i] = log[c][j] => i = j
    BY DEF LogSound
  <2>1. log[c] \in Seq(Shown) /\ log[c][i] \in Shown
    BY <1>2 DEF ThreadShape
  <2> QED
    BY <1>1, <2>1, ThreadsAssumption DEF Of
<1>4. PageSound
  BY <1>1 DEF PageSound
<1>5. RowsSound
  BY <1>1 DEF RowsSound, Range
<1>6. Underway
  BY <1>1 DEF Underway
<1> QED
  BY <1>2, <1>3, <1>4, <1>5, <1>6 DEF ThreadsKept

threadVars == <<log, page, rowsOf, open, news, sending, target, hydrating>>

LEMMA ThreadsStill ==
  ASSUME ThreadsKept, UNCHANGED threadVars
  PROVE  ThreadsKept' /\ Advances
<1>1. Advances
  BY LogStill DEF threadVars
<1> QED
  BY <1>1 DEF threadVars, ThreadsKept, ThreadShape, LogSound, PageSound, RowsSound, Underway, RowOf, Within

\* Only log, news and sending decide what a row may stand for.
LEMMA ThreadsPeerSends ==
  ASSUME ThreadsKept, NEW m \in Shown, PeerSends(m)
  PROVE  ThreadsKept' /\ Advances
<1>1. ThreadShape /\ LogSound /\ PageSound /\ Underway /\ OfPeer(m)
  BY DEF PeerSends, ThreadsKept
<1>2. /\ m \notin Range(log[ChatOf[m]]) /\ log' = [log EXCEPT ![ChatOf[m]] = Append(@, m)]
      /\ news' \subseteq news \cup {m}
      /\ UNCHANGED <<page, rowsOf, open, sending, target, hydrating>>
  BY DEF PeerSends, swrOfView, scrolling
<1>3. /\ log' \in [Chats -> Seq(Shown)] /\ LogSound' /\ Extends /\ m \in Range(log'[ChatOf[m]])
      /\ \A n \in Shown : n # m /\ n \notin Range(log[ChatOf[n]]) => n \notin Range(log'[ChatOf[n]])
  BY <1>1, <1>2, LogAppended
<1>4. Advances
  BY <1>2, <1>3 DEF Advances
<1>5. ThreadShape'
  BY <1>1, <1>2, <1>3 DEF ThreadShape
<1>6. PageSound' /\ RowsSound'
  BY <1>1, <1>2, <1>3, <1>4, PageStays, RowsUnchanged
<1>7. Underway'
  <2>1. ASSUME NEW n \in news' PROVE n \in Range(log'[ChatOf[n]])
    <3>1. CASE n = m
      BY <1>3, <3>1
    <3>2. CASE n # m
      <4>1. n \in news /\ n \in Range(log[ChatOf[n]]) /\ ChatOf[n] \in Chats
        BY <1>1, <1>2, <2>1, <3>2, ThreadsAssumption DEF Underway, ThreadShape
      <4> QED
        BY <1>1, <1>3, <4>1, RangeExtends
    <3> QED
      BY <3>1, <3>2
  <2>2. ASSUME NEW o \in sending' PROVE o \notin Range(log'[ChatOf[o]])
    <3>1. o \in sending /\ o \in OfViewer /\ o \in Shown /\ o # m
      BY <1>1, <1>2, <2>2, ThreadsAssumption DEF ThreadShape, OfPeer
    <3> QED
      BY <1>1, <1>3, <3>1 DEF Underway
  <2>3. hydrating' => open' # NoChat /\ page'[open'] # NoData
    BY <1>1, <1>2 DEF Underway
  <2> QED
    BY <2>1, <2>2, <2>3 DEF Underway
<1> QED
  BY <1>3, <1>4, <1>5, <1>6, <1>7 DEF ThreadsKept

LEMMA ThreadsMessageArrives ==
  ASSUME ThreadsKept, NEW m \in Shown, MessageArrives(m)
  PROVE  ThreadsKept' /\ Advances
<1>1. ThreadShape /\ LogSound /\ PageSound /\ RowsSound /\ Underway
  BY DEF ThreadsKept
<1>2. /\ m \in news /\ news' = news \ {m} /\ UNCHANGED <<log, page, open, hydrating, sending>>
  BY DEF MessageArrives
<1>3. Advances /\ ChatOf[m] \in Chats
  BY <1>2, LogStill, ThreadsAssumption
<1>4. LogSound' /\ PageSound' /\ Underway'
  BY <1>1, <1>2 DEF LogSound, PageSound, Underway
<1>5. CASE m \in Known
  <2>1. UNCHANGED <<rowsOf, target>>
    BY <1>5 DEF MessageArrives, scrolling
  <2> QED
    BY <1>1, <1>2, <1>3, <1>4, <2>1, RowsUnchanged DEF ThreadsKept, ThreadShape
<1>6. CASE m \notin Known
  <2>1. rowsOf' = [rowsOf EXCEPT ![ChatOf[m]] = Append(rowsOf[ChatOf[m]], m)] /\ Scrolled(m)
    BY <1>6 DEF MessageArrives, Commit
  <2>2. m \in Entries /\ rowsOf[ChatOf[m]] \in Seq(Entries)
    BY <1>1, <1>3 DEF Entries, ThreadShape
  <2>3. /\ Append(rowsOf[ChatOf[m]], m) \in Seq(Entries)
        /\ Range(Append(rowsOf[ChatOf[m]], m)) = Range(rowsOf[ChatOf[m]]) \cup {m}
    BY <2>2, RangeAppend
  <2>4. RowOf(m, ChatOf[m])'
    BY <1>1, <1>2 DEF Underway, RowOf
  <2>5. rowsOf' \in [Chats -> Seq(Entries)] /\ RowsSound'
    BY <1>3, <2>1, <2>3, <2>4, RowsChanged
  <2>6. target' \in Shown \cup {NoMessage}
    BY <2>1, ScrolledTarget
  <2> QED
    BY <1>1, <1>2, <1>3, <1>4, <2>5, <2>6 DEF ThreadsKept, ThreadShape
<1> QED
  BY <1>5, <1>6

LEMMA ThreadsSendsOwn ==
  ASSUME ThreadsKept, NEW o \in Shown, SendsOwn(o)
  PROVE  ThreadsKept' /\ Advances
<1>1. ThreadShape /\ LogSound /\ PageSound /\ RowsSound /\ Underway
  BY DEF ThreadsKept
<1>2. /\ o \in OfViewer /\ open = ChatOf[o] /\ o \notin Range(log[open]) /\ sending = {} /\ sending' = {o}
      /\ rowsOf' = [rowsOf EXCEPT ![open] = Append(rowsOf[open], Pending(o))]
      /\ UNCHANGED <<log, news, page, open, hydrating>> /\ Scrolled(target)
  BY DEF SendsOwn, serverOfView, swrOfView, Commit
<1>3. Advances /\ open \in Chats
  BY <1>2, LogStill, ThreadsAssumption
<1>4. LogSound' /\ PageSound' /\ Underway'
  BY <1>1, <1>2 DEF LogSound, PageSound, Underway
<1>5. Pending(o) \in Entries /\ rowsOf[open] \in Seq(Entries)
  BY <1>1, <1>2, <1>3 DEF Entries, ThreadShape
<1>6. /\ Append(rowsOf[open], Pending(o)) \in Seq(Entries)
      /\ Range(Append(rowsOf[open], Pending(o))) = Range(rowsOf[open]) \cup {Pending(o)}
  BY <1>5, RangeAppend
<1>7. RowOf(Pending(o), open)'
  BY <1>2 DEF RowOf, Within
<1>8. rowsOf' \in [Chats -> Seq(Entries)] /\ RowsSound'
  BY <1>2, <1>3, <1>6, <1>7, RowsChanged
<1>9. target' \in Shown \cup {NoMessage}
  BY <1>1, <1>2, ScrolledTarget DEF ThreadShape
<1> QED
  BY <1>1, <1>2, <1>3, <1>4, <1>8, <1>9 DEF ThreadsKept, ThreadShape

LEMMA ThreadsAcknowledged ==
  ASSUME ThreadsKept, NEW o \in Shown, Acknowledged(o)
  PROVE  ThreadsKept' /\ Advances
<1> DEFINE h == ChatOf[o]
           s == IF Pending(o) \in Range(rowsOf[h]) THEN ReplaceAll(rowsOf[h], Pending(o), o) ELSE Append(rowsOf[h], o)
<1>1. ThreadShape /\ LogSound /\ PageSound /\ RowsSound /\ Underway
  BY DEF ThreadsKept
<1>2. /\ o \in sending /\ sending' = sending \ {o}
      /\ log' = [log EXCEPT ![h] = Append(@, o)] /\ rowsOf' = [rowsOf EXCEPT ![h] = s]
      /\ UNCHANGED <<news, page, open, hydrating>> /\ Scrolled(o)
  BY DEF Acknowledged, Commit
<1>3. h \in Chats /\ o \notin Range(log[h]) /\ rowsOf[h] \in Seq(Entries) /\ o \in Entries
  BY <1>1, <1>2, ThreadsAssumption DEF Underway, ThreadShape, Entries
<1>4. /\ log' \in [Chats -> Seq(Shown)] /\ LogSound' /\ Extends /\ o \in Range(log'[h])
      /\ \A n \in Shown : n # o /\ n \notin Range(log[ChatOf[n]]) => n \notin Range(log'[ChatOf[n]])
  BY <1>1, <1>2, <1>3, LogAppended
<1>5. Advances
  BY <1>2, <1>4 DEF Advances
<1>6. s \in Seq(Entries) /\ Range(s) \subseteq Range(rowsOf[h]) \cup {o}
  BY <1>3, ReplaceAllFacts, RangeAppend
<1>7. RowOf(o, h)'
  BY <1>4 DEF RowOf
<1> HIDE DEF s
<1>8. rowsOf' \in [Chats -> Seq(Entries)] /\ RowsSound'
  BY <1>2, <1>3, <1>5, <1>6, <1>7, RowsChanged
<1>9. target' \in Shown \cup {NoMessage} /\ PageSound'
  BY <1>1, <1>2, <1>4, ScrolledTarget, PageStays
<1>10. Underway'
  <2>1. ASSUME NEW n \in news' PROVE n \in Range(log'[ChatOf[n]])
    <3>1. n \in news /\ n \in Range(log[ChatOf[n]]) /\ ChatOf[n] \in Chats
      BY <1>1, <1>2, <2>1, ThreadsAssumption DEF Underway, ThreadShape
    <3> QED
      BY <1>1, <1>4, <3>1, RangeExtends
  <2>2. ASSUME NEW n \in sending' PROVE n \notin Range(log'[ChatOf[n]])
    <3>1. n \in sending /\ n \in Shown /\ n # o
      BY <1>1, <1>2, <2>2, ThreadsAssumption DEF ThreadShape
    <3> QED
      BY <1>1, <1>4, <3>1 DEF Underway
  <2>3. hydrating' => open' # NoChat /\ page'[open'] # NoData
    BY <1>1, <1>2 DEF Underway
  <2> QED
    BY <2>1, <2>2, <2>3 DEF Underway
<1> QED
  BY <1>1, <1>2, <1>4, <1>5, <1>8, <1>9, <1>10 DEF ThreadsKept, ThreadShape

LEMMA ThreadsOpens ==
  ASSUME ThreadsKept, NEW c \in Chats \cup {NoChat}, Opens(c)
  PROVE  ThreadsKept' /\ Advances
<1>1. ThreadShape /\ LogSound /\ PageSound /\ RowsSound /\ Underway
  BY DEF ThreadsKept
<1>2. open' = c /\ UNCHANGED <<log, news, page, sending, rowsOf>> /\ Scrolled(target)
  BY DEF Opens, serverOfView, Commit
<1>3. Advances
  BY <1>2, LogStill
<1>4. hydrating' => c # NoChat /\ page[c] # NoData
  BY DEF Opens
<1>5. Underway'
  BY <1>1, <1>2, <1>4 DEF Underway
<1>6. target' \in Shown \cup {NoMessage}
  BY <1>1, <1>2, ScrolledTarget DEF ThreadShape
<1>7. RowsSound' /\ LogSound' /\ PageSound'
  BY <1>1, <1>2, <1>3, RowsUnchanged DEF LogSound, PageSound
<1> QED
  BY <1>1, <1>2, <1>3, <1>5, <1>6, <1>7 DEF ThreadsKept, ThreadShape

LEMMA ThreadsHydrate ==
  ASSUME ThreadsKept, hydrateMessages
  PROVE  ThreadsKept' /\ Advances
<1>1. ThreadShape /\ LogSound /\ PageSound /\ RowsSound /\ Underway
  BY DEF ThreadsKept
<1>2. /\ hydrating /\ ~hydrating' /\ rowsOf' = [rowsOf EXCEPT ![open] = page[open]]
      /\ UNCHANGED <<log, news, page, open, sending>> /\ Scrolled(target)
  BY DEF hydrateMessages, serverOfView, swrOfView, Commit
<1>3. Advances /\ open \in Chats /\ page[open] # NoData
  BY <1>1, <1>2, LogStill DEF Underway, ThreadShape
<1>4. page[open] \in Seq(Shown)
  BY <1>1, <1>3 DEF ThreadShape
<1>5. page[open] \in Seq(Entries)
  BY <1>4, SeqMonotone DEF Entries
<1>6. \A x \in Range(page[open]) : RowOf(x, open)'
  BY <1>1, <1>2, <1>3 DEF PageSound, RowOf, Range
<1>7. rowsOf' \in [Chats -> Seq(Entries)] /\ RowsSound'
  BY <1>2, <1>3, <1>5, <1>6, RowsChanged
<1>8. target' \in Shown \cup {NoMessage}
  BY <1>1, <1>2, ScrolledTarget DEF ThreadShape
<1>9. LogSound' /\ PageSound' /\ Underway'
  BY <1>1, <1>2 DEF LogSound, PageSound, Underway
<1> QED
  BY <1>1, <1>2, <1>3, <1>7, <1>8, <1>9 DEF ThreadsKept, ThreadShape

LEMMA ThreadsLoads ==
  ASSUME ThreadsKept, NEW c \in Chats, Loads(c)
  PROVE  ThreadsKept' /\ Advances
<1>1. ThreadShape /\ LogSound /\ PageSound /\ RowsSound /\ Underway
  BY DEF ThreadsKept
<1>2. /\ page' = [page EXCEPT ![c] = log[c]] /\ hydrating' = (c = open /\ page' # page)
      /\ UNCHANGED <<log, news, open, sending, rowsOf>>
  BY DEF Loads, serverOfView
<1>3. Advances
  BY <1>2, LogStill
<1>4. target' \in Shown \cup {NoMessage}
  <2>1. target' = target \/ Scrolled(target)
    BY DEF Loads, scrolling, Uncovered, Commit
  <2> QED
    BY <1>1, <2>1, ScrolledTarget DEF ThreadShape
<1>5. log[c] \in Seq(Shown) /\ log[c] # NoData
  BY <1>1, LogIsData DEF ThreadShape
<1>6. page' \in [Chats -> Seq(Shown) \cup {NoData}] /\ page'[c] = log[c] /\ \A d \in Chats : d # c => page'[d] = page[d]
  BY <1>1, <1>2, <1>5 DEF ThreadShape
<1>7. PageSound'
  BY <1>1, <1>2, <1>6 DEF PageSound
<1>8. Underway'
  <2>1. (\A m \in news' : m \in Range(log'[ChatOf[m]])) /\ \A o \in sending' : o \notin Range(log'[ChatOf[o]])
    BY <1>1, <1>2 DEF Underway
  <2>2. ASSUME hydrating' PROVE open' # NoChat /\ page'[open'] # NoData
    <3>1. c = open
      BY <1>2, <2>2
    <3> QED
      BY <1>2, <1>5, <1>6, <3>1, ThreadsAssumption
  <2> QED
    BY <2>1, <2>2 DEF Underway
<1>9. RowsSound' /\ LogSound'
  BY <1>1, <1>2, <1>3, RowsUnchanged DEF LogSound
<1> QED
  BY <1>1, <1>2, <1>3, <1>4, <1>6, <1>7, <1>8, <1>9 DEF ThreadsKept, ThreadShape

\* The target alone changes.
LEMMA ThreadsTarget ==
  ASSUME ThreadsKept, UNCHANGED <<log, page, rowsOf, open, news, sending, hydrating>>,
         target' \in Shown \cup {NoMessage}
  PROVE  ThreadsKept' /\ Advances
<1>1. Advances
  BY LogStill
<1> QED
  BY <1>1 DEF ThreadsKept, ThreadShape, LogSound, PageSound, RowsSound, Underway, RowOf, Within

LEMMA ThreadsStep == ThreadsKept /\ [ViewNext]_viewVars => ThreadsKept' /\ Advances
<1> SUFFICES ASSUME ThreadsKept, [ViewNext]_viewVars PROVE ThreadsKept' /\ Advances
  OBVIOUS
<1>0. target \in Shown \cup {NoMessage}
  BY DEF ThreadsKept, ThreadShape
<1>1. ASSUME NEW m \in Shown, PeerSends(m) PROVE ThreadsKept' /\ Advances
  BY <1>1, ThreadsPeerSends
<1>2. ASSUME NEW m \in Shown, MessageArrives(m) PROVE ThreadsKept' /\ Advances
  BY <1>2, ThreadsMessageArrives
<1>3. ASSUME NEW m \in Shown, SendsOwn(m) PROVE ThreadsKept' /\ Advances
  BY <1>3, ThreadsSendsOwn
<1>4. ASSUME NEW m \in Shown, Acknowledged(m) PROVE ThreadsKept' /\ Advances
  BY <1>4, ThreadsAcknowledged
<1>5. ASSUME NEW m \in Shown, RowSeen(m) PROVE ThreadsKept' /\ Advances
  <2>1. UNCHANGED threadVars
    BY <1>5 DEF RowSeen, threadVars, serverOfView, swrOfView, scrolling
  <2> QED
    BY <2>1, ThreadsStill
<1>6. ASSUME NEW k \in calls, Handled(k) \/ Refused(k) PROVE ThreadsKept' /\ Advances
  <2>1. UNCHANGED threadVars
    BY <1>6 DEF Handled, Refused, threadVars, serverOfView, swrOfView, scrolling
  <2> QED
    BY <2>1, ThreadsStill
<1>7. ASSUME Drops \/ Returns PROVE ThreadsKept' /\ Advances
  <2>1. UNCHANGED threadVars
    BY <1>7 DEF Drops, Returns, threadVars, serverOfView, swrOfView, scrolling
  <2> QED
    BY <2>1, ThreadsStill
<1>8. ASSUME NEW c \in Chats \cup {NoChat}, Opens(c) PROVE ThreadsKept' /\ Advances
  BY <1>8, ThreadsOpens
<1>9. ASSUME NEW c \in Chats, Loads(c) PROVE ThreadsKept' /\ Advances
  BY <1>9, ThreadsLoads
<1>10. ASSUME NEW c \in Chats, LoadFails(c) \/ Retries(c) PROVE ThreadsKept' /\ Advances
  <2>1. UNCHANGED <<log, page, rowsOf, open, news, sending, hydrating>>
    BY <1>10 DEF LoadFails, Retries, serverOfView
  <2>2. target' = target \/ Scrolled(target)
    BY <1>10 DEF LoadFails, Retries, scrolling
  <2> QED
    BY <1>0, <2>1, <2>2, ScrolledTarget, ThreadsTarget
<1>11. ASSUME hydrateMessages PROVE ThreadsKept' /\ Advances
  BY <1>11, ThreadsHydrate
<1>12. ASSUME ReceiptsMerged PROVE ThreadsKept' /\ Advances
  <2>1. UNCHANGED <<log, page, rowsOf, open, news, sending, hydrating>> /\ Scrolled(target)
    BY <1>12 DEF ReceiptsMerged, swrOfView, Commit
  <2> QED
    BY <1>0, <2>1, ScrolledTarget, ThreadsTarget
<1>13. ASSUME TargetRetried PROVE ThreadsKept' /\ Advances
  <2>1. UNCHANGED <<log, page, rowsOf, open, news, sending, hydrating>> /\ target' = NoMessage
    BY <1>13 DEF TargetRetried, serverOfView, swrOfView, NoTarget
  <2> QED
    BY <2>1, ThreadsTarget
<1>14. ASSUME NEW b \in 1 .. Cardinality(Shown), ScrollsTo(b) PROVE ThreadsKept' /\ Advances
  <2>1. UNCHANGED threadVars
    BY <1>14 DEF ScrollsTo, threadVars, serverOfView, swrOfView
  <2> QED
    BY <2>1, ThreadsStill
<1>15. CASE UNCHANGED viewVars
  <2>1. UNCHANGED threadVars
    BY <1>15 DEF viewVars, threadVars, serverOfView, swrOfView, scrolling
  <2> QED
    BY <2>1, ThreadsStill
<1> QED
  BY <1>1, <1>2, <1>3, <1>4, <1>5, <1>6, <1>7, <1>8, <1>9, <1>10, <1>11, <1>12, <1>13, <1>14, <1>15 DEF ViewNext

\* The threads of the page: SWR holds a beginning of a thread, its rows stand for
\* stored messages of it or for own ones being sent, and no thread holds one twice.
THEOREM ThreadsAreKept == ViewSpec => []ThreadsKept
BY ThreadsInit, ThreadsStep, PTL DEF ViewSpec

-----------------------------------------------------------------------------
(* What was before the viewer is reported.                                 *)

\* A report that was not refused.
Told(event, m) ==
  \/ m \in seen
  \/ <<event, m>> \in heard \cup lost
  \/ \E k \in calls : k.event = event /\ k.msg = m

\* What the refs remember as reported was told to the server or went with a connection.
RefsTold ==
  /\ mine \subseteq seen
  /\ \A m \in shownRead : Told("message:read", m)
  /\ cursorKey # NoMessage => Told("conversation:read", cursorKey)

FiredReported == \A m \in fired : Reports("message:read", m)

LastReported ==
  open # NoChat /\ LastOfPeer(Rows) # NoMessage /\ ~messagesLoading =>
    Reports("conversation:read", LastOfPeer(Rows))

ReportsKept == RefsTold /\ FiredReported /\ LastReported

LEMMA ToldIsReported == \A event, m : Told(event, m) => Reports(event, m)
BY DEF Told, Reports

LEMMA ReportsInit == ViewInit => ReportsKept
BY DEF ViewInit, ReportsKept, RefsTold, FiredReported, LastReported

\* Nothing that was reported is taken back.
Remembers == seen \subseteq seen' /\ heard \subseteq heard' /\ lost \subseteq lost'

LEMMA ToldStays ==
  ASSUME Remembers, calls \subseteq calls', NEW event, NEW m, Told(event, m)
  PROVE  Told(event, m)'
BY DEF Remembers, Told

LEMMA ReportsStay ==
  ASSUME Remembers, calls \subseteq calls', NEW event, NEW m, Reports(event, m),
         <<event, m>> \in refused => <<event, m>> \in refused'
  PROVE  Reports(event, m)'
BY DEF Remembers, Reports

\* The reports of a commit: the refs are rebuilt or added to, and the last message of
\* the peer has been told of when they end.
LEMMA CommitReports ==
  ASSUME ReportsKept, Reported, mine' \subseteq seen', seen \subseteq seen', heard' = heard
  PROVE  ReportsKept'
<1> DEFINE opened == open' # open
           rows == IF open' = NoChat THEN <<>> ELSE Rows'
           last == LastOfPeer(rows)
           marker == IF rows # <<>> /\ Last(rows) \in mine' THEN Last(rows) ELSE KeptCursor
           effect == last # NoMessage /\ ~messagesLoading'
           emits == effect /\ last \notin mine' /\ marker # last
           receipt == Receipt("conversation:read", last)
<1>1. /\ shownRead' = (IF opened THEN {} ELSE shownRead) \cup (Range(rows) \cap mine')
      /\ cursorKey' = (IF effect THEN last ELSE marker)
      /\ calls' = calls \cup (IF emits THEN {receipt} ELSE {})
      /\ fired' = {} \/ (~opened /\ fired' = fired \cap Range(rows))
      /\ refused' = {r \in refused : r[1] = "message:read"}
      /\ lost' = (IF opened THEN {} ELSE lost)
  BY DEF Reported
<1>2. emits => receipt.event = "conversation:read" /\ receipt.msg = last
  BY DEF Receipt
<1>3. KeptCursor = IF opened THEN NoMessage ELSE cursorKey
  BY DEF KeptCursor
<1>4. RefsTold /\ FiredReported
  BY DEF ReportsKept
<1>5. ~opened => Remembers
  BY <1>1 DEF Remembers
<1>6. calls \subseteq calls'
  BY <1>1
<1> HIDE DEF opened, rows, last, effect, receipt
<1>7. ASSUME NEW x, x = marker, x # NoMessage PROVE Told("conversation:read", x)'
  <2>1. CASE marker \in mine'
    BY <1>7, <2>1 DEF Told
  <2>2. CASE marker = KeptCursor /\ ~opened
    <3>1. x = cursorKey /\ Told("conversation:read", x)
      BY <1>3, <1>4, <1>7, <2>2 DEF RefsTold
    <3> QED
      BY <1>5, <1>6, <2>2, <3>1, ToldStays
  <2> QED
    BY <1>3, <1>7, <2>1, <2>2 DEF marker
<1> HIDE DEF marker
<1>8. ASSUME NEW x, x = last, effect PROVE Told("conversation:read", x)' /\ x # NoMessage
  <2>1. x # NoMessage
    BY <1>8 DEF effect
  <2>2. CASE last \in mine'
    BY <1>8, <2>1, <2>2 DEF Told
  <2>3. CASE marker = last
    BY <1>7, <1>8, <2>1, <2>3
  <2>4. CASE emits
    <3>1. receipt \in calls' /\ receipt.event = "conversation:read" /\ receipt.msg = x
      BY <1>1, <1>2, <1>8, <2>4
    <3> QED
      BY <2>1, <3>1 DEF Told
  <2> QED
    BY <1>8, <2>1, <2>2, <2>3, <2>4
<1>9. RefsTold'
  <2>1. ASSUME NEW m \in shownRead' PROVE Told("message:read", m)'
    <3>1. CASE m \in mine'
      BY <3>1 DEF Told
    <3>2. CASE m \in shownRead /\ ~opened
      <4>1. Told("message:read", m)
        BY <1>4, <3>2 DEF RefsTold
      <4> QED
        BY <1>5, <1>6, <3>2, <4>1, ToldStays
    <3> QED
      BY <1>1, <2>1, <3>1, <3>2
  <2>2. ASSUME NEW x, x = cursorKey', x # NoMessage PROVE Told("conversation:read", x)'
    BY <1>1, <1>7, <1>8, <2>2
  <2> QED
    BY <2>1, <2>2 DEF RefsTold, Told
<1>10. FiredReported'
  <2> SUFFICES ASSUME NEW m \in fired' PROVE Reports("message:read", m)'
    BY DEF FiredReported
  <2>1. m \in fired /\ ~opened
    BY <1>1
  <2>2. <<"message:read", m>> \in refused => <<"message:read", m>> \in refused'
    BY <1>1
  <2> QED
    BY <1>4, <1>5, <1>6, <2>1, <2>2, ReportsStay DEF FiredReported
<1>11. LastReported'
  <2> SUFFICES ASSUME open' # NoChat, LastOfPeer(Rows)' # NoMessage, ~messagesLoading',
                      NEW x, x = LastOfPeer(Rows)'
               PROVE  Reports("conversation:read", x)'
    BY DEF LastReported, Reports
  <2>1. x = last /\ effect
    BY DEF rows, last, effect, LastOfPeer
  <2> QED
    BY <1>8, <2>1 DEF Told, Reports
<1> QED
  BY <1>9, <1>10, <1>11 DEF ReportsKept

\* The thread that is shown, and whether it loads, are the same for the reports.
SameLast == open' = open /\ (open # NoChat /\ ~messagesLoading' => Rows' = Rows /\ ~messagesLoading)

\* Steps without a commit: no report is forgotten, none is asked for.
LEMMA QuietReports ==
  ASSUME ReportsKept, SameLast, mine' = mine, seen \subseteq seen', shownRead' = shownRead,
         cursorKey' = cursorKey, fired' \subseteq fired,
         NEW e, NEW f, e = "conversation:read", f = "message:read",
         \A m : Told(e, m) => Told(e, m)',
         \A m : Told(f, m) => Told(f, m)',
         \A m : Reports(e, m) => Reports(e, m)',
         \A m : Reports(f, m) => Reports(f, m)'
  PROVE  ReportsKept'
<1>1. RefsTold'
  BY DEF ReportsKept, RefsTold, Told
<1>2. FiredReported'
  BY DEF ReportsKept, FiredReported, Reports
<1>3. LastReported'
  <2> SUFFICES ASSUME open' # NoChat, LastOfPeer(Rows)' # NoMessage, ~messagesLoading',
                      NEW x, x = LastOfPeer(Rows)'
               PROVE  Reports("conversation:read", x)'
    BY DEF LastReported, Reports
  <2>1. x = LastOfPeer(Rows) /\ x # NoMessage /\ open # NoChat /\ ~messagesLoading
    BY DEF SameLast, LastOfPeer
  <2> QED
    BY <2>1 DEF ReportsKept, LastReported
<1> QED
  BY <1>1, <1>2, <1>3 DEF ReportsKept

\* ... and the reports themselves are where they were.
LEMMA StillReports ==
  ASSUME ReportsKept, SameLast, UNCHANGED <<mine, shownRead, cursorKey, calls, refused, lost>>,
         seen \subseteq seen', heard' = heard, fired' \subseteq fired
  PROVE  ReportsKept'
<1>1. Remembers /\ calls \subseteq calls'
  BY DEF Remembers
<1>2. \A m : Told("conversation:read", m) => Told("conversation:read", m)'
  BY <1>1, ToldStays
<1>3. \A m : Told("message:read", m) => Told("message:read", m)'
  BY <1>1, ToldStays
<1>4. \A m : Reports("conversation:read", m) => Reports("conversation:read", m)'
  BY <1>1, ReportsStay
<1>5. \A m : Reports("message:read", m) => Reports("message:read", m)'
  BY <1>1, ReportsStay
<1> QED
  BY <1>2, <1>3, <1>4, <1>5, QuietReports

\* Whether the open thread loads is decided by its request and its data.
LEMMA SameWhenStill ==
  ASSUME UNCHANGED <<open, rowsOf, page, asked>>
  PROVE  SameLast
BY DEF SameLast, messagesLoading, Rows

LEMMA ReportsHandled ==
  ASSUME ReportsKept, NEW k \in calls, Handled(k)
  PROVE  ReportsKept'
<1>1. /\ calls' = calls \ {k} /\ heard' = heard \cup {<<k.event, k.msg>>} /\ seen \subseteq seen'
      /\ UNCHANGED <<open, rowsOf, page, asked, mine, cursorKey, shownRead, fired, refused, lost>>
  BY DEF Handled, swrOfView
<1>2. ASSUME NEW e, NEW m, Told(e, m) PROVE Told(e, m)'
  BY <1>1, <1>2 DEF Told
<1>3. ASSUME NEW e, NEW m, Reports(e, m) PROVE Reports(e, m)'
  BY <1>1, <1>3 DEF Reports
<1>4. SameLast
  BY <1>1, SameWhenStill
<1> QED
  BY <1>1, <1>2, <1>3, <1>4, QuietReports

LEMMA ReportsDrops ==
  ASSUME ReportsKept, Drops
  PROVE  ReportsKept'
<1>1. /\ lost' = lost \cup {<<k.event, k.msg>> : k \in calls} /\ calls' = {}
      /\ UNCHANGED <<open, rowsOf, page, asked, seen, heard, mine, cursorKey, shownRead, fired, refused>>
  BY DEF Drops, swrOfView
<1>2. ASSUME NEW e, NEW m, Told(e, m) PROVE Told(e, m)'
  BY <1>1, <1>2 DEF Told
<1>3. ASSUME NEW e, NEW m, Reports(e, m) PROVE Reports(e, m)'
  BY <1>1, <1>3 DEF Reports
<1>4. SameLast
  BY <1>1, SameWhenStill
<1> QED
  BY <1>1, <1>2, <1>3, <1>4, QuietReports

\* A refused report is forgotten by the ref that remembered it.
LEMMA ReportsRefused ==
  ASSUME ReportsKept, NEW k \in calls, Refused(k)
  PROVE  ReportsKept'
<1>1. /\ calls' = calls \ {k} /\ refused' = refused \cup {<<k.event, k.msg>>}
      /\ UNCHANGED <<open, rowsOf, page, asked, seen, heard, mine, fired, lost>>
  BY DEF Refused, serverOfView, swrOfView
<1>2. IF k.event = "conversation:read"
      THEN cursorKey' = (IF cursorKey = k.msg THEN NoMessage ELSE cursorKey) /\ shownRead' = shownRead
      ELSE shownRead' = shownRead \ {k.msg} /\ cursorKey' = cursorKey
  BY DEF Refused, ForgetKey
<1>3. ASSUME NEW e, NEW m, Reports(e, m) PROVE Reports(e, m)'
  BY <1>1, <1>3 DEF Reports
<1>4. ASSUME NEW e, NEW m, Told(e, m), e # k.event \/ m # k.msg PROVE Told(e, m)'
  BY <1>1, <1>4 DEF Told
<1>5. RefsTold'
  <2>1. ASSUME NEW m \in shownRead' PROVE Told("message:read", m)'
    <3>1. Told("message:read", m) /\ ("message:read" # k.event \/ m # k.msg)
      BY <1>2, <2>1 DEF ReportsKept, RefsTold
    <3> QED
      BY <1>4, <3>1
  <2>2. ASSUME NEW x, x = cursorKey', x # NoMessage PROVE Told("conversation:read", x)'
    <3>1. x = cursorKey /\ Told("conversation:read", x) /\ ("conversation:read" # k.event \/ x # k.msg)
      BY <1>2, <2>2 DEF ReportsKept, RefsTold
    <3> QED
      BY <1>4, <3>1
  <2>3. mine' \subseteq seen'
    BY <1>1 DEF ReportsKept, RefsTold
  <2> QED
    BY <2>1, <2>2, <2>3 DEF RefsTold, Told
<1>6. FiredReported'
  BY <1>1, <1>3 DEF ReportsKept, FiredReported, Reports
<1>7. LastReported'
  <2> SUFFICES ASSUME open' # NoChat, LastOfPeer(Rows)' # NoMessage, ~messagesLoading',
                      NEW x, x = LastOfPeer(Rows)'
               PROVE  Reports("conversation:read", x)'
    BY DEF LastReported, Reports
  <2>1. x = LastOfPeer(Rows) /\ x # NoMessage /\ open # NoChat /\ ~messagesLoading
    BY <1>1, SameWhenStill DEF SameLast, LastOfPeer
  <2> QED
    BY <1>3, <2>1 DEF ReportsKept, LastReported
<1> QED
  BY <1>5, <1>6, <1>7 DEF ReportsKept

\* onPeerMessageVisible: what is not reported already is reported now.
LEMMA ReportsRowSeen ==
  ASSUME ReportsKept, NEW m \in Shown, RowSeen(m)
  PROVE  ReportsKept'
<1> DEFINE call == [event |-> "message:read", msg |-> m, opening |-> opens]
<1>1. /\ fired' = fired \cup {m} /\ shownRead' = shownRead \cup {m}
      /\ refused' = refused \ {<<"message:read", m>>}
      /\ calls' = IF m \in mine \cup shownRead THEN calls ELSE calls \cup {call}
      /\ UNCHANGED <<open, rowsOf, page, asked, seen, heard, mine, cursorKey, lost>>
  BY DEF RowSeen, serverOfView, swrOfView
<1>2. call.event = "message:read" /\ call.msg = m
  OBVIOUS
<1> HIDE DEF call
<1>3. Remembers /\ calls \subseteq calls'
  BY <1>1 DEF Remembers
<1>4. Told("message:read", m)'
  <2>1. CASE m \in mine
    BY <1>1, <2>1 DEF ReportsKept, RefsTold, Told
  <2>2. CASE m \in shownRead
    BY <1>3, <2>2, ToldStays DEF ReportsKept, RefsTold
  <2>3. CASE m \notin mine \cup shownRead
    BY <1>1, <1>2, <2>3 DEF Told
  <2> QED
    BY <2>1, <2>2, <2>3
<1>5. RefsTold'
  <2>1. ASSUME NEW n \in shownRead' PROVE Told("message:read", n)'
    <3>1. CASE n = m
      BY <1>4, <3>1
    <3>2. CASE n \in shownRead
      BY <1>3, <3>2, ToldStays DEF ReportsKept, RefsTold
    <3> QED
      BY <1>1, <2>1, <3>1, <3>2
  <2>2. ASSUME NEW x, x = cursorKey', x # NoMessage PROVE Told("conversation:read", x)'
    BY <1>1, <1>3, <2>2, ToldStays DEF ReportsKept, RefsTold
  <2>3. mine' \subseteq seen'
    BY <1>1 DEF ReportsKept, RefsTold
  <2> QED
    BY <2>1, <2>2, <2>3 DEF RefsTold, Told
<1>6. FiredReported'
  <2> SUFFICES ASSUME NEW n \in fired' PROVE Reports("message:read", n)'
    BY DEF FiredReported, Reports
  <2>1. CASE n = m
    BY <1>4, <2>1 DEF Told, Reports
  <2>2. CASE n # m
    <3>1. n \in fired /\ (<<"message:read", n>> \in refused => <<"message:read", n>> \in refused')
      BY <1>1, <2>2
    <3> QED
      BY <1>3, <3>1, ReportsStay DEF ReportsKept, FiredReported
  <2> QED
    BY <2>1, <2>2
<1>7. LastReported'
  <2> SUFFICES ASSUME open' # NoChat, LastOfPeer(Rows)' # NoMessage, ~messagesLoading',
                      NEW x, x = LastOfPeer(Rows)'
               PROVE  Reports("conversation:read", x)'
    BY DEF LastReported, Reports
  <2>1. x = LastOfPeer(Rows) /\ x # NoMessage /\ open # NoChat /\ ~messagesLoading
    BY <1>1, SameWhenStill DEF SameLast, LastOfPeer
  <2>2. <<"conversation:read", x>> \in refused => <<"conversation:read", x>> \in refused'
    BY <1>1
  <2> QED
    BY <1>3, <2>1, <2>2, ReportsStay DEF ReportsKept, LastReported
<1> QED
  BY <1>5, <1>6, <1>7 DEF ReportsKept

LEMMA ReportsMessageArrives ==
  ASSUME ReportsKept, NEW m \in Shown, MessageArrives(m)
  PROVE  ReportsKept'
<1>1. asked \subseteq asked' /\ UNCHANGED <<open, page, mine, seen, heard>>
  BY DEF MessageArrives
<1>2. mine' \subseteq seen' /\ mine \subseteq seen
  BY <1>1 DEF ReportsKept, RefsTold
<1>3. CASE m \in Known
  <2>1. UNCHANGED <<rowsOf, cursorKey, shownRead, fired, calls, refused, lost>>
    BY <1>3 DEF MessageArrives, reporting
  <2>2. SameLast
    BY <1>1, <2>1 DEF SameLast, messagesLoading, Rows
  <2> QED
    BY <1>1, <2>1, <2>2, StillReports
<1>4. CASE m \notin Known
  <2>1. Reported
    BY <1>4 DEF MessageArrives, Commit
  <2> QED
    BY <1>1, <1>2, <2>1, CommitReports
<1> QED
  BY <1>3, <1>4

LEMMA ReportsLoads ==
  ASSUME ThreadsKept, ReportsKept, NEW c \in Chats, Loads(c)
  PROVE  ReportsKept'
<1>1. /\ asked' = asked \ {c} /\ page' = [page EXCEPT ![c] = log[c]]
      /\ UNCHANGED <<open, rowsOf, mine, seen, heard>>
  BY DEF Loads, serverOfView
<1>2. mine' \subseteq seen'
  BY <1>1 DEF ReportsKept, RefsTold
<1>3. open \in Chats \cup {NoChat} /\ page \in [Chats -> Seq(Shown) \cup {NoData}]
  BY DEF ThreadsKept, ThreadShape
<1>4. CASE c = open /\ page[c] = NoData
  <2>1. Reported
    BY <1>4 DEF Loads, Commit
  <2> QED
    BY <1>1, <1>2, <2>1, CommitReports
<1>5. CASE c # open \/ page[c] # NoData
  <2>1. UNCHANGED reporting
    BY <1>5 DEF Loads, Uncovered
  <2>2. SameLast
    <3>1. CASE c # open /\ open # NoChat
      <4>1. open \in Chats /\ page'[open] = page[open] /\ (open \in asked' <=> open \in asked)
        BY <1>1, <1>3, <3>1
      <4> QED
        BY <1>1, <4>1 DEF SameLast, messagesLoading, Rows
    <3>2. CASE c = open
      BY <1>1, <1>5, <3>2 DEF SameLast, messagesLoading, Rows
    <3>3. CASE open = NoChat
      BY <1>1, <3>3 DEF SameLast
    <3> QED
      BY <3>1, <3>2, <3>3
  <2> QED
    BY <1>1, <2>1, <2>2, StillReports DEF reporting
<1> QED
  BY <1>4, <1>5

LEMMA ReportsLoadFails ==
  ASSUME ReportsKept, NEW c \in Chats, LoadFails(c)
  PROVE  ReportsKept'
<1>1. /\ asked' = asked \ {c} /\ UNCHANGED <<page, open, rowsOf, mine, seen, heard>>
  BY DEF LoadFails, serverOfView
<1>2. mine' \subseteq seen'
  BY <1>1 DEF ReportsKept, RefsTold
<1>3. CASE c = open /\ page[c] = NoData
  <2>1. Reported
    BY <1>3 DEF LoadFails
  <2> QED
    BY <1>1, <1>2, <2>1, CommitReports
<1>4. CASE c # open \/ page[c] # NoData
  <2>1. fired' \subseteq fired /\ UNCHANGED <<cursorKey, shownRead, calls, refused, lost>>
    BY <1>4 DEF LoadFails, reporting
  <2>2. SameLast
    BY <1>1, <1>4 DEF SameLast, messagesLoading, Rows
  <2> QED
    BY <1>1, <2>1, <2>2, StillReports
<1> QED
  BY <1>3, <1>4

LEMMA ReportsStep == ThreadsKept /\ ReportsKept /\ [ViewNext]_viewVars => ReportsKept'
<1> SUFFICES ASSUME ThreadsKept, ReportsKept, [ViewNext]_viewVars PROVE ReportsKept'
  OBVIOUS
<1>0. mine \subseteq seen
  BY DEF ReportsKept, RefsTold
<1>1. ASSUME NEW m \in Shown, PeerSends(m) PROVE ReportsKept'
  <2>1. UNCHANGED <<open, rowsOf, page, asked, mine, seen, heard, reporting>>
    BY <1>1 DEF PeerSends, swrOfView
  <2> QED
    BY <2>1, SameWhenStill, StillReports DEF reporting
<1>2. ASSUME NEW m \in Shown, MessageArrives(m) PROVE ReportsKept'
  BY <1>2, ReportsMessageArrives
<1>3. ASSUME NEW m \in Shown, SendsOwn(m) PROVE ReportsKept'
  <2>1. UNCHANGED <<mine, seen, heard>> /\ Reported
    BY <1>3 DEF SendsOwn, serverOfView, Commit
  <2> QED
    BY <1>0, <2>1, CommitReports
<1>4. ASSUME NEW m \in Shown, Acknowledged(m) PROVE ReportsKept'
  <2>1. UNCHANGED <<mine, seen, heard>> /\ Reported
    BY <1>4 DEF Acknowledged, Commit
  <2> QED
    BY <1>0, <2>1, CommitReports
<1>5. ASSUME NEW m \in Shown, RowSeen(m) PROVE ReportsKept'
  BY <1>5, ReportsRowSeen
<1>6. ASSUME NEW k \in calls, Handled(k) PROVE ReportsKept'
  BY <1>6, ReportsHandled
<1>7. ASSUME NEW k \in calls, Refused(k) PROVE ReportsKept'
  BY <1>7, ReportsRefused
<1>8. ASSUME Drops PROVE ReportsKept'
  BY <1>8, ReportsDrops
<1>9. ASSUME Returns PROVE ReportsKept'
  <2>1. UNCHANGED <<open, rowsOf, page, asked, mine, seen, heard, reporting>>
    BY <1>9 DEF Returns, swrOfView
  <2> QED
    BY <2>1, SameWhenStill, StillReports DEF reporting
<1>10. ASSUME NEW c \in Chats \cup {NoChat}, Opens(c) PROVE ReportsKept'
  <2>1. UNCHANGED <<mine, seen, heard>> /\ Reported
    BY <1>10 DEF Opens, serverOfView, Commit
  <2> QED
    BY <1>0, <2>1, CommitReports
<1>11. ASSUME NEW c \in Chats, Loads(c) PROVE ReportsKept'
  BY <1>11, ReportsLoads
<1>12. ASSUME NEW c \in Chats, LoadFails(c) PROVE ReportsKept'
  BY <1>12, ReportsLoadFails
<1>13. ASSUME NEW c \in Chats, Retries(c) PROVE ReportsKept'
  <2>1. asked \subseteq asked' /\ UNCHANGED <<open, rowsOf, page, mine, seen, heard, reporting>>
    BY <1>13 DEF Retries, serverOfView
  <2>2. SameLast
    BY <2>1 DEF SameLast, messagesLoading, Rows
  <2> QED
    BY <2>1, <2>2, StillReports DEF reporting
<1>14. ASSUME hydrateMessages PROVE ReportsKept'
  <2>1. mine' \subseteq mine /\ UNCHANGED <<seen, heard>> /\ Reported
    BY <1>14 DEF hydrateMessages, serverOfView, Commit
  <2> QED
    BY <1>0, <2>1, CommitReports
<1>15. ASSUME ReceiptsMerged PROVE ReportsKept'
  <2>1. heard' = heard /\ Reported /\ \E more : seen' = seen \cup more /\ mine' = mine \cup more
    BY <1>15 DEF ReceiptsMerged, Commit
  <2> QED
    BY <1>0, <2>1, CommitReports
<1>16. ASSUME TargetRetried PROVE ReportsKept'
  <2>1. UNCHANGED <<open, rowsOf, page, asked, mine, seen, heard, reporting>>
    BY <1>16 DEF TargetRetried, serverOfView, swrOfView
  <2> QED
    BY <2>1, SameWhenStill, StillReports DEF reporting
<1>17. ASSUME NEW b \in 1 .. Cardinality(Shown), ScrollsTo(b) PROVE ReportsKept'
  <2>1. UNCHANGED <<open, rowsOf, page, asked, mine, seen, heard, reporting>>
    BY <1>17 DEF ScrollsTo, serverOfView, swrOfView
  <2> QED
    BY <2>1, SameWhenStill, StillReports DEF reporting
<1>18. CASE UNCHANGED viewVars
  <2>1. UNCHANGED <<open, rowsOf, page, asked, mine, seen, heard, reporting>>
    BY <1>18 DEF viewVars, serverOfView, swrOfView
  <2> QED
    BY <2>1, SameWhenStill, StillReports DEF reporting
<1> QED
  BY <1>1, <1>2, <1>3, <1>4, <1>5, <1>6, <1>7, <1>8, <1>9, <1>10, <1>11, <1>12, <1>13, <1>14, <1>15, <1>16,
     <1>17, <1>18 DEF ViewNext

\* conversation:read and message:read: what the viewer has before him is seen by the
\* server's account, or its report was made and neither forgotten nor left out
\* by the refs that keep it from being made twice.
THEOREM ReadsAreReported == ViewSpec => []ReadIsReported
<1>1. ReportsKept => ReadIsReported
  <2> SUFFICES ASSUME ReportsKept, open # NoChat PROVE ReadIsReported
    BY DEF ReadIsReported
  <2> QED
    BY DEF ReadIsReported, ReportsKept, LastReported, FiredReported
<1> QED
  BY <1>1, ThreadsInit, ThreadsStep, ReportsInit, ReportsStep, PTL DEF ViewSpec

-----------------------------------------------------------------------------
(* The tail of the log is followed.                                        *)

ScrollShape ==
  /\ bottom \in Nat /\ tail \in Nat \X (Entries \cup {NoMessage})
  /\ pinned \in BOOLEAN /\ follows \in BOOLEAN /\ blank \in BOOLEAN

\* The rows of a thread at rest hold all that SWR has for it.
Held ==
  ~hydrating /\ open # NoChat /\ page[open] # NoData =>
    Range(page[open]) \subseteq Range(Rows) /\ Len(page[open]) <= Len(Rows)

\* The tail that the log remembers is, or was, the last row of a thread.
TailKnown ==
  \/ tail = <<0, NoMessage>>
  \/ tail[2] \in Shown /\ tail[2] \in Range(log[ChatOf[tail[2]]])
  \/ \E o \in OfViewer : tail[2] = Pending(o) /\ Within(o)

\* A log that is away has lost its place.
Away == open # NoChat /\ ~Logged => blank

\* The tail may be that of another thread, or of rows that a load has replaced while the
\* log was away; but no row that is appended makes it the tail again.
Passed ==
  \/ tail[1] <= Len(Rows)
  \/ tail[2] \in Shown /\ ChatOf[tail[2]] # open
  \/ \E o \in OfViewer : tail[2] = Pending(o)
  \/ tail[2] \in Range(Rows) /\ \E i \in DOMAIN log[open] : log[open][i] = tail[2] /\ i < tail[1]
TailPassed == Logged /\ (~hydrating \/ ~blank) => Passed

PinnedToTail == follows /\ ~blank => pinned

TailKept == ScrollShape /\ TailKnown /\ Away /\ TailPassed /\ PinnedToTail /\ TailFollowed

LEMMA MinOfTwo == ASSUME NEW a \in Nat, NEW b \in Nat PROVE Min({a, b}) = IF a <= b THEN a ELSE b
<1> DEFINE m == IF a <= b THEN a ELSE b
<1>1. m \in {a, b} /\ \A y \in {a, b} : m <= y
  OBVIOUS
<1>2. \A x \in {a, b} : (\A y \in {a, b} : x <= y) => x = m
  OBVIOUS
<1> HIDE DEF m
<1>3. Min({a, b}) = m
  BY <1>1, <1>2 DEF Min
<1> QED
  BY <1>3 DEF m

LEMMA MaxOfTwo == ASSUME NEW a \in Nat, NEW b \in Nat PROVE Max({a, b}) = IF a <= b THEN b ELSE a
<1> DEFINE m == IF a <= b THEN b ELSE a
<1>1. m \in {a, b} /\ \A y \in {a, b} : m >= y
  OBVIOUS
<1>2. \A x \in {a, b} : (\A y \in {a, b} : x >= y) => x = m
  OBVIOUS
<1> HIDE DEF m
<1>3. Max({a, b}) = m
  BY <1>1, <1>2 DEF Max
<1> QED
  BY <1>3 DEF m

LEMMA NearestIsRow == ASSUME NEW b \in Nat, NEW i \in Nat PROVE Nearest(b, i) \in Nat
<1>1. i + Height - 1 \in Nat
  BY ViewAssumption
<1>2. Min({b, i + Height - 1}) \in Nat
  BY <1>1, MinOfTwo
<1> QED
  BY <1>2, MaxOfTwo DEF Nearest

LEMMA IndexFacts == ASSUME NEW S, NEW s \in Seq(S), NEW x \in Range(s) PROVE Index(s, x) \in Nat
BY DEF Index, Range

\* Rows of a thread that is open.
LEMMA RowsFacts ==
  ASSUME ThreadShape, Logged
  PROVE  /\ open \in Chats /\ Rows \in Seq(Entries) /\ Len(Rows) \in Nat \ {0}
         /\ Rows[Len(Rows)] \in Range(Rows) /\ Rows[Len(Rows)] \in Entries
<1>1. open \in Chats /\ Rows \in Seq(Entries) /\ Rows # <<>>
  BY DEF ThreadShape, Logged, Rows
<1>2. Len(Rows) \in Nat \ {0} /\ Len(Rows) \in DOMAIN Rows
  BY <1>1
<1> QED
  BY <1>1, <1>2 DEF Range

\* A commit that makes the remembered tail the last row of a log that grew.
Recurs ==
  /\ open' = open /\ Logged /\ ~blank /\ Logged'
  /\ tail = <<Len(Rows'), Rows'[Len(Rows')]>> /\ Len(Rows') > Len(Rows)

\* The layout effects of a log that is shown.
LEMMA ScrolledInLog ==
  ASSUME ThreadsKept, ThreadShape', TailKept, NEW want, Scrolled(want), Logged', ~Recurs
  PROVE  /\ ScrollShape' /\ PinnedToTail' /\ TailFollowed'
         /\ tail' = <<Len(Rows'), Rows'[Len(Rows')]>>
<1> DEFINE opened == open' # open
           rows == Rows'
           len == Len(rows)
           last == rows[len]
           was == IF Logged THEN Min({Max({bottom, Height}), len}) ELSE Min({Height, len})
           own == TargetChat(want) = open' /\ want = last
           jumps == (opened \/ (pinned /\ tail # <<len, last>>)) /\ ~own
           there == IF jumps THEN len ELSE was
           ready == TargetChat(want) = open' /\ want \in Range(rows)
<1>1. /\ open' # NoChat /\ tail' = <<len, last>>
      /\ bottom' = (IF ready THEN Nearest(there, Index(rows, want)) ELSE there)
      /\ pinned' = (IF ready THEN bottom' = len ELSE opened \/ pinned)
      /\ follows' = (IF ready THEN pinned' ELSE opened \/ follows)
      /\ blank' = (blank /\ ~opened /\ ~jumps /\ ~ready)
  BY DEF Scrolled, reduxScrollOwnsTail, Logged
<1>2. /\ rows \in Seq(Entries) /\ len \in Nat \ {0} /\ last \in Range(rows) /\ last \in Entries
  <2>1. open' \in Chats /\ rows \in Seq(Entries) /\ rows # <<>>
    BY <1>1 DEF ThreadShape, Logged, Rows
  <2>2. len \in Nat \ {0} /\ len \in DOMAIN rows
    BY <2>1
  <2> QED
    BY <2>1, <2>2 DEF Range
<1>3. ScrollShape /\ PinnedToTail /\ TailFollowed /\ Away /\ TailPassed /\ Height \in Nat \ {0}
  BY ViewAssumption DEF TailKept
<1>4. own => ready
  BY <1>2
<1>5. was \in Nat
  <2>1. Max({bottom, Height}) \in Nat
    BY <1>3, MaxOfTwo DEF ScrollShape
  <2> QED
    BY <1>2, <1>3, <2>1, MinOfTwo
<1>6. Logged /\ bottom = Len(Rows) /\ len <= Len(Rows) => was = len
  <2> SUFFICES ASSUME Logged, bottom = Len(Rows), len <= Len(Rows) PROVE was = len
    OBVIOUS
  <2> DEFINE low == Max({bottom, Height})
  <2>1. bottom \in Nat /\ low = IF bottom <= Height THEN Height ELSE bottom
    BY <1>3, MaxOfTwo DEF ScrollShape
  <2>2. low \in Nat /\ len <= low
    BY <1>2, <1>3, <2>1
  <2>3. was = Min({low, len})
    OBVIOUS
  <2> HIDE DEF low, was
  <2>4. Min({low, len}) = len
    BY <1>2, <2>2, MinOfTwo
  <2> QED
    BY <2>3, <2>4
<1> HIDE DEF was, own
<1>7. there \in Nat
  BY <1>2, <1>5
<1>8. bottom' \in Nat
  <2>1. CASE ready
    <3>1. Index(rows, want) \in Nat
      BY <1>2, <2>1, IndexFacts
    <3> QED
      BY <1>1, <1>7, <2>1, <3>1, NearestIsRow
  <2>2. CASE ~ready
    BY <1>1, <1>7, <2>2
  <2> QED
    BY <2>1, <2>2
<1>9. pinned' \in BOOLEAN /\ follows' \in BOOLEAN /\ blank' \in BOOLEAN
  BY <1>1, <1>3 DEF ScrollShape
<1>10. ScrollShape'
  <2>1. Entries' = Entries
    BY DEF Entries
  <2>2. tail' \in Nat \X (Entries \cup {NoMessage})
    BY <1>1, <1>2
  <2> QED
    BY <1>8, <1>9, <2>1, <2>2 DEF ScrollShape
<1>11. ready => (follows' <=> bottom' = len)
  BY <1>1
<1>12. ~ready => (pinned' <=> opened \/ pinned) /\ (follows' <=> opened \/ follows) /\ bottom' = there
  BY <1>1, <1>3 DEF ScrollShape
<1>13. blank' <=> (blank /\ ~opened /\ ~jumps /\ ~ready)
  BY <1>1, <1>3 DEF ScrollShape
<1>14. ready => (follows' <=> pinned')
  BY <1>1, <1>9
<1>15. PinnedToTail'
  <2> SUFFICES ASSUME follows', ~blank', ~ready PROVE pinned'
    BY <1>14 DEF PinnedToTail
  <2>1. CASE opened
    BY <1>12, <2>1
  <2>2. CASE ~opened
    BY <1>3, <1>12, <1>13, <2>2 DEF PinnedToTail
  <2> QED
    BY <2>1, <2>2
<1>16. follows' /\ ~blank' => bottom' = len
  <2> SUFFICES ASSUME follows', ~blank', ~ready, ~jumps PROVE bottom' = len
    BY <1>1, <1>11
  <2>1. ~own /\ ~opened /\ ~blank /\ follows
    BY <1>4, <1>12, <1>13
  <2>2. pinned /\ tail = <<len, last>>
    BY <1>3, <2>1 DEF PinnedToTail
  <2>3. Logged /\ open' = open
    BY <1>1, <1>3, <2>1 DEF Away
  <2>4. bottom = Len(Rows)
    BY <1>3, <2>1, <2>3 DEF TailFollowed, AtTail
  <2>5. len <= Len(Rows)
    <3>1. ~(len > Len(Rows))
      BY <2>1, <2>2, <2>3 DEF Recurs
    <3>2. Len(Rows) \in Nat
      BY <2>3, RowsFacts DEF ThreadsKept
    <3> QED
      BY <1>2, <3>1, <3>2
  <2> QED
    BY <1>6, <1>12, <2>3, <2>4, <2>5
<1>17. TailFollowed'
  BY <1>16 DEF TailFollowed, AtTail
<1> QED
  BY <1>1, <1>10, <1>15, <1>17

LEMMA TailStaysKnown ==
  ASSUME ThreadShape, Advances, TailKnown, tail' = tail
  PROVE  TailKnown'
<1>1. CASE tail[2] \in Shown /\ tail[2] \in Range(log[ChatOf[tail[2]]])
  <2>1. ChatOf[tail[2]] \in Chats
    BY <1>1, ThreadsAssumption
  <2>2. Range(log[ChatOf[tail[2]]]) \subseteq Range(log'[ChatOf[tail[2]]])
    BY <2>1, RangeExtends DEF Advances
  <2> QED
    BY <1>1, <2>2 DEF TailKnown
<1>2. CASE \E o \in OfViewer : tail[2] = Pending(o) /\ Within(o)
  <2>1. PICK o \in OfViewer : tail[2] = Pending(o) /\ Within(o)
    BY <1>2
  <2>2. Within(o)'
    BY <2>1, WithinStays
  <2> QED
    BY <2>1, <2>2 DEF TailKnown
<1> QED
  BY <1>1, <1>2 DEF TailKnown

\* The last row of the open thread is a message that the log or the viewer has.
TailIsLast == tail = <<Len(Rows), Rows[Len(Rows)]>>
LEMMA LastRowKnown == ThreadsKept /\ Logged /\ TailIsLast => TailKnown /\ Passed
<1> SUFFICES ASSUME ThreadsKept, Logged, TailIsLast PROVE TailKnown /\ Passed
  OBVIOUS
<1> DEFINE x == Rows[Len(Rows)]
<1>1. open \in Chats /\ x \in Range(rowsOf[open]) /\ Len(Rows) \in Nat /\ tail[1] = Len(Rows) /\ tail[2] = x
  BY RowsFacts DEF ThreadsKept, Rows, TailIsLast
<1> HIDE DEF x
<1>2. RowOf(x, open)
  BY <1>1 DEF ThreadsKept, RowsSound
<1>3. CASE x \in Range(log[open])
  <2>1. PICK i \in DOMAIN log[open] : log[open][i] = x
    BY <1>3 DEF Range
  <2>2. x \in Shown /\ ChatOf[x] = open
    BY <1>1, <2>1 DEF ThreadsKept, LogSound, Of
  <2> QED
    BY <1>1, <1>3, <2>2 DEF TailKnown, Passed
<1>4. CASE \E o \in OfViewer : x = Pending(o) /\ ChatOf[o] = open /\ Within(o)
  BY <1>1, <1>4 DEF TailKnown, Passed
<1> QED
  BY <1>2, <1>3, <1>4 DEF RowOf

\* Every commit keeps the tail followed, unless the tail it remembers comes back.
LEMMA CommitTail ==
  ASSUME ThreadsKept, ThreadsKept', Advances, TailKept, NEW want, Scrolled(want), ~Recurs
  PROVE  TailKept'
<1>1. ThreadShape /\ ThreadShape' /\ ScrollShape /\ TailKnown
  BY DEF ThreadsKept, TailKept
<1>2. CASE open' = NoChat
  <2>1. bottom' = 0 /\ pinned' = TRUE /\ tail' = <<0, NoMessage>> /\ follows' = TRUE /\ blank' = FALSE
    BY <1>2 DEF Scrolled
  <2>2. ScrollShape' /\ TailKnown'
    BY <2>1 DEF ScrollShape, TailKnown
  <2>3. ~Logged'
    BY <1>2 DEF Logged
  <2> QED
    BY <1>2, <2>1, <2>2, <2>3 DEF TailKept, Away, TailPassed, PinnedToTail, TailFollowed, AtTail
<1>3. CASE open' # NoChat /\ ~Logged'
  <2>1. bottom' = 0 /\ blank' = TRUE /\ pinned' = pinned /\ tail' = tail
        /\ follows' = (open' # open \/ follows)
    BY <1>3 DEF Scrolled
  <2>2. ScrollShape' /\ TailKnown'
    <3>1. TailKnown'
      BY <1>1, <2>1, TailStaysKnown
    <3>2. follows' \in BOOLEAN /\ Entries' = Entries
      BY <2>1 DEF Entries
    <3> QED
      BY <1>1, <2>1, <3>1, <3>2 DEF ScrollShape
  <2> QED
    BY <1>3, <2>1, <2>2 DEF TailKept, Away, TailPassed, PinnedToTail, TailFollowed
<1>4. CASE Logged'
  <2>1. ScrollShape' /\ PinnedToTail' /\ TailFollowed' /\ tail' = <<Len(Rows'), Rows'[Len(Rows')]>>
    BY <1>1, <1>4, ScrolledInLog
  <2>2. (ThreadsKept /\ Logged /\ TailIsLast)' => (TailKnown /\ Passed)'
    BY LastRowKnown, PTL
  <2>3. TailIsLast'
    BY <2>1 DEF TailIsLast
  <2> QED
    BY <1>4, <2>1, <2>2, <2>3 DEF TailKept, Away, TailPassed
<1> QED
  BY <1>2, <1>3, <1>4

\* What a remembered tail would have to be to come back.
LEMMA RecurringTail ==
  ASSUME ThreadsKept, ThreadShape', TailKept, Recurs, NEW x, x = Rows'[Len(Rows')]
  PROVE  /\ open \in Chats /\ Len(Rows') \in Nat /\ Len(Rows') > Len(Rows)
         /\ \/ x \in Shown /\ ChatOf[x] # open
            \/ \E o \in OfViewer : x = Pending(o) /\ Within(o)
            \/ x \in Range(Rows) /\ \E i \in DOMAIN log[open] : log[open][i] = x /\ i < Len(Rows')
<1>1. open \in Chats /\ Len(Rows) \in Nat
  BY RowsFacts DEF ThreadsKept, Recurs
<1>2. rowsOf'[open] \in Seq(Entries)
  BY <1>1 DEF ThreadShape
<1>3. Rows' = rowsOf'[open] /\ Len(Rows') \in Nat /\ Len(Rows') > Len(Rows)
  BY <1>2 DEF Rows, Recurs
<1>4. tail[1] = Len(Rows') /\ tail[2] = x
  BY DEF Recurs
<1>5. Passed /\ TailKnown
  BY DEF TailKept, TailPassed, Recurs
<1>6. ASSUME NEW o \in OfViewer, x = Pending(o) PROVE Within(o)
  <2>1. x # NoMessage /\ x \notin Shown
    BY <1>6, ThreadsAssumption
  <2>2. PICK p \in OfViewer : x = Pending(p) /\ Within(p)
    BY <1>4, <1>5, <2>1 DEF TailKnown
  <2>3. p = o
    BY <1>6, <2>2 DEF Pending
  <2> QED
    BY <2>2, <2>3
<1>7. ~ (tail[1] <= Len(Rows))
  BY <1>1, <1>3, <1>4
<1> QED
  BY <1>1, <1>3, <1>4, <1>5, <1>6, <1>7 DEF Passed

\* Rows that did not change have not grown.
LEMMA SameRowsStay ==
  ASSUME ThreadsKept, rowsOf'[open] = rowsOf[open]
  PROVE  ~Recurs
<1> SUFFICES ASSUME Recurs PROVE FALSE
  OBVIOUS
<1>1. Rows' = Rows /\ Len(Rows) \in Nat /\ Len(Rows') > Len(Rows)
  BY RowsFacts DEF ThreadsKept, Recurs, Rows
<1> QED
  BY <1>1

\* ... nor does a message that was not in the store come back.
LEMMA NewRowIsNew ==
  ASSUME ThreadsKept, ThreadShape', TailKept, NEW m \in Shown, m \notin Known,
         rowsOf' = [rowsOf EXCEPT ![ChatOf[m]] = Append(rowsOf[ChatOf[m]], m)]
  PROVE  ~Recurs
<1> SUFFICES ASSUME Recurs PROVE FALSE
  OBVIOUS
<1>1. open \in Chats /\ open' = open /\ ChatOf[m] \in Chats /\ rowsOf \in [Chats -> Seq(Entries)]
  BY RecurringTail, ThreadsAssumption DEF Recurs, ThreadsKept, ThreadShape
<1>2. CASE ChatOf[m] # open
  <2>1. rowsOf'[open] = rowsOf[open]
    BY <1>1, <1>2
  <2> QED
    BY <2>1, SameRowsStay
<1>3. CASE ChatOf[m] = open
  <2>1. Rows' = Append(Rows, m) /\ Rows \in Seq(Entries)
    BY <1>1, <1>3 DEF Rows
  <2>2. Rows'[Len(Rows')] = m
    BY <2>1
  <2>3. m \notin Range(Rows)
    BY <1>1 DEF Known, Rows
  <2>4. \A o \in OfViewer : m # Pending(o)
    BY ThreadsAssumption
  <2> QED
    BY <1>3, <2>2, <2>3, <2>4, RecurringTail
<1> QED
  BY <1>2, <1>3

LEMMA OwnRowIsNew ==
  ASSUME ThreadsKept, ThreadShape', TailKept, NEW o \in Shown, SendsOwn(o)
  PROVE  ~Recurs
<1> SUFFICES ASSUME Recurs PROVE FALSE
  OBVIOUS
<1>1. open \in Chats /\ open' = open /\ rowsOf \in [Chats -> Seq(Entries)] /\ LogSound
  BY RecurringTail DEF Recurs, ThreadsKept, ThreadShape
<1>2. /\ o \in OfViewer /\ open = ChatOf[o] /\ o \notin Range(log[open]) /\ sending = {}
      /\ rowsOf' = [rowsOf EXCEPT ![open] = Append(rowsOf[open], Pending(o))]
  BY DEF SendsOwn
<1>3. Rows' = Append(Rows, Pending(o)) /\ Rows \in Seq(Entries)
  BY <1>1, <1>2 DEF Rows
<1>4. Rows'[Len(Rows')] = Pending(o)
  BY <1>3
<1>5. Pending(o) \notin Shown
  BY <1>2, ThreadsAssumption
<1>6. \A p \in OfViewer : Pending(o) = Pending(p) => p = o
  BY DEF Pending
<1>7. ~Within(o)
  BY <1>2 DEF Within
<1>8. \A i \in DOMAIN log[open] : log[open][i] # Pending(o)
  BY <1>1, <1>5 DEF LogSound, Of
<1> QED
  BY <1>2, <1>4, <1>5, <1>6, <1>7, <1>8, RecurringTail

LEMMA StoredRowIsNew ==
  ASSUME ThreadsKept, ThreadShape', TailKept, NEW o \in Shown, Acknowledged(o)
  PROVE  ~Recurs
<1> SUFFICES ASSUME Recurs PROVE FALSE
  OBVIOUS
<1> DEFINE h == ChatOf[o]
           s == IF Pending(o) \in Range(rowsOf[h]) THEN ReplaceAll(rowsOf[h], Pending(o), o) ELSE Append(rowsOf[h], o)
<1>1. open \in Chats /\ open' = open /\ h \in Chats /\ rowsOf \in [Chats -> Seq(Entries)]
  BY RecurringTail, ThreadsAssumption DEF Recurs, ThreadsKept, ThreadShape
<1>2. rowsOf' = [rowsOf EXCEPT ![h] = s] /\ o \in sending /\ o \notin Range(log[h])
  BY DEF Acknowledged, ThreadsKept, Underway
<1> HIDE DEF s
<1>3. CASE h # open
  <2>1. rowsOf'[open] = rowsOf[open]
    BY <1>1, <1>2, <1>3
  <2> QED
    BY <2>1, SameRowsStay
<1>4. CASE h = open
  <2>1. Rows' = s /\ Rows = rowsOf[h] /\ Rows \in Seq(Entries) /\ o \in Entries
    BY <1>1, <1>2, <1>4 DEF Rows, Entries
  <2>2. CASE Pending(o) \in Range(rowsOf[h])
    <3>1. Len(Rows') = Len(Rows) /\ Len(Rows) \in Nat
      BY <2>1, <2>2, ReplaceAllFacts DEF s
    <3> QED
      BY <3>1, RecurringTail
  <2>3. CASE Pending(o) \notin Range(rowsOf[h])
    <3>1. Rows' = Append(Rows, o)
      BY <2>1, <2>3 DEF s
    <3>2. Rows'[Len(Rows')] = o
      BY <2>1, <3>1
    <3>3. \A p \in OfViewer : o # Pending(p)
      BY ThreadsAssumption
    <3>4. \A i \in DOMAIN log[open] : log[open][i] # o
      BY <1>2, <1>4 DEF Range
    <3> QED
      BY <1>4, <3>2, <3>3, <3>4, RecurringTail
  <2> QED
    BY <2>2, <2>3
<1> QED
  BY <1>3, <1>4

\* A load shows a message at its place in the thread.
LEMMA LoadedRowIsPlaced ==
  ASSUME ThreadsKept, ThreadShape', TailKept, hydrateMessages
  PROVE  ~Recurs
<1> SUFFICES ASSUME Recurs PROVE FALSE
  OBVIOUS
<1> DEFINE n == Len(page[open])
           x == page[open][n]
<1>1. /\ open \in Chats /\ open' = open /\ rowsOf \in [Chats -> Seq(Entries)] /\ LogSound /\ PageSound
      /\ page[open] # NoData /\ page[open] \in Seq(Shown)
  BY RecurringTail DEF Recurs, ThreadsKept, ThreadShape, hydrateMessages, Underway
<1>2. Rows' = page[open]
  BY <1>1 DEF Rows, hydrateMessages
<1>3. n \in DOMAIN page[open]
  <2>1. Len(Rows) \in Nat /\ n > Len(Rows)
    BY <1>2, RowsFacts DEF ThreadsKept, Recurs
  <2> QED
    BY <1>1, <2>1
<1>4. n \in DOMAIN log[open] /\ log[open][n] = x
  BY <1>1, <1>3 DEF PageSound
<1>5. x \in Shown /\ ChatOf[x] = open /\ \A i \in DOMAIN log[open] : log[open][i] = x => i = n
  BY <1>1, <1>4 DEF LogSound, Of
<1>6. \A o \in OfViewer : x # Pending(o)
  BY <1>5, ThreadsAssumption
<1>7. Rows'[Len(Rows')] = x /\ Len(Rows') = n
  BY <1>2
<1>8. n \in Nat
  BY <1>1
<1> HIDE DEF n, x
<1>9. \A i \in DOMAIN log[open] : log[open][i] = x => ~(i < n)
  BY <1>5, <1>8
<1> QED
  BY <1>5, <1>6, <1>7, <1>9, RecurringTail

-----------------------------------------------------------------------------
(* What SWR has for the open thread is among its rows.                     *)

LEMMA HeldInit == ViewInit => Held
BY DEF ViewInit, Held

LEMMA HeldSame ==
  ASSUME Held, UNCHANGED <<open, page, rowsOf, hydrating>>
  PROVE  Held'
BY DEF Held, Rows

\* Rows that are added or replaced by what they stood for.
LEMMA HeldGrows ==
  ASSUME ThreadsKept, Held, UNCHANGED <<open, page, hydrating>>,
         open # NoChat /\ page[open] # NoData =>
           /\ \A x \in Range(rowsOf[open]) \cap Shown : x \in Range(rowsOf'[open])
           /\ Len(rowsOf[open]) <= Len(rowsOf'[open]) /\ Len(rowsOf'[open]) \in Nat
  PROVE  Held'
<1> SUFFICES ASSUME ~hydrating, open # NoChat, page[open] # NoData
             PROVE  /\ Range(page[open]) \subseteq Range(rowsOf'[open])
                    /\ Len(page[open]) <= Len(rowsOf'[open])
  BY DEF Held, Rows
<1>1. Range(page[open]) \subseteq Range(rowsOf[open]) /\ Len(page[open]) <= Len(rowsOf[open])
  BY DEF Held, Rows
<1>2. page[open] \in Seq(Shown) /\ rowsOf[open] \in Seq(Entries)
  BY DEF ThreadsKept, ThreadShape
<1>3. Range(page[open]) \subseteq Shown
  BY <1>2, RangeOfTyped
<1> QED
  BY <1>1, <1>2, <1>3

LEMMA HeldAppends ==
  ASSUME ThreadsKept, Held, UNCHANGED <<open, page, hydrating>>, NEW c \in Chats, NEW x \in Entries,
         rowsOf' = [rowsOf EXCEPT ![c] = Append(rowsOf[c], x)]
  PROVE  Held'
<1>1. rowsOf \in [Chats -> Seq(Entries)] /\ open \in Chats \cup {NoChat}
  BY DEF ThreadsKept, ThreadShape
<1>2. ASSUME open # NoChat
      PROVE  /\ Range(rowsOf[open]) \subseteq Range(rowsOf'[open])
             /\ Len(rowsOf[open]) <= Len(rowsOf'[open]) /\ Len(rowsOf'[open]) \in Nat
  <2>1. open \in Chats /\ rowsOf[open] \in Seq(Entries)
    BY <1>1, <1>2
  <2>2. CASE c # open
    <3>1. rowsOf'[open] = rowsOf[open]
      BY <1>1, <2>1, <2>2
    <3> QED
      BY <2>1, <3>1
  <2>3. CASE c = open
    <3>1. rowsOf'[open] = Append(rowsOf[open], x)
      BY <1>1, <2>1, <2>3
    <3> QED
      BY <2>1, <3>1, RangeAppend
  <2> QED
    BY <2>2, <2>3
<1> QED
  BY <1>2, HeldGrows

LEMMA HeldAcknowledged ==
  ASSUME ThreadsKept, Held, NEW o \in Shown, Acknowledged(o)
  PROVE  Held'
<1> DEFINE h == ChatOf[o]
<1>1. /\ rowsOf \in [Chats -> Seq(Entries)] /\ open \in Chats \cup {NoChat} /\ h \in Chats
      /\ o \in OfViewer /\ o \in Entries
  BY ThreadsAssumption DEF ThreadsKept, ThreadShape, Acknowledged, Entries
<1>2. UNCHANGED <<open, page, hydrating>>
  BY DEF Acknowledged
<1>3. CASE Pending(o) \notin Range(rowsOf[h])
  <2>1. rowsOf' = [rowsOf EXCEPT ![h] = Append(rowsOf[h], o)]
    BY <1>3 DEF Acknowledged
  <2> QED
    BY <1>1, <1>2, <2>1, HeldAppends
<1>4. CASE Pending(o) \in Range(rowsOf[h])
  <2>1. rowsOf' = [rowsOf EXCEPT ![h] = ReplaceAll(rowsOf[h], Pending(o), o)]
    BY <1>4 DEF Acknowledged
  <2>2. Pending(o) \notin Shown
    BY <1>1, ThreadsAssumption
  <2>3. ASSUME open # NoChat
        PROVE  /\ \A x \in Range(rowsOf[open]) \cap Shown : x \in Range(rowsOf'[open])
               /\ Len(rowsOf[open]) <= Len(rowsOf'[open]) /\ Len(rowsOf'[open]) \in Nat
    <3>1. open \in Chats /\ rowsOf[open] \in Seq(Entries)
      BY <1>1, <2>3
    <3>2. CASE h # open
      <4>1. rowsOf'[open] = rowsOf[open]
        BY <1>1, <2>1, <3>1, <3>2
      <4> QED
        BY <3>1, <4>1
    <3>3. CASE h = open
      <4>1. rowsOf'[open] = ReplaceAll(rowsOf[open], Pending(o), o)
        BY <1>1, <2>1, <3>1, <3>3
      <4> QED
        BY <1>1, <2>2, <3>1, <4>1, ReplaceAllFacts
    <3> QED
      BY <3>2, <3>3
  <2> QED
    BY <1>2, <2>3, HeldGrows
<1> QED
  BY <1>3, <1>4

LEMMA HeldLoads ==
  ASSUME ThreadsKept, Held, NEW c \in Chats, Loads(c)
  PROVE  Held'
<1>1. /\ ~hydrating /\ page' = [page EXCEPT ![c] = log[c]] /\ hydrating' = (c = open /\ page' # page)
      /\ UNCHANGED <<open, rowsOf>>
  BY DEF Loads, Stable
<1>2. page \in [Chats -> Seq(Shown) \cup {NoData}] /\ open \in Chats \cup {NoChat}
  BY DEF ThreadsKept, ThreadShape
<1> SUFFICES ASSUME ~hydrating', open # NoChat, page'[open] # NoData
             PROVE  Range(page'[open]) \subseteq Range(Rows) /\ Len(page'[open]) <= Len(Rows)
  BY <1>1 DEF Held, Rows
<1>3. page'[open] = page[open]
  BY <1>1, <1>2
<1> QED
  BY <1>1, <1>3 DEF Held

LEMMA HeldStep == ThreadsKept /\ Held /\ [ViewNext]_viewVars => Held'
<1> SUFFICES ASSUME ThreadsKept, Held, [ViewNext]_viewVars PROVE Held'
  OBVIOUS
<1>1. ASSUME NEW m \in Shown, PeerSends(m) \/ RowSeen(m) PROVE Held'
  BY <1>1, HeldSame DEF PeerSends, RowSeen, serverOfView, swrOfView
<1>2. ASSUME NEW m \in Shown, MessageArrives(m) PROVE Held'
  <2>1. UNCHANGED <<open, page, hydrating>> /\ ChatOf[m] \in Chats /\ m \in Entries
    BY <1>2, ThreadsAssumption DEF MessageArrives, Entries
  <2>2. rowsOf' = rowsOf \/ rowsOf' = [rowsOf EXCEPT ![ChatOf[m]] = Append(rowsOf[ChatOf[m]], m)]
    BY <1>2 DEF MessageArrives
  <2> QED
    BY <2>1, <2>2, HeldSame, HeldAppends
<1>3. ASSUME NEW m \in Shown, SendsOwn(m) PROVE Held'
  <2>1. UNCHANGED <<open, page, hydrating>> /\ open \in Chats /\ Pending(m) \in Entries
    BY <1>3, ThreadsAssumption DEF SendsOwn, swrOfView, Entries
  <2>2. rowsOf' = [rowsOf EXCEPT ![open] = Append(rowsOf[open], Pending(m))]
    BY <1>3 DEF SendsOwn
  <2> QED
    BY <2>1, <2>2, HeldAppends
<1>4. ASSUME NEW m \in Shown, Acknowledged(m) PROVE Held'
  BY <1>4, HeldAcknowledged
<1>5. ASSUME NEW k \in calls, Handled(k) \/ Refused(k) PROVE Held'
  BY <1>5, HeldSame DEF Handled, Refused, serverOfView, swrOfView
<1>6. ASSUME Drops \/ Returns PROVE Held'
  BY <1>6, HeldSame DEF Drops, Returns, swrOfView
<1>7. ASSUME NEW c \in Chats \cup {NoChat}, Opens(c) PROVE Held'
  BY <1>7 DEF Opens, Held, swrOfView
<1>8. ASSUME NEW c \in Chats, Loads(c) PROVE Held'
  BY <1>8, HeldLoads
<1>9. ASSUME NEW c \in Chats, LoadFails(c) \/ Retries(c) PROVE Held'
  BY <1>9, HeldSame DEF LoadFails, Retries, serverOfView
<1>10. ASSUME hydrateMessages PROVE Held'
  <2>1. /\ open \in Chats /\ open' = open /\ page' = page /\ rowsOf \in [Chats -> Seq(Entries)]
        /\ page[open] \in Seq(Shown) /\ rowsOf' = [rowsOf EXCEPT ![open] = page[open]]
    BY <1>10 DEF hydrateMessages, ThreadsKept, ThreadShape, Underway, swrOfView
  <2>2. rowsOf'[open] = page[open] /\ Len(page[open]) \in Nat
    BY <2>1
  <2> QED
    BY <2>1, <2>2 DEF Held, Rows
<1>11. ASSUME ReceiptsMerged \/ TargetRetried PROVE Held'
  BY <1>11, HeldSame DEF ReceiptsMerged, TargetRetried, serverOfView, swrOfView
<1>12. ASSUME NEW b \in 1 .. Cardinality(Shown), ScrollsTo(b) PROVE Held'
  BY <1>12, HeldSame DEF ScrollsTo, serverOfView, swrOfView
<1>13. CASE UNCHANGED viewVars
  BY <1>13, HeldSame DEF viewVars, serverOfView, swrOfView
<1> QED
  BY <1>1, <1>2, <1>3, <1>4, <1>5, <1>6, <1>7, <1>8, <1>9, <1>10, <1>11, <1>12, <1>13 DEF ViewNext

-----------------------------------------------------------------------------
(* Steps of the log without a commit.                                      *)

LEMMA TailInit == ViewInit => TailKept
<1> SUFFICES ASSUME ViewInit PROVE TailKept
  OBVIOUS
<1>1. /\ bottom = 0 /\ pinned = TRUE /\ tail = <<0, NoMessage>> /\ follows = TRUE /\ blank = FALSE
      /\ open = NoChat
  BY DEF ViewInit
<1> QED
  BY <1>1 DEF TailKept, ScrollShape, TailKnown, Away, TailPassed, PinnedToTail, TailFollowed, AtTail, Logged

PassedStays == UNCHANGED <<open, rowsOf, tail>> /\ (Logged' <=> Logged)

LEMMA StillPassed ==
  ASSUME ThreadsKept, Advances, Logged, Passed, PassedStays
  PROVE  Passed'
<1>1. open \in Chats /\ tail' = tail /\ open' = open /\ Rows' = Rows
  BY RowsFacts DEF ThreadsKept, PassedStays, Rows
<1>2. \A i \in DOMAIN log[open] : i \in DOMAIN log'[open] /\ log'[open][i] = log[open][i]
  BY <1>1 DEF Advances, Extends
<1> QED
  BY <1>1, <1>2 DEF Passed

\* The log stands still.
LEMMA QuietTail ==
  ASSUME ThreadsKept, Advances, TailKept, PassedStays, UNCHANGED <<bottom, pinned, follows, blank>>,
         hydrating' = hydrating \/ ~hydrating
  PROVE  TailKept'
<1>1. ThreadShape /\ ScrollShape /\ TailKnown /\ tail' = tail
  BY DEF ThreadsKept, TailKept, PassedStays
<1>2. ScrollShape'
  BY <1>1 DEF ScrollShape, Entries
<1>3. TailKnown'
  BY <1>1, TailStaysKnown
<1>4. Away' /\ PinnedToTail' /\ TailFollowed'
  BY DEF TailKept, PassedStays, Away, PinnedToTail, TailFollowed, AtTail, Rows
<1>5. TailPassed'
  <2> SUFFICES ASSUME Logged', ~hydrating' \/ ~blank' PROVE Passed'
    BY DEF TailPassed
  <2>1. Logged /\ (~hydrating \/ ~blank)
    BY DEF PassedStays
  <2>2. Passed
    BY <2>1 DEF TailKept, TailPassed
  <2> QED
    BY <2>1, <2>2, StillPassed
<1> QED
  BY <1>2, <1>3, <1>4, <1>5 DEF TailKept

LEMMA LoggedStays ==
  ASSUME UNCHANGED <<open, rowsOf, tail>>, open \in failed' <=> open \in failed
  PROVE  PassedStays
BY DEF PassedStays, Logged, Rows

\* The viewer, or a target, takes the log elsewhere.
LEMMA MovedTail ==
  ASSUME ThreadsKept, TailKept, ~hydrating, UNCHANGED <<log, open, rowsOf, failed, sending, tail>>, Logged,
         bottom' \in Nat, pinned' = (bottom' = Len(Rows)), follows' = pinned', blank' = FALSE
  PROVE  TailKept'
<1>1. Advances
  BY LogStill
<1>2. PassedStays /\ Rows' = Rows /\ Logged'
  BY LoggedStays DEF PassedStays, Rows
<1>3. ThreadShape /\ ScrollShape /\ TailKnown /\ Passed
  BY DEF ThreadsKept, TailKept, TailPassed
<1>4. Passed' /\ TailKnown'
  BY <1>1, <1>2, <1>3, StillPassed, TailStaysKnown
<1>5. ScrollShape'
  BY <1>3 DEF ScrollShape, Entries
<1>6. follows' => bottom' = Len(Rows)
  OBVIOUS
<1>7. Away' /\ PinnedToTail' /\ TailFollowed'
  BY <1>2, <1>6 DEF Away, PinnedToTail, TailFollowed, AtTail
<1> QED
  BY <1>4, <1>5, <1>7 DEF TailKept, TailPassed

LEMMA TailScrollsTo ==
  ASSUME ThreadsKept, TailKept, NEW b \in Nat, ScrollsTo(b)
  PROVE  TailKept'
<1>1. /\ ~hydrating /\ Logged /\ bottom' = b /\ pinned' = (b = Len(Rows)) /\ follows' = pinned' /\ blank' = FALSE
      /\ UNCHANGED <<log, open, rowsOf, failed, sending, tail>>
  BY DEF ScrollsTo, Stable, serverOfView, swrOfView
<1> QED
  BY <1>1, MovedTail

LEMMA TailTargetRetried ==
  ASSUME ThreadsKept, TailKept, TargetRetried
  PROVE  TailKept'
<1>1. ~hydrating /\ UNCHANGED <<log, open, rowsOf, failed, sending, tail>>
  BY DEF TargetRetried, Stable, serverOfView, swrOfView
<1>2. CASE Logged /\ target \in Range(Rows)
  <2>1. /\ bottom' = Nearest(bottom, Index(Rows, target)) /\ pinned' = (bottom' = Len(Rows))
        /\ follows' = pinned' /\ blank' = FALSE
    BY <1>2 DEF TargetRetried
  <2>2. Rows \in Seq(Entries) /\ bottom \in Nat
    BY <1>2, RowsFacts DEF ThreadsKept, TailKept, ScrollShape
  <2>3. bottom' \in Nat
    BY <1>2, <2>1, <2>2, IndexFacts, NearestIsRow
  <2> QED
    BY <1>1, <1>2, <2>1, <2>3, MovedTail
<1>3. CASE ~(Logged /\ target \in Range(Rows))
  <2>1. UNCHANGED <<bottom, pinned, follows, blank>>
    BY <1>3 DEF TargetRetried
  <2>2. hydrating' = hydrating
    BY DEF TargetRetried
  <2> QED
    BY <1>1, <2>1, <2>2, LogStill, LoggedStays, QuietTail
<1> QED
  BY <1>2, <1>3

\* The log comes back after an error: what it remembers is among its rows, or passed.
LEMMA TailUncovered ==
  ASSUME ThreadsKept, Held, TailKept, Loads(open), open \in Chats, page[open] # NoData, open \in failed
  PROVE  TailKept'
<1>1. /\ ~hydrating /\ hydrating' = (page' # page) /\ page' = [page EXCEPT ![open] = log[open]]
      /\ UNCHANGED <<log, open, sending, rowsOf>> /\ Uncovered
  BY DEF Loads, Stable, serverOfView
<1>2. /\ bottom' = Min({Height, Len(Rows)}) /\ UNCHANGED <<pinned, tail, follows, blank>>
  BY <1>1 DEF Uncovered
<1>3. blank
  BY ThreadsAssumption DEF TailKept, Away, Logged
<1>4. /\ ThreadShape /\ ScrollShape /\ TailKnown /\ LogSound
      /\ rowsOf[open] \in Seq(Entries) /\ Height \in Nat
  BY ViewAssumption DEF ThreadsKept, ThreadShape, TailKept
<1>5. Len(Rows) \in Nat /\ bottom' \in Nat
  <2>1. Len(Rows) \in Nat
    BY <1>4 DEF Rows
  <2>2. Min({Height, Len(Rows)}) \in Nat
    BY <1>4, <2>1, MinOfTwo
  <2> QED
    BY <1>2, <2>1, <2>2
<1>6. Advances
  BY <1>1, LogStill
<1>7. ScrollShape' /\ TailKnown'
  <2>1. TailKnown'
    BY <1>2, <1>4, <1>6, TailStaysKnown
  <2> QED
    BY <1>2, <1>4, <1>5, <2>1 DEF ScrollShape, Entries
<1>8. ASSUME ~hydrating' PROVE Passed'
  <2>1. page[open] = log[open]
    BY <1>1, <1>8 DEF ThreadsKept, ThreadShape
  <2>2. Range(log[open]) \subseteq Range(Rows) /\ Len(log[open]) <= Len(Rows)
    BY <1>1, <2>1, ThreadsAssumption DEF Held
  <2>3. Rows' = Rows /\ log'[open'] = log[open] /\ open' = open /\ tail' = tail
    BY <1>1, <1>2 DEF Rows
  <2>4. tail[1] \in Nat
    BY <1>4 DEF ScrollShape
  <2>5. CASE tail = <<0, NoMessage>>
    BY <1>5, <2>3, <2>5 DEF Passed
  <2>6. CASE tail[2] \in Shown /\ ChatOf[tail[2]] # open
    BY <2>3, <2>6 DEF Passed
  <2>7. CASE tail[2] \in Shown /\ tail[2] \in Range(log[open])
    <3>1. PICK i \in DOMAIN log[open] : log[open][i] = tail[2]
      BY <2>7 DEF Range
    <3>2. log[open] \in Seq(Shown) /\ i \in Nat /\ i <= Len(log[open])
      BY <1>4 DEF ThreadShape
    <3>3. i <= Len(Rows) /\ tail[2] \in Range(Rows)
      BY <1>5, <2>2, <2>7, <3>2
    <3>4. tail[1] <= Len(Rows) \/ i < tail[1]
      BY <1>5, <2>4, <3>2, <3>3
    <3> QED
      BY <2>3, <3>1, <3>3, <3>4 DEF Passed
  <2>8. CASE \E o \in OfViewer : tail[2] = Pending(o)
    BY <2>3, <2>8 DEF Passed
  <2> QED
    BY <1>4, <2>5, <2>6, <2>7, <2>8 DEF TailKnown
<1> QED
  BY <1>2, <1>3, <1>7, <1>8 DEF TailKept, Away, TailPassed, PinnedToTail, TailFollowed

LEMMA TailLoads ==
  ASSUME ThreadsKept, ThreadsKept', Advances, Held, TailKept, NEW c \in Chats, Loads(c)
  PROVE  TailKept'
<1>1. ~hydrating /\ failed' = failed \ {c} /\ UNCHANGED <<open, rowsOf>>
  BY DEF Loads, Stable
<1>2. CASE c = open /\ page[c] = NoData
  <2>1. Scrolled(target)
    BY <1>2 DEF Loads, Commit
  <2> QED
    BY <1>1, <2>1, SameRowsStay, CommitTail
<1>3. CASE c = open /\ page[c] # NoData /\ c \in failed
  BY <1>3, TailUncovered
<1>4. CASE c # open \/ (page[c] # NoData /\ c \notin failed)
  <2>1. UNCHANGED scrolling
    BY <1>4 DEF Loads
  <2>2. open \in failed' <=> open \in failed
    BY <1>1, <1>4
  <2> QED
    BY <1>1, <2>1, <2>2, LoggedStays, QuietTail DEF scrolling
<1> QED
  BY <1>2, <1>3, <1>4

LEMMA TailLoadFails ==
  ASSUME ThreadsKept, ThreadsKept', Advances, TailKept, NEW c \in Chats, LoadFails(c)
  PROVE  TailKept'
<1>1. ~hydrating /\ failed' = failed \cup {c} /\ UNCHANGED <<open, rowsOf, hydrating>>
  BY DEF LoadFails, Stable
<1>2. CASE c = open
  <2>1. Scrolled(target)
    BY <1>2 DEF LoadFails
  <2> QED
    BY <1>1, <2>1, SameRowsStay, CommitTail
<1>3. CASE c # open
  <2>1. UNCHANGED scrolling
    BY <1>3 DEF LoadFails
  <2>2. open \in failed' <=> open \in failed
    BY <1>1, <1>3
  <2> QED
    BY <1>1, <2>1, <2>2, LoggedStays, QuietTail DEF scrolling
<1> QED
  BY <1>2, <1>3

LEMMA TailMessageArrives ==
  ASSUME ThreadsKept, ThreadsKept', Advances, TailKept, NEW m \in Shown, MessageArrives(m)
  PROVE  TailKept'
<1>1. UNCHANGED <<failed, open, hydrating>>
  BY DEF MessageArrives
<1>2. CASE m \in Known
  <2>1. UNCHANGED <<rowsOf, scrolling>>
    BY <1>2 DEF MessageArrives
  <2> QED
    BY <1>1, <2>1, LoggedStays, QuietTail DEF scrolling
<1>3. CASE m \notin Known
  <2>1. rowsOf' = [rowsOf EXCEPT ![ChatOf[m]] = Append(rowsOf[ChatOf[m]], m)] /\ Scrolled(m)
    BY <1>3 DEF MessageArrives, Commit
  <2>2. ~Recurs
    BY <1>3, <2>1, NewRowIsNew DEF ThreadsKept
  <2> QED
    BY <2>1, <2>2, CommitTail
<1> QED
  BY <1>2, <1>3

\* Steps that change no variable of the log or of its threads but what is stored.
LEMMA TailStill ==
  ASSUME ThreadsKept, Advances, TailKept, UNCHANGED <<open, rowsOf, failed, hydrating, scrolling>>
  PROVE  TailKept'
BY LoggedStays, QuietTail DEF scrolling

LEMMA TailStep == ThreadsKept /\ Held /\ TailKept /\ [ViewNext]_viewVars => TailKept'
<1> SUFFICES ASSUME ThreadsKept, Held, TailKept, [ViewNext]_viewVars PROVE TailKept'
  OBVIOUS
<1>0. ThreadsKept' /\ Advances /\ ThreadShape'
  BY ThreadsStep DEF ThreadsKept
<1>1. ASSUME NEW m \in Shown, PeerSends(m) \/ RowSeen(m) PROVE TailKept'
  BY <1>0, <1>1, TailStill DEF PeerSends, RowSeen, swrOfView
<1>2. ASSUME NEW m \in Shown, MessageArrives(m) PROVE TailKept'
  BY <1>0, <1>2, TailMessageArrives
<1>3. ASSUME NEW m \in Shown, SendsOwn(m) PROVE TailKept'
  <2>1. Scrolled(target)
    BY <1>3 DEF SendsOwn, Commit
  <2> QED
    BY <1>0, <1>3, <2>1, OwnRowIsNew, CommitTail
<1>4. ASSUME NEW m \in Shown, Acknowledged(m) PROVE TailKept'
  <2>1. Scrolled(m)
    BY <1>4 DEF Acknowledged, Commit
  <2> QED
    BY <1>0, <1>4, <2>1, StoredRowIsNew, CommitTail
<1>5. ASSUME NEW k \in calls, Handled(k) \/ Refused(k) PROVE TailKept'
  BY <1>0, <1>5, TailStill DEF Handled, Refused, swrOfView
<1>6. ASSUME Drops \/ Returns PROVE TailKept'
  BY <1>0, <1>6, TailStill DEF Drops, Returns, swrOfView
<1>7. ASSUME NEW c \in Chats \cup {NoChat}, Opens(c) PROVE TailKept'
  <2>1. open' # open /\ Scrolled(target)
    BY <1>7 DEF Opens, Commit
  <2>2. ~Recurs
    BY <2>1 DEF Recurs
  <2> QED
    BY <1>0, <2>1, <2>2, CommitTail
<1>8. ASSUME NEW c \in Chats, Loads(c) PROVE TailKept'
  BY <1>0, <1>8, TailLoads
<1>9. ASSUME NEW c \in Chats, LoadFails(c) PROVE TailKept'
  BY <1>0, <1>9, TailLoadFails
<1>10. ASSUME NEW c \in Chats, Retries(c) PROVE TailKept'
  BY <1>0, <1>10, TailStill DEF Retries
<1>11. ASSUME hydrateMessages PROVE TailKept'
  <2>1. Scrolled(target)
    BY <1>11 DEF hydrateMessages, Commit
  <2> QED
    BY <1>0, <1>11, <2>1, LoadedRowIsPlaced, CommitTail
<1>12. ASSUME ReceiptsMerged PROVE TailKept'
  <2>1. rowsOf' = rowsOf /\ Scrolled(target)
    BY <1>12 DEF ReceiptsMerged, Commit
  <2> QED
    BY <1>0, <2>1, SameRowsStay, CommitTail
<1>13. ASSUME TargetRetried PROVE TailKept'
  BY <1>13, TailTargetRetried
<1>14. ASSUME NEW b \in 1 .. Cardinality(Shown), ScrollsTo(b) PROVE TailKept'
  <2>1. b \in Nat
    <3>1. b \in Min({Height, Len(Rows)}) .. Len(Rows) /\ Logged
      BY <1>14 DEF ScrollsTo
    <3>2. Len(Rows) \in Nat /\ Height \in Nat
      BY <3>1, RowsFacts, ViewAssumption DEF ThreadsKept
    <3>3. Min({Height, Len(Rows)}) \in Nat
      BY <3>2, MinOfTwo
    <3> QED
      BY <3>1, <3>2, <3>3
  <2> QED
    BY <1>14, <2>1, TailScrollsTo
<1>15. CASE UNCHANGED viewVars
  BY <1>0, <1>15, TailStill DEF viewVars, swrOfView
<1> QED
  BY <1>1, <1>2, <1>3, <1>4, <1>5, <1>6, <1>7, <1>8, <1>9, <1>10, <1>11, <1>12, <1>13, <1>14, <1>15
     DEF ViewNext

\* ThreadMessageList: a viewer at the tail of the log stays there, whatever comes, is
\* stored, loads or fails.
THEOREM TailIsFollowed == ViewSpec => []TailFollowed
<1>1. TailKept => TailFollowed
  BY DEF TailKept
<1> QED
  BY <1>1, ThreadsInit, ThreadsStep, HeldInit, HeldStep, TailInit, TailStep, PTL DEF ViewSpec
=============================================================================
