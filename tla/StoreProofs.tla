----------------------------- MODULE StoreProofs -----------------------------
(***************************************************************************)
(* What holds of MessagingStore for any number of messages and faults and  *)
(* any arrival of events and answers: a send is on the screen once, and a  *)
(* row that says "sending" is of the send the tab waits for.               *)
(*                                                                         *)
(* The composer admits one send at a time, so one optimistic row is shown  *)
(* at most, it is the first that still waits in the queue, and it is in    *)
(* the list of the thread as well as in messagesById: whatever brings its  *)
(* message, an event, the acknowledgement or a fetch, takes it away.       *)
(***************************************************************************)
EXTENDS MessagingStore, SequenceLemmas, FiniteSetTheorems

-----------------------------------------------------------------------------
(* What a loop or a filter over an array keeps.                            *)

\* Every rank up to the number of positions is that of one position.
LEMMA RanksFacts ==
  ASSUME NEW n \in Nat, NEW ix \in SUBSET (1 .. n)
  PROVE  /\ Cardinality(ix) \in Nat
         /\ \A i \in ix : Cardinality({j \in ix : j <= i}) \in 1 .. Cardinality(ix)
         /\ \A i, k \in ix :
              Cardinality({j \in ix : j <= i}) = Cardinality({j \in ix : j <= k}) => i = k
         /\ \A c \in 1 .. Cardinality(ix) : \E i \in ix : Cardinality({j \in ix : j <= i}) = c
<1> DEFINE upTo(i) == {j \in ix : j <= i}
           rank(i) == Cardinality(upTo(i))
           ranks == [i \in ix |-> rank(i)]
           all == Cardinality(ix)
<1>1. IsFiniteSet(ix) /\ all \in Nat
  <2>1. IsFiniteSet(1 .. n)
    BY FS_Interval
  <2>2. IsFiniteSet(ix)
    BY <2>1, FS_Subset
  <2> QED
    BY <2>2, FS_CardinalityType
<1>2. \A i \in ix : upTo(i) \in SUBSET ix /\ i \in upTo(i)
  OBVIOUS
<1>3. \A i \in ix : IsFiniteSet(upTo(i)) /\ rank(i) \in Nat /\ rank(i) <= all /\ rank(i) # 0
  <2> TAKE i \in ix
  <2>1. IsFiniteSet(upTo(i)) /\ rank(i) <= all
    BY <1>1, <1>2, FS_Subset
  <2>2. rank(i) \in Nat /\ rank(i) # 0
    BY <1>2, <2>1, FS_CardinalityType, FS_EmptySet
  <2> QED
    BY <2>1, <2>2
<1>4. ASSUME NEW i \in ix, NEW k \in ix, i < k PROVE rank(i) # rank(k)
  <2>1. \A j \in ix : j \in Nat
    OBVIOUS
  <2>2. ~ (k <= i) /\ \A j \in ix : j <= i => j <= k
    BY <1>4, <2>1
  <2>3. upTo(i) \in SUBSET upTo(k) /\ k \notin upTo(i)
    BY <2>2
  <2> HIDE DEF upTo
  <2>4. upTo(i) # upTo(k)
    BY <1>2, <2>3
  <2> QED
    BY <1>3, <2>3, <2>4, FS_Subset
<1> HIDE DEF upTo
<1>5. \A i, k \in ix : rank(i) = rank(k) => i = k
  <2> SUFFICES ASSUME NEW i \in ix, NEW k \in ix, i # k PROVE rank(i) # rank(k)
    OBVIOUS
  <2>1. i < k \/ k < i
    OBVIOUS
  <2> HIDE DEF rank
  <2> QED
    BY <1>4, <2>1
<1>6. \A i \in ix : rank(i) \in 1 .. all
  BY <1>1, <1>3
<1> HIDE DEF rank, all
<1>7. ranks \in Injection(ix, 1 .. all)
  BY <1>5, <1>6 DEF Injection, IsInjective
<1>8. ranks \in Surjection(ix, 1 .. all)
  <2>1. IsFiniteSet(1 .. all) /\ Cardinality(1 .. all) = all
    <3>1. all \in Int /\ 1 \in Int /\ (1 > all => all = 0) /\ all - 1 + 1 = all
      BY <1>1
    <3> QED
      BY <1>1, <3>1, FS_Interval
  <2> HIDE DEF ranks
  <2> QED
    BY <1>7, <2>1, FS_Injection DEF all
<1>9. \A c \in 1 .. all : \E i \in ix : rank(i) = c
  BY <1>8 DEF Surjection
<1> QED
  BY <1>1, <1>5, <1>6, <1>9 DEF rank, all, upTo

\* What is picked are the entries at the positions given.
LEMMA PickedFacts ==
  ASSUME NEW S, NEW s \in Seq(S), NEW ix \in SUBSET (DOMAIN s)
  PROVE  Picked(s, ix) \in Seq(S) /\ Range(Picked(s, ix)) = {s[i] : i \in ix}
<1> DEFINE rank(i) == Cardinality({j \in ix : j <= i})
           at(c) == CHOOSE i \in ix : rank(i) = c
           all == Cardinality(ix)
<1>1. Len(s) \in Nat /\ DOMAIN s = 1 .. Len(s)
  OBVIOUS
<1>2. /\ all \in Nat /\ \A i \in ix : rank(i) \in 1 .. all
      /\ \A i, k \in ix : rank(i) = rank(k) => i = k
      /\ \A c \in 1 .. all : \E i \in ix : rank(i) = c
  BY <1>1, RanksFacts
<1>3. Picked(s, ix) = [c \in 1 .. all |-> s[at(c)]]
  BY DEF Picked
<1> HIDE DEF rank, all
<1>4. \A c \in 1 .. all : at(c) \in ix /\ rank(at(c)) = c
  BY <1>2
<1>5. \A i \in ix : at(rank(i)) = i
  <2> TAKE i \in ix
  <2>1. at(rank(i)) \in ix /\ rank(at(rank(i))) = rank(i)
    BY <1>2, <1>4
  <2> HIDE DEF at
  <2> QED
    BY <1>2, <2>1
<1> HIDE DEF at
<1>6. \A i \in ix : s[i] \in S
  OBVIOUS
<1>7. Picked(s, ix) \in Seq(S)
  BY <1>2, <1>3, <1>4, <1>6
<1>8. Range(Picked(s, ix)) = {s[at(c)] : c \in 1 .. all}
  BY <1>3 DEF Range
<1>9. {s[at(c)] : c \in 1 .. all} = {s[i] : i \in ix}
  BY <1>2, <1>4, <1>5
<1> QED
  BY <1>7, <1>8, <1>9

\* dedupeIdsStable keeps the first of each, so it loses none.
LEMMA DedupeFacts ==
  ASSUME NEW S, NEW s \in Seq(S)
  PROVE  dedupeIdsStable(s) \in Seq(S) /\ Range(dedupeIdsStable(s)) = Range(s)
<1> DEFINE ix == {i \in DOMAIN s : \A j \in 1 .. (i - 1) : s[j] # s[i]}
<1>1. ix \in SUBSET (DOMAIN s) /\ dedupeIdsStable(s) = Picked(s, ix)
  BY DEF dedupeIdsStable
<1>2. ASSUME NEW x \in Range(s) PROVE \E i \in ix : s[i] = x
  <2> DEFINE at == {i \in DOMAIN s : s[i] = x}
  <2>1. at \in SUBSET Nat /\ at # {}
    BY <1>2 DEF Range
  <2>2. PICK i \in at : \A j \in at : i <= j
    BY <2>1, LeastOf
  <2>3. i \in DOMAIN s /\ s[i] = x
    OBVIOUS
  <2>4. \A j \in 1 .. (i - 1) : s[j] # s[i]
    <3> SUFFICES ASSUME NEW j \in 1 .. (i - 1), s[j] = s[i] PROVE FALSE
      OBVIOUS
    <3>1. j \in DOMAIN s /\ j < i
      BY <2>3
    <3> QED
      BY <2>2, <2>3, <3>1
  <2> QED
    BY <2>3, <2>4
<1>3. {s[i] : i \in ix} = Range(s)
  BY <1>2 DEF Range
<1> HIDE DEF ix
<1> QED
  BY <1>1, <1>3, PickedFacts

\* The filters of the reducers take an id out, and only it.
LEMMA WithoutFacts ==
  ASSUME NEW S, NEW s \in Seq(S), NEW id
  PROVE  Without(s, id) \in Seq(S) /\ Range(Without(s, id)) = Range(s) \ {id}
<1> DEFINE ix == {i \in DOMAIN s : s[i] # id}
<1>1. ix \in SUBSET (DOMAIN s) /\ Without(s, id) = Picked(s, ix)
  BY DEF Without
<1>2. {s[i] : i \in ix} = Range(s) \ {id}
  BY DEF Range
<1> HIDE DEF ix
<1> QED
  BY <1>1, <1>2, PickedFacts

-----------------------------------------------------------------------------
(* The ids and the queue.                                                  *)

Clients == {Client(k) : k \in Sends}

LEMMA IdFacts ==
  /\ \A k \in Sends : Client(k) \in Clients /\ k \in Messages /\ k \in Own
  /\ \A k, l \in Sends : Client(k) = Client(l) => k = l
  /\ Messages \subseteq Ids /\ Clients \subseteq Ids /\ Messages \cap Clients = {}
  /\ Ids = Messages \cup Clients
BY IdsAssumption DEF Client, Clients, Ids, Messages, Own

\* The message takes the place of the row, wherever else the list had it.
LEMMA PlaceFacts ==
  ASSUME rows \in Seq(Ids), NEW m \in Ids, NEW id \in Range(rows)
  PROVE  Place(id, m) \in Seq(Ids) /\ Range(Place(id, m)) = (Range(rows) \ {id}) \cup {m}
<1> DEFINE next == [i \in DOMAIN rows |-> IF rows[i] = id THEN m ELSE rows[i]]
<1>1. next \in Seq(Ids)
  <2>1. \A i \in DOMAIN rows : rows[i] \in Ids
    OBVIOUS
  <2>2. DOMAIN rows = 1 .. Len(rows) /\ Len(rows) \in Nat
    OBVIOUS
  <2> QED
    BY <2>1, <2>2
<1>2. Range(next) = (Range(rows) \ {id}) \cup {m}
  <2>1. PICK i \in DOMAIN rows : rows[i] = id
    BY DEF Range
  <2>2. m \in Range(next)
    BY <2>1 DEF Range
  <2>3. ASSUME NEW x \in Range(rows), x # id PROVE x \in Range(next)
    <3>1. PICK j \in DOMAIN rows : rows[j] = x
      BY DEF Range
    <3>2. next[j] = x /\ j \in DOMAIN next
      BY <2>3, <3>1
    <3> QED
      BY <3>2 DEF Range
  <2>4. ASSUME NEW x \in Range(next) PROVE x \in (Range(rows) \ {id}) \cup {m}
    BY <2>4 DEF Range
  <2> HIDE DEF next
  <2> QED
    BY <2>2, <2>3, <2>4
<1>3. Place(id, m) = dedupeIdsStable(next)
  BY DEF Place
<1> HIDE DEF next
<1> QED
  BY <1>1, <1>2, <1>3, DedupeFacts

\* Added adds a message, unless the list has it.
LEMMA AddedFacts ==
  ASSUME rows \in Seq(Ids), NEW m \in Ids
  PROVE  Added(m) \in Seq(Ids) /\ Range(Added(m)) = Range(rows) \cup {m}
BY RangeAppend DEF Added

\* What is dropped from the queue has left the store, and its head has not.
LEMMA StrippedFacts ==
  ASSUME waiting \in Seq(Clients)
  PROVE  /\ Stripped \in Seq(Clients) /\ Range(Stripped) \subseteq Range(waiting)
         /\ \A id \in Range(waiting) : id \in byId \cup Range(rows) => id \in Range(Stripped)
         /\ Stripped # <<>> => /\ Head(Stripped) \in byId \cup Range(rows)
                               /\ Head(Stripped) \in Clients
<1> DEFINE kept == {i \in DOMAIN waiting : waiting[i] \in byId \cup Range(rows)}
           from == Min(kept)
           rest == SubSeq(waiting, from, Len(waiting))
<1>1. Stripped = IF kept = {} THEN <<>> ELSE rest
  BY DEF Stripped
<1>2. CASE kept = {}
  <2>1. Stripped = <<>>
    BY <1>1, <1>2
  <2>2. \A id \in Range(waiting) : id \notin byId \cup Range(rows)
    BY <1>2 DEF Range
  <2> QED
    BY <2>1, <2>2 DEF Range
<1>3. CASE kept # {}
  <2>1. kept \in SUBSET Nat /\ kept \subseteq 1 .. Len(waiting)
    OBVIOUS
  <2>2. from \in kept /\ \A i \in kept : from <= i
    <3>1. \E i \in kept : \A j \in kept : i <= j
      BY <1>3, <2>1, LeastOf
    <3> HIDE DEF kept
    <3> QED
      BY <3>1 DEF Min
  <2>3. from \in 1 .. Len(waiting) /\ waiting[from] \in byId \cup Range(rows) /\ Len(waiting) \in Nat
    BY <2>2
  <2> HIDE DEF from
  <2>4. /\ rest \in Seq(Clients) /\ Len(rest) = Len(waiting) - from + 1
        /\ \A i \in 1 .. Len(rest) : rest[i] = waiting[from + i - 1]
    BY <2>3
  <2>5. rest # <<>> /\ Head(rest) = waiting[from] /\ waiting[from] \in Clients
    <3>1. 1 \in 1 .. Len(rest) /\ from + 1 - 1 = from
      BY <2>3, <2>4
    <3>2. rest[1] = waiting[from] /\ waiting[from] \in Clients
      BY <2>3, <2>4, <3>1
    <3> HIDE DEF rest
    <3> QED
      BY <2>4, <3>1, <3>2
  <2>6. ASSUME NEW i \in kept PROVE waiting[i] \in Range(rest)
    <3>1. i \in 1 .. Len(waiting) /\ from <= i
      BY <2>1, <2>2
    <3>2. i - from + 1 \in 1 .. Len(rest) /\ from + (i - from + 1) - 1 = i
      BY <2>3, <2>4, <3>1
    <3>3. rest[i - from + 1] = waiting[i] /\ i - from + 1 \in DOMAIN rest
      BY <2>4, <3>2
    <3> QED
      BY <3>3 DEF Range
  <2>7. ASSUME NEW i \in DOMAIN rest PROVE rest[i] \in Range(waiting)
    <3>1. i \in 1 .. Len(rest)
      BY <2>4
    <3>2. rest[i] = waiting[from + i - 1] /\ from + i - 1 \in DOMAIN waiting
      BY <2>3, <2>4, <3>1
    <3> QED
      BY <3>2 DEF Range
  <2> HIDE DEF rest
  <2>8. Range(rest) \subseteq Range(waiting)
    BY <2>7 DEF Range
  <2>9. \A id \in Range(waiting) : id \in byId \cup Range(rows) => id \in Range(rest)
    BY <2>6 DEF Range
  <2> QED
    BY <1>1, <1>3, <2>3, <2>4, <2>5, <2>8, <2>9
<1> QED
  BY <1>2, <1>3

-----------------------------------------------------------------------------
(* Type correctness.                                                       *)

LEMMA TypeInit == Init => TypeOK
<1> SUFFICES ASSUME Init PROVE TypeOK
  OBVIOUS
<1>1. \A S : <<>> \in Seq(S)
  OBVIOUS
<1>2. send \in [Sends -> {"new", "waiting", "deaf", "acked", "overtaken", "ok", "error"}]
  BY DEF Init
<1>3. plain \in [Messages -> Sends \cup {None}] /\ faults \in 0 .. MaxFaults
  BY StoreAssumption DEF Init
<1> QED
  BY <1>1, <1>2, <1>3 DEF Init, TypeOK

\* What a fault adds stays within the bound.
LEMMA FaultType ==
  ASSUME TypeOK, Fault \/ UNCHANGED faults
  PROVE  faults' \in 0 .. MaxFaults
BY StoreAssumption DEF TypeOK, Fault

\* A message that comes in leaves the store well-formed; only it may be new there,
\* and a message of the user's own takes the optimistic row away.
LEMMA IncomingFacts ==
  ASSUME TypeOK, NEW m \in Messages, appendIncomingMessageIfNew(m)
  PROVE  /\ rows' \in Seq(Ids) /\ byId' \subseteq byId \cup {m} /\ waiting' \in Seq(Clients)
         /\ plain' \in [Messages -> Sends \cup {None}]
         /\ \/ UNCHANGED storeVars /\ m \in byId
            \/ /\ m \in Own /\ \E id \in Clients :
                    /\ id \in byId /\ id \in Range(Stripped)
                    /\ byId' = (byId \ {id}) \cup {m}
                    /\ id \in Range(rows) => Range(rows') = (Range(rows) \ {id}) \cup {m}
            \/ /\ ~Pairs(m) /\ byId' = byId \cup {m} /\ Range(rows') = Range(rows) \cup {m}
               /\ waiting' = IF m \in Own THEN Stripped ELSE waiting
<1>1. rows \in Seq(Ids) /\ waiting \in Seq(Clients) /\ m \in Ids /\ m \notin Clients
  BY IdFacts DEF TypeOK, Clients
<1>2. /\ Stripped \in Seq(Clients) /\ Range(Stripped) \subseteq Range(waiting)
      /\ Stripped # <<>> => /\ Head(Stripped) \in Clients /\ Tail(Stripped) \in Seq(Clients)
                            /\ Head(Stripped) \in Range(Stripped)
  <2>1. Stripped \in Seq(Clients) /\ Range(Stripped) \subseteq Range(waiting)
    BY <1>1, StrippedFacts
  <2>2. ASSUME Stripped # <<>>
        PROVE  Head(Stripped) \in Range(Stripped) /\ Tail(Stripped) \in Seq(Clients)
    <3>1. 1 \in DOMAIN Stripped /\ Head(Stripped) = Stripped[1]
      BY <2>1, <2>2
    <3> QED
      BY <2>1, <2>2, <3>1 DEF Range
  <2>3. Range(Stripped) \subseteq Clients
    BY <2>1, RangeOfTyped
  <2> QED
    BY <2>1, <2>2, <2>3
<1>3. CASE m \in byId
  BY <1>1, <1>3 DEF appendIncomingMessageIfNew, storeVars, TypeOK
<1>4. CASE m \notin byId /\ Pairs(m)
  <2> DEFINE id == Head(Stripped)
  <2>1. /\ m \in Own /\ id \in Clients /\ id \in byId /\ id \in Range(Stripped)
        /\ Tail(Stripped) \in Seq(Clients)
    BY <1>2, <1>4 DEF Pairs
  <2>2. /\ byId' = (byId \ {id}) \cup {m}
        /\ rows' = IF id \in Range(rows) THEN Place(id, m) ELSE Added(m)
        /\ plain' = [plain EXCEPT ![m] = TextOf(id)]
        /\ waiting' = Tail(Stripped)
    BY <1>4 DEF appendIncomingMessageIfNew
  <2> HIDE DEF id
  <2>3. TextOf(id) \in Sends
    BY <2>1 DEF TextOf, Clients
  <2>4. plain' \in [Messages -> Sends \cup {None}]
    BY <2>2, <2>3 DEF TypeOK
  <2>5. CASE id \in Range(rows)
    BY <1>1, <2>1, <2>2, <2>4, <2>5, PlaceFacts
  <2>6. CASE id \notin Range(rows)
    BY <1>1, <2>1, <2>2, <2>4, <2>6, AddedFacts
  <2> QED
    BY <2>5, <2>6
<1>5. CASE m \notin byId /\ ~Pairs(m)
  <2>1. /\ byId' = byId \cup {m} /\ rows' = Added(m)
        /\ waiting' = IF m \in Own THEN Stripped ELSE waiting
        /\ plain' = plain
    BY <1>5 DEF appendIncomingMessageIfNew
  <2> QED
    BY <1>1, <1>2, <1>5, <2>1, AddedFacts DEF TypeOK
<1> QED
  BY <1>3, <1>4, <1>5

\* A page takes the place of the rows.
LEMMA PageFacts ==
  ASSUME TypeOK, hydrateMessagesFromFetch
  PROVE  \E shown \in cached : /\ shown \in Seq(Messages) /\ rows' = shown
                               /\ byId' = (byId \ Range(rows)) \cup Range(shown)
<1> PICK shown \in cached : rows' = shown /\ byId' = (byId \ Range(rows)) \cup Range(shown)
  BY DEF hydrateMessagesFromFetch
<1> QED
  BY DEF TypeOK

\* The acknowledgement and the error take the row of their send away.
LEMMA AckFacts ==
  ASSUME TypeOK, NEW k \in Sends, replaceOptimisticMessage(k)
  PROVE  /\ rows' \in Seq(Ids) /\ Range(rows') = (Range(rows) \ {Client(k)}) \cup {k}
         /\ waiting' \in Seq(Clients) /\ Range(waiting') = Range(waiting) \ {Client(k)}
<1>1. rows \in Seq(Ids) /\ waiting \in Seq(Clients) /\ k \in Ids
  BY IdFacts DEF TypeOK, Clients
<1>2. rows' = Replaced(k) /\ waiting' = Without(waiting, Client(k))
  BY DEF replaceOptimisticMessage
<1>3. waiting' \in Seq(Clients) /\ Range(waiting') = Range(waiting) \ {Client(k)}
  BY <1>1, <1>2, WithoutFacts
<1>4. CASE Client(k) \in Range(rows)
  BY <1>1, <1>2, <1>3, <1>4, PlaceFacts DEF Replaced
<1>5. CASE Client(k) \notin Range(rows)
  BY <1>1, <1>2, <1>3, <1>5, AddedFacts DEF Replaced
<1> QED
  BY <1>4, <1>5

LEMMA RemovalFacts ==
  ASSUME TypeOK, NEW k \in Sends, removeOptimisticMessage(k)
  PROVE  /\ rows' \in Seq(Ids) /\ Range(rows') = Range(rows) \ {Client(k)}
         /\ waiting' \in Seq(Clients) /\ Range(waiting') = Range(waiting) \ {Client(k)}
<1>1. rows \in Seq(Ids) /\ waiting \in Seq(Clients)
  BY DEF TypeOK, Clients
<1>2. rows' = Without(rows, Client(k)) /\ waiting' = Without(waiting, Client(k))
  BY DEF removeOptimisticMessage, Removed
<1> QED
  BY <1>1, <1>2, WithoutFacts

\* A typed text has its row at the end of the list and of the queue.
LEMMA TypedFacts ==
  ASSUME TypeOK, NEW k \in Sends, appendMessageFromSend(k)
  PROVE  /\ rows' \in Seq(Ids) /\ Range(rows') = Range(rows) \cup {Client(k)}
         /\ waiting' \in Seq(Clients) /\ Range(waiting') = Range(waiting) \cup {Client(k)}
<1>1. rows \in Seq(Ids) /\ waiting \in Seq(Clients) /\ Client(k) \in Ids /\ Client(k) \in Clients
  BY IdFacts DEF TypeOK, Clients
<1>2. rows' = Append(rows, Client(k)) /\ waiting' = Append(waiting, Client(k))
  BY DEF appendMessageFromSend
<1>3. Append(rows, Client(k)) \in Seq(Ids) /\ Append(waiting, Client(k)) \in Seq(Clients)
  BY <1>1
<1> QED
  BY <1>1, <1>2, <1>3, RangeAppend

LEMMA TypeNext == TypeOK /\ [Next]_vars => TypeOK'
<1> SUFFICES ASSUME TypeOK, [Next]_vars PROVE TypeOK'
  OBVIOUS
<1> DEFINE States == {"new", "waiting", "deaf", "acked", "overtaken", "ok", "error"}
<1>1. \A m \in Messages : Append(thread, m) \in Seq(Messages)
  BY DEF TypeOK
<1>2. \A k \in Sends : k \in Messages
  BY DEF Messages
<1>3. \A k \in Sends : \A x \in States : [send EXCEPT ![k] = x] \in [Sends -> States]
  BY DEF TypeOK
<1>4. <<>> \in Seq(Messages) /\ <<>> \in Seq(Clients)
  OBVIOUS
<1>5. Fault \/ UNCHANGED faults => faults' \in 0 .. MaxFaults
  BY FaultType
<1>6. ASSUME NEW m \in Elsewhere \cup Theirs, StoreOther(m) PROVE TypeOK'
  <2>1. m \in Messages /\ (Fault \/ UNCHANGED faults) /\ events' \subseteq events \cup {m}
    BY <1>6 DEF StoreOther, Messages
  <2> QED
    BY <1>1, <1>5, <1>6, <2>1 DEF StoreOther, swrVars, storeVars, TypeOK
<1>7. ASSUME NEW m \in Messages, MessageNew(m) PROVE TypeOK'
  <2>1. /\ rows' \in Seq(Ids) /\ byId' \subseteq byId \cup {m} /\ waiting' \in Seq(Clients)
        /\ plain' \in [Messages -> Sends \cup {None}] /\ m \in Ids
    BY <1>7, IncomingFacts, IdFacts DEF MessageNew
  <2>2. send' \in [Sends -> States]
    BY <1>7 DEF MessageNew, TypeOK
  <2> QED
    BY <1>4, <1>7, <2>1, <2>2 DEF MessageNew, mutate, TypeOK, Clients
<1>8. ASSUME NEW k \in Sends, appendMessageFromSend(k) PROVE TypeOK'
  <2>1. /\ rows' \in Seq(Ids) /\ waiting' \in Seq(Clients) /\ byId' = byId \cup {Client(k)}
        /\ Client(k) \in Ids /\ send' = [send EXCEPT ![k] = "waiting"] /\ sendPending' = TRUE
    BY <1>8, TypedFacts, IdFacts DEF appendMessageFromSend
  <2> QED
    BY <1>3, <1>8, <2>1 DEF appendMessageFromSend, serverVars, swrVars, TypeOK, Clients
<1>9. ASSUME NEW k \in Sends, StoreSend(k) PROVE TypeOK'
  BY <1>1, <1>2, <1>9 DEF StoreSend, swrVars, storeVars, TypeOK
<1>10. ASSUME NEW k \in Sends, Reconnect(k) PROVE TypeOK'
  BY <1>3, <1>5, <1>10 DEF Reconnect, serverVars, swrVars, storeVars, TypeOK
<1>11. ASSUME NEW k \in Sends, Echo(k) PROVE TypeOK'
  BY <1>2, <1>11 DEF Echo, swrVars, storeVars, TypeOK
<1>12. ASSUME NEW k \in Sends, replaceOptimisticMessage(k) PROVE TypeOK'
  <2>1. rows' \in Seq(Ids) /\ waiting' \in Seq(Clients) /\ k \in Ids /\ k \in Messages
    BY <1>12, AckFacts, IdFacts
  <2>2. /\ byId' = (byId \ {Client(k)}) \cup {k} /\ send' = [send EXCEPT ![k] = "acked"]
        /\ plain' = IF Client(k) \in byId THEN [plain EXCEPT ![k] = k] ELSE plain
    BY <1>12 DEF replaceOptimisticMessage
  <2>3. plain' \in [Messages -> Sends \cup {None}]
    BY <2>1, <2>2 DEF TypeOK
  <2> QED
    BY <1>3, <1>4, <1>12, <2>1, <2>2, <2>3
       DEF replaceOptimisticMessage, mutate, serverVars, TypeOK, Clients
<1>13. ASSUME NEW k \in Sends, Settle(k) PROVE TypeOK'
  BY <1>3, <1>13 DEF Settle, serverVars, swrVars, storeVars, TypeOK
<1>14. ASSUME NEW k \in Sends, removeOptimisticMessage(k) PROVE TypeOK'
  <2>1. /\ rows' \in Seq(Ids) /\ waiting' \in Seq(Clients) /\ byId' = byId \ {Client(k)}
        /\ send' = [send EXCEPT ![k] = "error"] /\ sendPending' = FALSE
    BY <1>14, RemovalFacts DEF removeOptimisticMessage
  <2> QED
    BY <1>3, <1>14, <2>1 DEF removeOptimisticMessage, serverVars, swrVars, TypeOK, Clients
<1>15. CASE Answer
  BY <1>15 DEF Answer, serverVars, storeVars, TypeOK
<1>16. CASE Resolve
  <2>1. Fault \/ UNCHANGED faults
    BY <1>16 DEF Resolve
  <2>2. /\ request' \in {"started", "idle"} /\ response' = <<>>
        /\ data' \in {data, response} /\ (cached' = cached \/ cached' = {response})
    BY <1>16 DEF Resolve
  <2> QED
    BY <1>4, <1>5, <1>16, <2>1, <2>2 DEF Resolve, serverVars, storeVars, TypeOK
<1>17. CASE hydrateMessagesFromFetch
  <2>1. PICK shown \in cached : /\ shown \in Seq(Messages) /\ rows' = shown
                                /\ byId' = (byId \ Range(rows)) \cup Range(shown)
    BY <1>17, PageFacts
  <2>2. shown \in Seq(Ids) /\ Range(shown) \subseteq Ids
    BY <2>1, IdFacts, SeqMonotone, RangeOfTyped
  <2>3. plain' \in [Messages -> Sends \cup {None}] /\ waiting' = <<>> /\ cached' = {}
    BY <1>17 DEF hydrateMessagesFromFetch, TypeOK
  <2> QED
    BY <1>4, <1>17, <2>1, <2>2, <2>3 DEF hydrateMessagesFromFetch, serverVars, TypeOK, Clients
<1>18. CASE UNCHANGED vars
  BY <1>18 DEF vars, serverVars, swrVars, storeVars, TypeOK
<1> QED
  BY <1>6, <1>7, <1>8, <1>9, <1>10, <1>11, <1>12, <1>13, <1>14, <1>15, <1>16, <1>17, <1>18
     DEF Next

\* The store, the requests of the tab and the messages on their way stay well-formed
\* (messagingSlice.ts, useConversation).
THEOREM StoreIsTyped == Spec => []TypeOK
<1>1. Init => TypeOK
  BY TypeInit
<1>2. TypeOK /\ [Next]_vars => TypeOK'
  BY TypeNext
<1> QED
  BY <1>1, <1>2, PTL DEF Spec

-----------------------------------------------------------------------------
(* One row at a time.                                                      *)

\* Whatever the tab is told of or fetched is stored.
Stored ==
  /\ byId \cap Messages \subseteq Range(thread)
  /\ events \subseteq Range(thread) /\ Range(response) \subseteq Range(thread)
  /\ \A shown \in cached : Range(shown) \subseteq Range(thread)

\* A send is stored after it was typed, and the composer waits for one at a time.
Pending(k) == send[k] \in {"waiting", "deaf", "acked", "overtaken"}
OneAtATime ==
  /\ \A k \in Sends : send[k] = "new" => k \notin Range(thread)
  /\ \A k \in Sends : Pending(k) => sendPending
  /\ \A k, l \in Sends : Pending(k) /\ Pending(l) => k = l

\* The row of a send is complete: in the list, by its id and in the queue; it is there
\* only while the send may still be answered, and not beside its message.
Sending(k) == send[k] \in {"waiting", "deaf"}
Row(k) ==
  /\ Client(k) \in byId <=> Client(k) \in Range(rows)
  /\ Client(k) \in byId => Sending(k) /\ Client(k) \in Range(waiting) /\ k \notin byId
RowsKept == \A k \in Sends : Row(k)

RowInv == TypeOK /\ Stored /\ OneAtATime /\ RowsKept

LEMMA RowInit == Init => RowInv
<1> SUFFICES ASSUME Init PROVE RowInv
  OBVIOUS
<1>1. TypeOK
  BY TypeInit
<1>2. Range(<<>>) = {}
  BY DEF Range
<1>3. \A k \in Sends : send[k] = "new"
  BY DEF Init
<1>4. thread = <<>> /\ events = {} /\ response = <<>> /\ cached = {} /\ rows = <<>> /\ byId = {}
  BY DEF Init
<1> QED
  BY <1>1, <1>2, <1>3, <1>4
     DEF RowInv, Stored, OneAtATime, Pending, RowsKept, Row

\* What leaves the sends, the thread and the store as they are, or stores a message
\* nobody typed here.
LEMMA RowsStay ==
  ASSUME RowInv, TypeOK',
         send' = send, sendPending' = sendPending, UNCHANGED <<rows, byId, waiting>>,
         Range(thread) \subseteq Range(thread'),
         \A k \in Sends : send[k] = "new" => k \notin Range(thread'),
         events' \subseteq Range(thread'), Range(response') \subseteq Range(thread'),
         \A shown \in cached' : Range(shown) \subseteq Range(thread')
  PROVE  RowInv'
<1>1. Stored'
  BY DEF RowInv, Stored
<1>2. OneAtATime' /\ RowsKept'
  BY DEF RowInv, OneAtATime, Pending, RowsKept, Row, Sending
<1> QED
  BY <1>1, <1>2 DEF RowInv

\* No other send is under way while a row is shown, so no other row is.
LEMMA OnlyRow ==
  ASSUME RowInv, NEW k \in Sends, NEW l \in Sends, Pending(k), Client(l) \in byId
  PROVE  l = k
BY DEF RowInv, OneAtATime, Pending, RowsKept, Row, Sending

\* message:new: a message of the user's own finds the row first in the queue.
LEMMA MessageNewKeepsRows ==
  ASSUME RowInv, TypeOK', NEW m \in Messages, MessageNew(m)
  PROVE  RowInv'
<1> USE DEF RowInv
<1>1. /\ m \in events /\ events' = events \ {m} /\ appendIncomingMessageIfNew(m)
      /\ response' = <<>> /\ thread' = thread /\ sendPending' = sendPending /\ cached' = cached
      /\ send' = [k \in Sends |-> IF send[k] = "acked" THEN "overtaken" ELSE send[k]]
  BY DEF MessageNew, mutate
<1>2. \A k \in Sends : (Pending(k)' <=> Pending(k)) /\ (Sending(k)' <=> Sending(k))
                       /\ (send'[k] = "new" <=> send[k] = "new")
  BY <1>1 DEF Pending, Sending
<1>3. m \in Range(thread) /\ waiting \in Seq(Clients) /\ Range(<<>>) = {}
  BY <1>1 DEF Stored, TypeOK, Clients, Range
<1>4. byId' \subseteq byId \cup {m}
  BY <1>1, IncomingFacts
<1>5. Stored'
  BY <1>1, <1>3, <1>4 DEF Stored
<1>6. OneAtATime'
  BY <1>1, <1>2 DEF OneAtATime
<1>7. ASSUME NEW k \in Sends PROVE Row(k)'
  <2>1. Row(k) /\ Client(k) # m /\ Client(k) \in Clients
    BY IdFacts DEF RowsKept
  <2>2. CASE UNCHANGED storeVars
    BY <1>2, <2>1, <2>2 DEF Row, storeVars
  <2>3. ASSUME NEW id \in Clients, id \in byId, byId' = (byId \ {id}) \cup {m},
               id \in Range(rows) => Range(rows') = (Range(rows) \ {id}) \cup {m}
        PROVE  Row(k)'
    <3>1. PICK j \in Sends : id = Client(j)
      BY DEF Clients
    <3>2. Row(j) /\ Pending(j)
      BY <2>3, <3>1 DEF RowsKept, Row, Sending, Pending
    <3>3. Range(rows') = (Range(rows) \ {id}) \cup {m}
      BY <2>3, <3>1, <3>2 DEF Row
    <3>4. Client(k) \in byId => k = j
      BY <3>2, OnlyRow
    <3>5. Client(k) \notin byId' /\ Client(k) \notin Range(rows')
      BY <2>1, <2>3, <3>1, <3>3, <3>4 DEF Row
    <3> QED
      BY <3>5 DEF Row
  <2>4. ASSUME ~Pairs(m), byId' = byId \cup {m}, Range(rows') = Range(rows) \cup {m},
               waiting' = IF m \in Own THEN Stripped ELSE waiting
        PROVE  Row(k)'
    <3>1. CASE m \notin Own
      <4>1. m # k /\ waiting' = waiting
        BY <2>4, <3>1, IdFacts
      <4> QED
        BY <1>2, <2>1, <2>4, <4>1 DEF Row
    <3>2. CASE m \in Own
      <4>1. Client(k) \notin byId
        <5> SUFFICES ASSUME Client(k) \in byId PROVE FALSE
          OBVIOUS
        <5>1. Client(k) \in Range(waiting)
          BY <2>1 DEF Row
        <5>2. Client(k) \in Range(Stripped)
          BY <1>3, <5>1, StrippedFacts
        <5>3. Stripped # <<>>
          BY <5>2 DEF Range
        <5>4. Head(Stripped) \in Clients /\ Head(Stripped) \in byId \cup Range(rows)
          BY <1>3, <5>3, StrippedFacts
        <5>5. PICK j \in Sends : Head(Stripped) = Client(j)
          BY <5>4 DEF Clients
        <5>6. Row(j)
          BY DEF RowsKept
        <5>7. Head(Stripped) \in byId
          BY <5>4, <5>5, <5>6 DEF Row
        <5> QED
          BY <2>4, <3>2, <5>3, <5>7 DEF Pairs
      <4>2. Client(k) \notin byId' /\ Client(k) \notin Range(rows')
        BY <2>1, <2>4, <4>1 DEF Row
      <4> QED
        BY <4>2 DEF Row
    <3> QED
      BY <3>1, <3>2
  <2> QED
    BY <1>1, <2>2, <2>3, <2>4, IncomingFacts
<1> QED
  BY <1>5, <1>6, <1>7 DEF RowsKept

\* A row appears: nothing else is under way, and its message is not stored yet.
LEMMA TypingKeepsRows ==
  ASSUME RowInv, TypeOK', NEW k \in Sends, appendMessageFromSend(k)
  PROVE  RowInv'
<1> USE DEF RowInv
<1>1. /\ send[k] = "new" /\ ~sendPending /\ send' = [send EXCEPT ![k] = "waiting"]
      /\ sendPending' = TRUE /\ byId' = byId \cup {Client(k)}
      /\ UNCHANGED <<thread, events, request, response, data, cached>>
  BY DEF appendMessageFromSend, serverVars, swrVars
<1>2. /\ Range(rows') = Range(rows) \cup {Client(k)}
      /\ Range(waiting') = Range(waiting) \cup {Client(k)}
  BY TypedFacts
<1>3. \A l \in Sends : send'[l] = IF l = k THEN "waiting" ELSE send[l]
  BY <1>1 DEF TypeOK
<1>4. Stored'
  BY <1>1, IdFacts DEF Stored
<1>5. \A l \in Sends : ~Pending(l) /\ (Pending(l)' => l = k)
  BY <1>1, <1>3 DEF OneAtATime, Pending
<1>6. OneAtATime'
  BY <1>1, <1>3, <1>5 DEF OneAtATime
<1>7. ASSUME NEW l \in Sends PROVE Row(l)'
  <2>1. CASE l = k
    <3>1. k \notin Range(thread) /\ k \notin byId /\ k # Client(k)
      BY <1>1, IdFacts DEF OneAtATime, Stored
    <3> QED
      BY <1>1, <1>2, <1>3, <2>1, <3>1 DEF Row, Sending
  <2>2. CASE l # k
    <3>1. Client(l) # Client(k) /\ Client(l) \notin byId /\ Client(l) \notin Range(rows)
      BY <1>5, <2>2, IdFacts DEF RowsKept, Row, Sending, Pending
    <3> QED
      BY <1>1, <1>2, <3>1 DEF Row
  <2> QED
    BY <2>1, <2>2
<1> QED
  BY <1>4, <1>6, <1>7 DEF RowsKept

\* The acknowledgement puts the message where the row was.
LEMMA AckKeepsRows ==
  ASSUME RowInv, TypeOK', NEW k \in Sends, replaceOptimisticMessage(k)
  PROVE  RowInv'
<1> USE DEF RowInv
<1>1. /\ send[k] = "waiting" /\ k \in Range(thread) /\ send' = [send EXCEPT ![k] = "acked"]
      /\ byId' = (byId \ {Client(k)}) \cup {k} /\ response' = <<>>
      /\ UNCHANGED <<thread, events, sendPending, data, cached>>
  BY DEF replaceOptimisticMessage, mutate, serverVars
<1>2. /\ Range(rows') = (Range(rows) \ {Client(k)}) \cup {k}
      /\ Range(waiting') = Range(waiting) \ {Client(k)}
  BY AckFacts
<1>3. \A l \in Sends : send'[l] = IF l = k THEN "acked" ELSE send[l]
  BY <1>1 DEF TypeOK
<1>4. Stored'
  BY <1>1 DEF Stored, Range
<1>5. Pending(k) /\ \A l \in Sends : Pending(l)' => Pending(l)
  BY <1>1, <1>3 DEF Pending
<1>6. OneAtATime'
  BY <1>1, <1>3, <1>5 DEF OneAtATime
<1>7. ASSUME NEW l \in Sends PROVE Row(l)'
  <2>1. Client(l) \in byId => l = k
    BY <1>5, OnlyRow
  <2>2. Client(l) # k /\ Row(l)
    BY IdFacts DEF RowsKept
  <2>3. Client(l) \notin byId' /\ Client(l) \notin Range(rows')
    BY <1>1, <1>2, <2>1, <2>2 DEF Row
  <2> QED
    BY <2>3 DEF Row
<1> QED
  BY <1>4, <1>6, <1>7 DEF RowsKept

\* An error takes the row away, whatever became of the message.
LEMMA RemovalKeepsRows ==
  ASSUME RowInv, TypeOK', NEW k \in Sends, removeOptimisticMessage(k)
  PROVE  RowInv'
<1> USE DEF RowInv
<1>1. /\ send[k] = "waiting" /\ send' = [send EXCEPT ![k] = "error"] /\ sendPending' = FALSE
      /\ byId' = byId \ {Client(k)}
      /\ UNCHANGED <<thread, events, request, response, data, cached>>
  BY DEF removeOptimisticMessage, serverVars, swrVars
<1>2. /\ Range(rows') = Range(rows) \ {Client(k)}
      /\ Range(waiting') = Range(waiting) \ {Client(k)}
  BY RemovalFacts
<1>3. \A l \in Sends : send'[l] = IF l = k THEN "error" ELSE send[l]
  BY <1>1 DEF TypeOK
<1>4. Stored'
  BY <1>1 DEF Stored
<1>5. Pending(k) /\ \A l \in Sends : ~Pending(l)'
  BY <1>1, <1>3 DEF OneAtATime, Pending
<1>6. OneAtATime'
  BY <1>1, <1>3, <1>5 DEF OneAtATime
<1>7. ASSUME NEW l \in Sends PROVE Row(l)'
  <2>1. Client(l) \in byId => l = k
    BY <1>5, OnlyRow
  <2>2. Client(l) \notin byId' /\ Client(l) \notin Range(rows')
    BY <1>1, <1>2, <2>1 DEF RowsKept, Row
  <2> QED
    BY <2>2 DEF Row
<1> QED
  BY <1>4, <1>6, <1>7 DEF RowsKept

\* A send that is over stops blocking the composer; its row went before.
LEMMA SettleKeepsRows ==
  ASSUME RowInv, TypeOK', NEW k \in Sends, Settle(k)
  PROVE  RowInv'
<1> USE DEF RowInv
<1>1. /\ send[k] \in {"overtaken", "acked"} /\ send' = [send EXCEPT ![k] = "ok"]
      /\ sendPending' = FALSE
      /\ UNCHANGED <<thread, events, request, response, data, cached, rows, byId, waiting>>
  BY DEF Settle, serverVars, swrVars, storeVars
<1>2. \A l \in Sends : send'[l] = IF l = k THEN "ok" ELSE send[l]
  BY <1>1 DEF TypeOK
<1>3. Stored'
  BY <1>1 DEF Stored
<1>4. Pending(k) /\ \A l \in Sends : ~Pending(l)'
  BY <1>1, <1>2 DEF OneAtATime, Pending
<1>5. OneAtATime'
  BY <1>1, <1>2, <1>4 DEF OneAtATime
<1>6. RowsKept'
  BY <1>1, <1>2 DEF RowsKept, Row, Sending
<1> QED
  BY <1>3, <1>5, <1>6

\* Between two connections a send keeps its row, which only the thread can resolve now.
LEMMA ReconnectKeepsRows ==
  ASSUME RowInv, TypeOK', NEW k \in Sends, Reconnect(k)
  PROVE  RowInv'
<1> USE DEF RowInv
<1>1. /\ send[k] = "waiting" /\ send' = [send EXCEPT ![k] = "deaf"]
      /\ UNCHANGED <<thread, events, sendPending, request, response, data, cached>>
      /\ UNCHANGED <<rows, byId, waiting>>
  BY DEF Reconnect, serverVars, swrVars, storeVars
<1>2. \A l \in Sends : send'[l] = IF l = k THEN "deaf" ELSE send[l]
  BY <1>1 DEF TypeOK
<1>3. Stored'
  BY <1>1 DEF Stored
<1>4. \A l \in Sends : (Pending(l)' <=> Pending(l)) /\ (Sending(l)' <=> Sending(l))
  BY <1>1, <1>2 DEF Pending, Sending
<1>5. OneAtATime'
  BY <1>1, <1>2, <1>4 DEF OneAtATime
<1>6. RowsKept'
  BY <1>1, <1>4 DEF RowsKept, Row
<1> QED
  BY <1>3, <1>5, <1>6

\* A page has no optimistic row, and the effect drops those of the store with the list.
LEMMA PageKeepsRows ==
  ASSUME RowInv, TypeOK', hydrateMessagesFromFetch
  PROVE  RowInv'
<1> USE DEF RowInv
<1>1. /\ cached' = {} /\ waiting' = <<>>
      /\ UNCHANGED <<thread, events, send, sendPending, request, response, data>>
  BY DEF hydrateMessagesFromFetch, serverVars
<1>2. PICK shown \in cached : /\ shown \in Seq(Messages) /\ rows' = shown
                              /\ byId' = (byId \ Range(rows)) \cup Range(shown)
  BY PageFacts
<1>3. Range(shown) \subseteq Messages /\ Range(shown) \subseteq Range(thread)
  BY <1>2, RangeOfTyped DEF Stored
<1>4. Stored'
  BY <1>1, <1>2, <1>3 DEF Stored
<1>5. OneAtATime'
  BY <1>1 DEF OneAtATime, Pending
<1>6. ASSUME NEW k \in Sends PROVE Row(k)'
  <2>1. Client(k) \notin byId' /\ Client(k) \notin Range(rows')
    BY <1>2, <1>3, IdFacts DEF RowsKept, Row
  <2> QED
    BY <2>1 DEF Row
<1> QED
  BY <1>4, <1>5, <1>6 DEF RowsKept

LEMMA RowNext == RowInv /\ [Next]_vars => RowInv'
<1> SUFFICES ASSUME RowInv, [Next]_vars PROVE RowInv'
  OBVIOUS
<1> USE DEF RowInv
<1>1. TypeOK'
  BY TypeNext
<1>2. thread \in Seq(Messages) /\ \A m \in Messages : Range(Append(thread, m)) = Range(thread) \cup {m}
  BY RangeAppend DEF TypeOK
<1>3. ASSUME NEW m \in Elsewhere \cup Theirs, StoreOther(m) PROVE RowInv'
  <2>1. m \in Messages /\ m \notin Sends
    BY IdsAssumption DEF Messages
  <2>2. /\ Range(thread') = Range(thread) \cup {m} /\ events' \subseteq events \cup {m}
        /\ UNCHANGED <<send, sendPending, request, response, data, cached, rows, byId, waiting>>
    BY <1>2, <1>3, <2>1 DEF StoreOther, swrVars, storeVars
  <2> QED
    BY <1>1, <2>1, <2>2, RowsStay DEF Stored, OneAtATime
<1>4. ASSUME NEW m \in Messages, MessageNew(m) PROVE RowInv'
  BY <1>1, <1>4, MessageNewKeepsRows
<1>5. ASSUME NEW k \in Sends, appendMessageFromSend(k) PROVE RowInv'
  BY <1>1, <1>5, TypingKeepsRows
<1>6. ASSUME NEW k \in Sends, StoreSend(k) PROVE RowInv'
  <2>1. /\ Range(thread') = Range(thread) \cup {k} /\ send[k] # "new"
        /\ UNCHANGED <<events, send, sendPending, request, response, data, cached, rows, byId, waiting>>
    BY <1>2, <1>6, IdFacts DEF StoreSend, swrVars, storeVars
  <2> QED
    BY <1>1, <2>1, RowsStay DEF Stored, OneAtATime
<1>7. ASSUME NEW k \in Sends, Reconnect(k) PROVE RowInv'
  BY <1>1, <1>7, ReconnectKeepsRows
<1>8. ASSUME NEW k \in Sends, Echo(k) PROVE RowInv'
  <2>1. /\ k \in Range(thread) /\ events' = events \cup {k}
        /\ UNCHANGED <<thread, send, sendPending, request, response, data, cached, rows, byId, waiting>>
    BY <1>8 DEF Echo, swrVars, storeVars
  <2> QED
    BY <1>1, <2>1, RowsStay DEF Stored, OneAtATime
<1>9. ASSUME NEW k \in Sends, replaceOptimisticMessage(k) PROVE RowInv'
  BY <1>1, <1>9, AckKeepsRows
<1>10. ASSUME NEW k \in Sends, Settle(k) PROVE RowInv'
  BY <1>1, <1>10, SettleKeepsRows
<1>11. ASSUME NEW k \in Sends, removeOptimisticMessage(k) PROVE RowInv'
  BY <1>1, <1>11, RemovalKeepsRows
<1>12. CASE Answer
  <2>1. /\ response' = thread
        /\ UNCHANGED <<thread, events, send, sendPending, cached, rows, byId, waiting>>
    BY <1>12 DEF Answer, serverVars, storeVars
  <2> QED
    BY <1>1, <2>1, RowsStay DEF Stored, OneAtATime
<1>13. CASE Resolve
  <2>1. /\ response' = <<>> /\ (cached' = cached \/ cached' = {response})
        /\ UNCHANGED <<thread, events, send, sendPending, rows, byId, waiting>>
    BY <1>13 DEF Resolve, serverVars, storeVars
  <2>2. Range(response') = {}
    BY <2>1 DEF Range
  <2> QED
    BY <1>1, <2>1, <2>2, RowsStay DEF Stored, OneAtATime
<1>14. CASE hydrateMessagesFromFetch
  BY <1>1, <1>14, PageKeepsRows
<1>15. CASE UNCHANGED vars
  <2>1. UNCHANGED <<thread, events, send, sendPending, response, cached, rows, byId, waiting>>
    BY <1>15 DEF vars, serverVars, swrVars, storeVars
  <2> QED
    BY <1>1, <2>1, RowsStay DEF Stored, OneAtATime
<1> QED
  BY <1>3, <1>4, <1>5, <1>6, <1>7, <1>8, <1>9, <1>10, <1>11, <1>12, <1>13, <1>14, <1>15 DEF Next

LEMMA RowsHold == Spec => []RowInv
<1>1. Init => RowInv
  BY RowInit
<1>2. RowInv /\ [Next]_vars => RowInv'
  BY RowNext
<1> QED
  BY <1>1, <1>2, PTL DEF Spec

LEMMA RowsMean == RowInv => OwnSendShownOnce /\ NoPhantomSending
BY DEF RowInv, RowsKept, Row, Sending, OwnSendShownOnce, NoPhantomSending

\* A send is not on the screen twice, however its acknowledgement, its echo and the
\* fetches race (messagingSlice.ts, the pairing of appendIncomingMessageIfNew).
THEOREM SendsShownOnce == Spec => []OwnSendShownOnce
BY RowsHold, RowsMean, PTL

\* A row that says "sending" goes with the send, whoever ends it (useSendMessage.ts).
THEOREM SendingIsMeant == Spec => []NoPhantomSending
BY RowsHold, RowsMean, PTL

-----------------------------------------------------------------------------
(* What was shown comes back.                                              *)

\* The answers SWR accepts grow: a request that is answered was read after the data
\* SWR holds, the page to be rendered is that data, and rendered data is shown.
Fetched ==
  /\ cached \subseteq {data}
  /\ data # None => /\ Range(data) \subseteq Range(thread)
                    /\ request = "answered" => Range(data) \subseteq Range(response)
                    /\ cached = {} => Range(data) \subseteq byId

\* A request will read the message, an answer under way has it, or the data has it and
\* is shown or about to be.
Awaited(m) ==
  \/ request = "started" /\ m \in Range(thread)
  \/ request = "answered" /\ m \in Range(response)
  \/ data # None /\ m \in Range(data)

ShownInv == RowInv /\ Fetched /\ \A m \in Messages : m \in byId => Awaited(m)

\* No message is given up, and one that appears will not be.
FetchKept ==
  \A m \in Messages : /\ Awaited(m) => Awaited(m)'
                      /\ m \in byId' => m \in byId \/ Awaited(m)'

\* A step of the server or of a send, as SWR sees it.
LEMMA FetchStays ==
  ASSUME RowInv, Fetched, UNCHANGED <<request, response, data, cached>>,
         Range(thread) \subseteq Range(thread'), byId \cap Messages = byId' \cap Messages
  PROVE  Fetched' /\ FetchKept
<1>1. \A m \in Messages : (Awaited(m) => Awaited(m)') /\ (m \in byId' => m \in byId)
  BY DEF Awaited
<1>2. data # None => Range(data) \subseteq Messages
  BY RangeOfTyped DEF RowInv, TypeOK
<1>3. Fetched'
  BY <1>2 DEF Fetched
<1> QED
  BY <1>1, <1>3 DEF FetchKept

\* mutate: a message that comes with it is stored, so the new request will read it.
LEMMA MutationFetches ==
  ASSUME RowInv, Fetched, mutate, UNCHANGED <<thread, data, cached>>,
         NEW m \in Messages, m \in Range(thread),
         byId \cap Messages \subseteq byId', byId' \cap Messages \subseteq byId \cup {m}
  PROVE  Fetched' /\ FetchKept
<1>1. request' = "started" /\ Range(response) \subseteq Range(thread)
  BY DEF mutate, RowInv, Stored
<1>2. \A x \in Messages : Awaited(x) => Awaited(x)'
  BY <1>1 DEF Awaited
<1>3. \A x \in Messages : x \in byId' => x \in byId \/ Awaited(x)'
  BY <1>1 DEF Awaited
<1>4. data # None => Range(data) \subseteq Messages
  BY RangeOfTyped DEF RowInv, TypeOK
<1>5. Fetched'
  BY <1>1, <1>4 DEF Fetched
<1> QED
  BY <1>2, <1>3, <1>5 DEF FetchKept

\* A thread is data, None is not.
LEMMA DataIsLoaded == \A s \in Seq(Messages) : s # None
BY IdsAssumption DEF Messages

LEMMA FetchNext ==
  ASSUME RowInv, Fetched, [Next]_vars
  PROVE  Fetched' /\ FetchKept
<1>1. TypeOK /\ Stored /\ \A m \in Messages : Range(Append(thread, m)) = Range(thread) \cup {m}
  BY RangeAppend DEF RowInv, TypeOK
<1>2. CASE /\ UNCHANGED <<request, response, data, cached>>
           /\ Range(thread) \subseteq Range(thread') /\ byId \cap Messages = byId' \cap Messages
  BY <1>2, FetchStays
<1>3. ASSUME NEW m \in Elsewhere \cup Theirs, StoreOther(m) PROVE Fetched' /\ FetchKept
  BY <1>1, <1>2, <1>3 DEF StoreOther, swrVars, storeVars, Messages
<1>4. ASSUME NEW k \in Sends, StoreSend(k) PROVE Fetched' /\ FetchKept
  BY <1>1, <1>2, <1>4 DEF StoreSend, swrVars, storeVars, Messages
<1>5. ASSUME NEW k \in Sends, Reconnect(k) \/ Echo(k) \/ Settle(k) PROVE Fetched' /\ FetchKept
  BY <1>2, <1>5 DEF Reconnect, Echo, Settle, serverVars, swrVars, storeVars
<1>6. ASSUME NEW k \in Sends, appendMessageFromSend(k) \/ removeOptimisticMessage(k) PROVE Fetched' /\ FetchKept
  <2>1. byId' \in {byId \cup {Client(k)}, byId \ {Client(k)}}
    BY <1>6 DEF appendMessageFromSend, removeOptimisticMessage
  <2>2. UNCHANGED <<thread, request, response, data, cached>>
    BY <1>6 DEF appendMessageFromSend, removeOptimisticMessage, serverVars, swrVars
  <2> QED
    BY <1>2, <2>1, <2>2, IdFacts
<1>7. ASSUME NEW m \in Messages, MessageNew(m) PROVE Fetched' /\ FetchKept
  <2>1. mutate /\ UNCHANGED <<thread, data, cached>> /\ m \in Range(thread)
    BY <1>1, <1>7 DEF MessageNew, Stored
  <2>2. byId' \subseteq byId \cup {m} /\ byId \cap Messages \subseteq byId'
    <3>1. appendIncomingMessageIfNew(m)
      BY <1>7 DEF MessageNew
    <3>2. byId' = byId \/ byId' = byId \cup {m} \/ \E id \in Clients : byId' = (byId \ {id}) \cup {m}
      BY <1>1, <3>1, IncomingFacts DEF storeVars
    <3> QED
      BY <3>2, IdFacts
  <2> QED
    BY <2>1, <2>2, MutationFetches
<1>8. ASSUME NEW k \in Sends, replaceOptimisticMessage(k) PROVE Fetched' /\ FetchKept
  <2>1. /\ mutate /\ UNCHANGED <<thread, data, cached>> /\ k \in Range(thread)
        /\ byId' = (byId \ {Client(k)}) \cup {k}
    BY <1>8 DEF replaceOptimisticMessage, serverVars
  <2>2. k \in Messages /\ byId \cap Messages \subseteq byId' /\ byId' \subseteq byId \cup {k}
    BY <2>1, IdFacts
  <2> QED
    BY <2>1, <2>2, MutationFetches
<1>9. CASE Answer
  <2>1. /\ request = "started" /\ request' = "answered" /\ response' = thread
        /\ UNCHANGED <<thread, data, cached, byId>>
    BY <1>9 DEF Answer, serverVars, storeVars
  <2> QED
    BY <2>1 DEF Fetched, Awaited, FetchKept
<1>10. CASE Resolve
  <2>1. request = "answered" /\ UNCHANGED <<thread, byId>> /\ Range(response) \subseteq Range(thread)
    BY <1>1, <1>10 DEF Resolve, serverVars, storeVars, Stored
  <2>2. CASE request' = "started" /\ UNCHANGED <<data, cached>>
    BY <2>1, <2>2 DEF Fetched, Awaited, FetchKept
  <2>3. CASE /\ request' = "idle" /\ data' = response
             /\ cached' = IF response = data THEN cached ELSE {response}
    <3>1. response # None
      BY <1>1, DataIsLoaded DEF TypeOK
    <3>2. Fetched'
      BY <2>1, <2>3, <3>1 DEF Fetched
    <3>3. \A m \in Messages : Awaited(m) => Awaited(m)'
      BY <2>1, <2>3, <3>1 DEF Fetched, Awaited
    <3> QED
      BY <2>1, <3>2, <3>3 DEF FetchKept
  <2> QED
    BY <1>10, <2>2, <2>3 DEF Resolve
<1>11. CASE hydrateMessagesFromFetch
  <2>1. PICK shown \in cached : /\ shown \in Seq(Messages) /\ rows' = shown
                                /\ byId' = (byId \ Range(rows)) \cup Range(shown)
    BY <1>1, <1>11, PageFacts
  <2>2. UNCHANGED <<thread, request, response, data>> /\ cached' = {}
    BY <1>11 DEF hydrateMessagesFromFetch, serverVars
  <2>3. shown = data /\ data # None
    BY <2>1, DataIsLoaded DEF Fetched
  <2> QED
    BY <2>1, <2>2, <2>3 DEF Fetched, Awaited, FetchKept
<1>12. CASE UNCHANGED vars
  BY <1>2, <1>12 DEF vars, serverVars, swrVars, storeVars
<1> QED
  BY <1>3, <1>4, <1>5, <1>6, <1>7, <1>8, <1>9, <1>10, <1>11, <1>12 DEF Next

LEMMA ShownHolds == Spec => []ShownInv
<1>1. Init => ShownInv
  BY RowInit DEF Init, ShownInv, Fetched
<1>2. ShownInv /\ [Next]_vars => ShownInv'
  BY RowNext, FetchNext DEF ShownInv, FetchKept
<1> QED
  BY <1>1, <1>2, PTL DEF Spec

\* Once a message has been shown, it is shown or on its way back at any later time: a
\* page that was read before it was stored may take it off the screen, but a request, an
\* answer or newer data that has it follows (useConversation.ts, mutate after each event).
\* That the request is answered is the fairness of ShownStays.
THEOREM ShownIsAwaited ==
  ASSUME NEW m \in Messages
  PROVE  Spec => [](m \in byId => []Awaited(m))
<1>1. ShownInv /\ m \in byId => Awaited(m)
  BY DEF ShownInv
<1>2. ShownInv /\ [Next]_vars /\ Awaited(m) => Awaited(m)'
  BY FetchNext DEF ShownInv, FetchKept
<1> QED
  BY <1>1, <1>2, ShownHolds, PTL DEF Spec
=============================================================================
