--------------------------- MODULE SequenceLemmas ---------------------------
(***************************************************************************)
(* Facts about sequences that the proofs of several components rest on:    *)
(* the elements a queue or channel holds after it is appended to, consumed *)
(* or put together with another, and when it stays ascending or free of    *)
(* repetition.                                                             *)
(***************************************************************************)
EXTENDS Naturals, SequencesExt, WellFoundedInduction, TLAPS

-----------------------------------------------------------------------------
(* Types and elements.                                                     *)

\* A sequence over a set is one over any larger set (sends are requests, and the
\* stored messages only grow).
LEMMA SeqMonotone ==
    ASSUME NEW S, NEW T, S \subseteq T
    PROVE  Seq(S) \subseteq Seq(T)
OBVIOUS

\* The elements of a sequence come from its set (the inbox of a connection).
LEMMA RangeOfTyped ==
    ASSUME NEW S, NEW s \in Seq(S)
    PROVE  Range(s) \subseteq S
BY DEF Range

\* One message that is posted, one request that is emitted.
LEMMA Singleton ==
    ASSUME NEW S, NEW x \in S
    PROVE  <<x>> \in Seq(S) /\ Range(<<x>>) = {x}
BY DEF Range

\* What a queue holds after an entry is put in it (publishMessage, postMessage).
LEMMA RangeAppend ==
    ASSUME NEW S, NEW s \in Seq(S), NEW e \in S
    PROVE  Range(Append(s, e)) = Range(s) \cup {e}
<1>1. \A x \in Range(s) : x \in Range(Append(s, e))
  BY DEF Range
<1>2. e \in Range(Append(s, e))
  <2>1. Append(s, e)[Len(s) + 1] = e /\ Len(s) + 1 \in DOMAIN Append(s, e)
    OBVIOUS
  <2> QED
    BY <2>1 DEF Range
<1>3. \A x \in Range(Append(s, e)) : x \in Range(s) \cup {e}
  BY DEF Range
<1> QED
  BY <1>1, <1>2, <1>3

\* ... and after several are (a redelivery, flushPendingMessageSends).
LEMMA RangeConcat ==
    ASSUME NEW S, NEW s \in Seq(S), NEW t \in Seq(S)
    PROVE  Range(s \o t) = Range(s) \cup Range(t)
<1>1. \A x \in Range(s) : x \in Range(s \o t)
  BY DEF Range
<1>2. \A x \in Range(t) : x \in Range(s \o t)
  <2> SUFFICES ASSUME NEW i \in DOMAIN t
               PROVE  t[i] \in Range(s \o t)
    BY DEF Range
  <2>1. (s \o t)[Len(s) + i] = t[i] /\ Len(s) + i \in DOMAIN (s \o t)
    OBVIOUS
  <2> QED
    BY <2>1 DEF Range
<1>3. \A x \in Range(s \o t) : x \in Range(s) \cup Range(t)
  <2> SUFFICES ASSUME NEW i \in DOMAIN (s \o t)
               PROVE  (s \o t)[i] \in Range(s) \cup Range(t)
    BY DEF Range
  <2>1. CASE i <= Len(s)
    BY <2>1 DEF Range
  <2>2. CASE i > Len(s)
    <3>1. (s \o t)[i] = t[i - Len(s)] /\ i - Len(s) \in DOMAIN t
      BY <2>2
    <3> QED
      BY <3>1 DEF Range
  <2> QED
    BY <2>1, <2>2
<1> QED
  BY <1>1, <1>2, <1>3

\* Handling the first message leaves a part of the queue ...
LEMMA RangeTail ==
    ASSUME NEW S, NEW s \in Seq(S), s # <<>>
    PROVE  Range(Tail(s)) \subseteq Range(s) /\ Head(s) \in Range(s) /\ Head(s) \in S
BY DEF Range

\* ... and all the rest of it.
LEMMA RangeHeadTail ==
    ASSUME NEW S, NEW s \in Seq(S), s # <<>>
    PROVE  \A x \in Range(s) : x = Head(s) \/ x \in Range(Tail(s))
<1> SUFFICES ASSUME NEW i \in DOMAIN s, i # 1
             PROVE  s[i] \in Range(Tail(s))
    BY DEF Range
<1>1. i - 1 \in DOMAIN Tail(s) /\ Tail(s)[i - 1] = s[i]
  OBVIOUS
<1> QED
  BY <1>1 DEF Range

\* One element of several is taken: a delivery is settled, a held send expires.
LEMMA RemoveAtFacts ==
    ASSUME NEW S, NEW s \in Seq(S), NEW i \in DOMAIN s
    PROVE  /\ RemoveAt(s, i) \in Seq(S)
           /\ Len(RemoveAt(s, i)) = Len(s) - 1
           /\ \A j \in 1..(Len(s) - 1) :
                 RemoveAt(s, i)[j] = IF j < i THEN s[j] ELSE s[j + 1]
<1> DEFINE a == SubSeq(s, 1, i - 1)
           b == SubSeq(s, i + 1, Len(s))
<1>1. a \in Seq(S) /\ Len(a) = i - 1 /\ \A j \in 1..(i - 1) : a[j] = s[j]
  OBVIOUS
<1>2. b \in Seq(S) /\ Len(b) = Len(s) - i /\ \A j \in 1..(Len(s) - i) : b[j] = s[i + j]
  OBVIOUS
<1>3. RemoveAt(s, i) = a \o b
  BY DEF RemoveAt
<1> HIDE DEF a, b
<1>4. /\ a \o b \in Seq(S) /\ Len(a \o b) = Len(a) + Len(b)
      /\ \A j \in 1..(Len(a) + Len(b)) : (a \o b)[j] = IF j <= Len(a) THEN a[j] ELSE b[j - Len(a)]
  BY <1>1, <1>2
<1>5. Len(a) + Len(b) = Len(s) - 1
  BY <1>1, <1>2
<1>6. ASSUME NEW j \in 1..(Len(s) - 1)
      PROVE  (a \o b)[j] = IF j < i THEN s[j] ELSE s[j + 1]
  <2>0. /\ j \in 1..(Len(a) + Len(b)) /\ Len(a) = i - 1 /\ i \in 1..Len(s)
        /\ (a \o b)[j] = IF j <= i - 1 THEN a[j] ELSE b[j - (i - 1)]
    BY <1>1, <1>4, <1>5, SMTT(30)
  <2>1. CASE j < i
    <3>1. j \in 1..(i - 1) /\ j <= i - 1
      BY <2>0, <2>1
    <3> QED
      BY <1>1, <2>0, <2>1, <3>1
  <2>2. CASE ~(j < i)
    <3>1. j - (i - 1) \in 1..(Len(s) - i) /\ ~(j <= i - 1) /\ i + (j - (i - 1)) = j + 1
      BY <2>0, <2>2, SMTT(30)
    <3>2. b[j - (i - 1)] = s[i + (j - (i - 1))]
      BY <1>2, <3>1
    <3>3. b[j - (i - 1)] = s[j + 1]
      BY <3>1, <3>2
    <3> QED
      BY <2>0, <2>2, <3>1, <3>3
  <2> QED
    BY <2>1, <2>2
<1> QED
  BY <1>3, <1>4, <1>5, <1>6

-----------------------------------------------------------------------------
(* Ascending sequences.                                                    *)

Sorted(s) == \A i, j \in DOMAIN s : i < j => s[i] < s[j]
Before(X, Y) == \A x \in X, y \in Y : x < y

\* An ascending sequence stays one when a larger element, or a sequence of
\* larger elements, is put after it, and when an element is taken out.
LEMMA SortedAppend ==
    ASSUME NEW s \in Seq(Nat), NEW x \in Nat, Sorted(s), \A y \in Range(s) : y < x
    PROVE  Sorted(Append(s, x))
<1> SUFFICES ASSUME NEW i \in DOMAIN Append(s, x), NEW j \in DOMAIN Append(s, x), i < j
             PROVE  Append(s, x)[i] < Append(s, x)[j]
    BY DEF Sorted
<1>1. i \in DOMAIN s /\ s[i] \in Range(s) /\ Append(s, x)[i] = s[i]
  BY DEF Range
<1>2. CASE j \in DOMAIN s
  BY <1>1, <1>2 DEF Sorted
<1>3. CASE j = Len(s) + 1
  BY <1>1, <1>3
<1> QED
  BY <1>2, <1>3

\* The same for a flushed queue.
LEMMA SortedConcat ==
    ASSUME NEW s \in Seq(Nat), NEW t \in Seq(Nat), Sorted(s), Sorted(t), Before(Range(s), Range(t))
    PROVE  Sorted(s \o t)
<1> SUFFICES ASSUME NEW i \in DOMAIN (s \o t), NEW j \in DOMAIN (s \o t), i < j
             PROVE  (s \o t)[i] < (s \o t)[j]
    BY DEF Sorted
<1>1. CASE j <= Len(s)
  BY <1>1 DEF Sorted
<1>2. CASE i <= Len(s) /\ j > Len(s)
  <2>1. s[i] \in Range(s) /\ (s \o t)[i] = s[i]
    BY <1>2 DEF Range
  <2>2. t[j - Len(s)] \in Range(t) /\ (s \o t)[j] = t[j - Len(s)]
    BY <1>2 DEF Range
  <2> QED
    BY <2>1, <2>2 DEF Before
<1>3. CASE i > Len(s)
  <2>1. i - Len(s) \in DOMAIN t /\ j - Len(s) \in DOMAIN t /\ i - Len(s) < j - Len(s)
    BY <1>3
  <2>2. (s \o t)[i] = t[i - Len(s)] /\ (s \o t)[j] = t[j - Len(s)]
    BY <1>3
  <2> QED
    BY <2>1, <2>2 DEF Sorted
<1> QED
  BY <1>1, <1>2, <1>3

\* The same for a queue the timer of the worker shortened.
LEMMA SortedRemoveAt ==
    ASSUME NEW s \in Seq(Nat), NEW i \in DOMAIN s, Sorted(s)
    PROVE  /\ Sorted(RemoveAt(s, i))
           /\ Range(RemoveAt(s, i)) \subseteq Range(s) \ {s[i]}
<1> DEFINE w == RemoveAt(s, i)
<1>1. /\ w \in Seq(Nat) /\ DOMAIN w = 1..(Len(s) - 1)
      /\ \A j \in 1..(Len(s) - 1) : w[j] = IF j < i THEN s[j] ELSE s[j + 1]
  <2>1. /\ w \in Seq(Nat) /\ Len(w) = Len(s) - 1
        /\ \A j \in 1..(Len(s) - 1) : w[j] = IF j < i THEN s[j] ELSE s[j + 1]
    BY RemoveAtFacts
  <2> HIDE DEF w
  <2> QED
    BY <2>1
<1> DEFINE from(j) == IF j < i THEN j ELSE j + 1
<1>2. ASSUME NEW j \in DOMAIN w
      PROVE  from(j) \in DOMAIN s /\ from(j) # i /\ w[j] = s[from(j)]
  <2> HIDE DEF w
  <2>1. j \in 1..(Len(s) - 1) /\ w[j] = IF j < i THEN s[j] ELSE s[j + 1]
    BY <1>1, <1>2
  <2>2. CASE j < i
    BY <2>1, <2>2
  <2>3. CASE ~(j < i)
    BY <2>1, <2>3
  <2> QED
    BY <2>2, <2>3
<1>3. ASSUME NEW j \in DOMAIN w, NEW k \in DOMAIN w, j < k
      PROVE  from(j) < from(k)
  BY <1>1, <1>3, SMTT(30)
<1> HIDE DEF w, from
<1>4. Sorted(w)
  BY <1>2, <1>3 DEF Sorted
<1>5. ASSUME NEW j \in DOMAIN s, j # i
      PROVE  s[j] # s[i]
  <2>1. s[i] \in Nat /\ s[j] \in Nat /\ i \in Nat /\ j \in Nat
    OBVIOUS
  <2>2. CASE j < i
    BY <2>1, <2>2 DEF Sorted
  <2>3. CASE i < j
    BY <2>1, <2>3 DEF Sorted
  <2> QED
    BY <1>5, <2>1, <2>2, <2>3
<1>6. Range(w) \subseteq Range(s) \ {s[i]}
  BY <1>2, <1>5 DEF Range
<1> QED
  BY <1>4, <1>6 DEF w

-----------------------------------------------------------------------------
(* Sequences without repetition.                                           *)

Distinct(s) == \A i, j \in DOMAIN s : s[i] = s[j] => i = j

\* A queue gets a copy it does not hold.
LEMMA DistinctAppend ==
    ASSUME NEW S, NEW s \in Seq(S), NEW e \in S, Distinct(s), e \notin Range(s)
    PROVE  Distinct(Append(s, e))
<1> SUFFICES ASSUME NEW i \in DOMAIN Append(s, e), NEW j \in DOMAIN Append(s, e),
                    Append(s, e)[i] = Append(s, e)[j]
             PROVE  i = j
    BY DEF Distinct
<1>1. \A k \in DOMAIN s : k \in 1..Len(s) /\ Append(s, e)[k] = s[k] /\ s[k] # e
  BY DEF Range
<1>2. Append(s, e)[Len(s) + 1] = e /\ DOMAIN Append(s, e) = 1..(Len(s) + 1)
  OBVIOUS
<1>3. CASE i \in DOMAIN s /\ j \in DOMAIN s
  BY <1>1, <1>3 DEF Distinct
<1>4. CASE ~(i \in DOMAIN s /\ j \in DOMAIN s)
  <2>1. \A k \in DOMAIN Append(s, e) : k \in DOMAIN s \/ k = Len(s) + 1
    BY <1>2
  <2> QED
    BY <1>1, <1>2, <1>4, <2>1
<1> QED
  BY <1>3, <1>4

\* The head of a queue is taken: it is not in the rest.
LEMMA DistinctTail ==
    ASSUME NEW S, NEW s \in Seq(S), s # <<>>, Distinct(s)
    PROVE  /\ Distinct(Tail(s))
           /\ Head(s) \notin Range(Tail(s))
           /\ Range(Tail(s)) \subseteq Range(s)
           /\ Head(s) \in Range(s)
<1>1. ASSUME NEW i \in DOMAIN Tail(s)
      PROVE  i \in Nat \ {0} /\ i + 1 \in DOMAIN s /\ Tail(s)[i] = s[i + 1]
  OBVIOUS
<1>2. 1 \in DOMAIN s /\ Head(s) = s[1]
  OBVIOUS
<1>3. Distinct(Tail(s))
  <2> SUFFICES ASSUME NEW i \in DOMAIN Tail(s), NEW j \in DOMAIN Tail(s),
                      Tail(s)[i] = Tail(s)[j]
               PROVE  i = j
      BY DEF Distinct
  <2>1. i + 1 = j + 1
    BY <1>1 DEF Distinct
  <2> QED
    BY <1>1, <2>1
<1>4. \A i \in DOMAIN Tail(s) : Tail(s)[i] # Head(s)
  BY <1>1, <1>2 DEF Distinct
<1> QED
  BY <1>1, <1>2, <1>3, <1>4 DEF Range

\* One task of several is settled.
LEMMA DistinctRemoveAt ==
    ASSUME NEW S, NEW s \in Seq(S), NEW i \in DOMAIN s, Distinct(s)
    PROVE  Distinct(RemoveAt(s, i)) /\ Range(RemoveAt(s, i)) \subseteq Range(s)
<1> DEFINE w == RemoveAt(s, i)
<1>0. /\ w \in Seq(S) /\ Len(w) = Len(s) - 1
      /\ \A j \in 1..(Len(s) - 1) : w[j] = IF j < i THEN s[j] ELSE s[j + 1]
  BY RemoveAtFacts
<1> HIDE DEF w
<1>1. ASSUME NEW k \in DOMAIN w
      PROVE  /\ k \in Nat
             /\ k < i => k \in DOMAIN s /\ w[k] = s[k]
             /\ k >= i => k + 1 \in DOMAIN s /\ w[k] = s[k + 1]
  <2>1. k \in 1..(Len(s) - 1) /\ DOMAIN s = 1..Len(s) /\ i \in 1..Len(s)
    BY <1>0, <1>1
  <2>2. CASE k < i
    BY <1>0, <2>1, <2>2
  <2>3. CASE k >= i
    BY <1>0, <2>1, <2>3
  <2> QED
    BY <2>1, <2>2, <2>3
<1>2. i \in Nat
  OBVIOUS
<1>3. Distinct(w)
  <2> SUFFICES ASSUME NEW j \in DOMAIN w, NEW k \in DOMAIN w, w[j] = w[k]
               PROVE  j = k
      BY DEF Distinct
  <2>1. CASE j < i /\ k < i
    BY <1>1, <2>1 DEF Distinct
  <2>2. CASE j < i /\ k >= i
    <3>1. j = k + 1
      BY <1>1, <2>2 DEF Distinct
    <3> QED
      BY <1>1, <1>2, <2>2, <3>1
  <2>3. CASE j >= i /\ k < i
    <3>1. k = j + 1
      BY <1>1, <2>3 DEF Distinct
    <3> QED
      BY <1>1, <1>2, <2>3, <3>1
  <2>4. CASE j >= i /\ k >= i
    <3>1. j + 1 = k + 1
      BY <1>1, <2>4 DEF Distinct
    <3> QED
      BY <1>1, <3>1
  <2> QED
    BY <1>1, <1>2, <2>1, <2>2, <2>3, <2>4
<1>4. Range(w) \subseteq Range(s)
  <2> SUFFICES ASSUME NEW k \in DOMAIN w
               PROVE  w[k] \in Range(s)
      BY DEF Range
  <2>1. k < i \/ k >= i
    BY <1>1, <1>2
  <2> QED
    BY <1>1, <2>1 DEF Range
<1> QED
  BY <1>3, <1>4 DEF w

\* Unacknowledged deliveries are put back in front of the queue.
LEMMA DistinctConcat ==
    ASSUME NEW S, NEW s \in Seq(S), NEW t \in Seq(S), Distinct(s), Distinct(t),
           Range(s) \cap Range(t) = {}
    PROVE  Distinct(s \o t) /\ Range(s \o t) = Range(s) \cup Range(t)
<1> DEFINE w == s \o t
           n == Len(s)
<1>1. /\ n \in Nat
      /\ \A k \in DOMAIN s : k \in DOMAIN w /\ w[k] = s[k] /\ s[k] \in Range(s)
      /\ \A k \in DOMAIN t : k + n \in DOMAIN w /\ w[k + n] = t[k] /\ t[k] \in Range(t)
  BY DEF Range
<1>2. ASSUME NEW k \in DOMAIN w
      PROVE  /\ k \in Nat
             /\ k <= n => k \in DOMAIN s /\ w[k] = s[k]
             /\ k > n => k - n \in DOMAIN t /\ w[k] = t[k - n]
  OBVIOUS
<1> HIDE DEF w, n
<1>3. Distinct(w)
  <2> SUFFICES ASSUME NEW j \in DOMAIN w, NEW k \in DOMAIN w, w[j] = w[k]
               PROVE  j = k
      BY DEF Distinct
  <2>1. CASE j <= n /\ k <= n
    BY <1>2, <2>1 DEF Distinct
  <2>2. CASE j > n /\ k > n
    <3>1. j - n = k - n
      BY <1>2, <2>2 DEF Distinct
    <3> QED
      BY <1>1, <1>2, <3>1
  <2>3. CASE (j <= n /\ k > n) \/ (j > n /\ k <= n)
    BY <1>1, <1>2, <2>3
  <2> QED
    BY <1>1, <1>2, <2>1, <2>2, <2>3
<1>4. \A k \in DOMAIN w : w[k] \in Range(s) \cup Range(t)
  <2> SUFFICES ASSUME NEW k \in DOMAIN w
               PROVE  w[k] \in Range(s) \cup Range(t)
      OBVIOUS
  <2>1. k <= n \/ k > n
    BY <1>1, <1>2
  <2> QED
    BY <1>1, <1>2, <2>1
<1>5. Range(w) \subseteq Range(s) \cup Range(t)
  BY <1>4 DEF Range
<1>6. Range(s) \subseteq Range(w) /\ Range(t) \subseteq Range(w)
  BY <1>1 DEF Range
<1> QED
  BY <1>3, <1>5, <1>6 DEF w

-----------------------------------------------------------------------------
(* Sequences that respect a relation: what must come first does.           *)

OrderedBy(R, s) == \A i, j \in DOMAIN s : <<s[i], s[j]>> \in R => i < j

\* An element that need not come before any other may be put last.
LEMMA OrderedAppend ==
    ASSUME NEW R, NEW S, NEW s \in Seq(S), NEW e \in S, OrderedBy(R, s),
           \A x \in Range(s) \cup {e} : <<e, x>> \notin R
    PROVE  OrderedBy(R, Append(s, e))
<1> SUFFICES ASSUME NEW i \in DOMAIN Append(s, e), NEW j \in DOMAIN Append(s, e),
                    <<Append(s, e)[i], Append(s, e)[j]>> \in R
             PROVE  i < j
    BY DEF OrderedBy
<1>1. \A k \in DOMAIN s : Append(s, e)[k] = s[k] /\ s[k] \in Range(s) /\ k < Len(s) + 1
  BY DEF Range
<1>2. Append(s, e)[Len(s) + 1] = e
  OBVIOUS
<1>3. \A k \in DOMAIN Append(s, e) : k \in DOMAIN s \/ k = Len(s) + 1
  OBVIOUS
<1>4. i \in DOMAIN s
  BY <1>1, <1>2, <1>3
<1>5. CASE j \in DOMAIN s
  BY <1>1, <1>4, <1>5 DEF OrderedBy
<1>6. CASE j = Len(s) + 1
  BY <1>1, <1>4, <1>6
<1> QED
  BY <1>3, <1>5, <1>6

\* Nothing in the rest of a queue had to come before its head.
LEMMA OrderedTail ==
    ASSUME NEW R, NEW S, NEW s \in Seq(S), s # <<>>, OrderedBy(R, s)
    PROVE  /\ OrderedBy(R, Tail(s))
           /\ \A x \in Range(Tail(s)) : <<x, Head(s)>> \notin R
<1>1. ASSUME NEW i \in DOMAIN Tail(s)
      PROVE  i \in Nat \ {0} /\ i + 1 \in DOMAIN s /\ Tail(s)[i] = s[i + 1]
  OBVIOUS
<1>2. 1 \in DOMAIN s /\ Head(s) = s[1]
  OBVIOUS
<1>3. OrderedBy(R, Tail(s))
  <2> SUFFICES ASSUME NEW i \in DOMAIN Tail(s), NEW j \in DOMAIN Tail(s),
                      <<Tail(s)[i], Tail(s)[j]>> \in R
               PROVE  i < j
      BY DEF OrderedBy
  <2>1. i + 1 < j + 1
    BY <1>1 DEF OrderedBy
  <2> QED
    BY <1>1, <2>1
<1>4. ASSUME NEW i \in DOMAIN Tail(s), <<Tail(s)[i], Head(s)>> \in R
      PROVE  FALSE
  <2>1. i + 1 < 1
    BY <1>1, <1>2, <1>4 DEF OrderedBy
  <2> QED
    BY <1>1, <2>1
<1> QED
  BY <1>3, <1>4 DEF Range

\* Taking an element out keeps the order of the others.
LEMMA OrderedRemoveAt ==
    ASSUME NEW R, NEW S, NEW s \in Seq(S), NEW i \in DOMAIN s, OrderedBy(R, s)
    PROVE  OrderedBy(R, RemoveAt(s, i))
<1> DEFINE w == RemoveAt(s, i)
<1>0. /\ w \in Seq(S) /\ Len(w) = Len(s) - 1
      /\ \A j \in 1..(Len(s) - 1) : w[j] = IF j < i THEN s[j] ELSE s[j + 1]
  BY RemoveAtFacts
<1> HIDE DEF w
<1>1. ASSUME NEW k \in DOMAIN w
      PROVE  /\ k \in Nat
             /\ k < i => k \in DOMAIN s /\ w[k] = s[k]
             /\ k >= i => k + 1 \in DOMAIN s /\ w[k] = s[k + 1]
  <2>1. k \in 1..(Len(s) - 1) /\ DOMAIN s = 1..Len(s) /\ i \in 1..Len(s)
    BY <1>0, <1>1
  <2>2. CASE k < i
    BY <1>0, <2>1, <2>2
  <2>3. CASE k >= i
    BY <1>0, <2>1, <2>3
  <2> QED
    BY <2>1, <2>2, <2>3
<1>2. i \in Nat
  OBVIOUS
<1> SUFFICES ASSUME NEW j \in DOMAIN w, NEW k \in DOMAIN w, <<w[j], w[k]>> \in R
             PROVE  j < k
    BY DEF OrderedBy, w
<1>3. CASE j < i /\ k < i
  BY <1>1, <1>3 DEF OrderedBy
<1>4. CASE j < i /\ k >= i
  BY <1>1, <1>2, <1>4
<1>5. CASE j >= i /\ k < i
  <2>1. j + 1 < k
    BY <1>1, <1>5 DEF OrderedBy
  <2> QED
    BY <1>1, <1>2, <2>1
<1>6. CASE j >= i /\ k >= i
  <2>1. j + 1 < k + 1
    BY <1>1, <1>6 DEF OrderedBy
  <2> QED
    BY <1>1, <2>1
<1> QED
  BY <1>1, <1>2, <1>3, <1>4, <1>5, <1>6

\* Nor does a redelivery upset it, if nothing queued had to come before it.
LEMMA OrderedConcat ==
    ASSUME NEW R, NEW S, NEW s \in Seq(S), NEW t \in Seq(S), OrderedBy(R, s), OrderedBy(R, t),
           \A x \in Range(s), y \in Range(t) : <<y, x>> \notin R
    PROVE  OrderedBy(R, s \o t)
<1> DEFINE w == s \o t
           n == Len(s)
<1>1. n \in Nat /\ \A k \in DOMAIN t : k \in Nat /\ t[k] \in Range(t)
  BY DEF Range
<1>2. \A k \in DOMAIN s : s[k] \in Range(s)
  BY DEF Range
<1>3. ASSUME NEW k \in DOMAIN w
      PROVE  /\ k \in Nat
             /\ k <= n => k \in DOMAIN s /\ w[k] = s[k]
             /\ k > n => k - n \in DOMAIN t /\ w[k] = t[k - n]
  OBVIOUS
<1> HIDE DEF w, n
<1> SUFFICES ASSUME NEW j \in DOMAIN w, NEW k \in DOMAIN w, <<w[j], w[k]>> \in R
             PROVE  j < k
    BY DEF OrderedBy, w
<1>4. CASE j <= n /\ k <= n
  BY <1>3, <1>4 DEF OrderedBy
<1>5. CASE j <= n /\ k > n
  BY <1>1, <1>3, <1>5
<1>6. CASE j > n /\ k <= n
  BY <1>1, <1>2, <1>3, <1>6
<1>7. CASE j > n /\ k > n
  <2>1. j - n < k - n
    BY <1>3, <1>7 DEF OrderedBy
  <2> QED
    BY <1>1, <1>3, <2>1
<1> QED
  BY <1>1, <1>3, <1>4, <1>5, <1>6, <1>7

-----------------------------------------------------------------------------
(* Numbers.                                                                *)

\* Every set of numbers has a least element.
Less == {p \in Nat \X Nat : p[1] < p[2]}
LEMMA LessIsWellFounded == IsWellFoundedOn(Less, Nat)
BY NatLessThanWellFounded DEF OpToRel, Less

LEMMA LeastOf ==
  ASSUME NEW S \in SUBSET Nat, S # {}
  PROVE  \E x \in S : \A y \in S : x <= y
<1>1. PICK x \in S : \A y \in S : ~ (<<y, x>> \in Less)
  BY WFMin, LessIsWellFounded
<1>2. ASSUME NEW y \in S PROVE x <= y
  <2>1. y \in Nat /\ x \in Nat /\ ~ (<<y, x>> \in Less)
    BY <1>1
  <2>2. ~ (y < x)
    BY <2>1 DEF Less
  <2> QED
    BY <2>1, <2>2
<1> QED
  BY <1>2
=============================================================================
