----------------------------- MODULE MC_Receipts -----------------------------
(***************************************************************************)
(* Receipts from the page that reports to the page that shows, for TLC.    *)
(* The modules share no variable; a behaviour moves one of three parts.    *)
(*   server: Bob's two devices mark a message of Alice's at the same time, *)
(* one of Alice's devices tries to as well, and the store of her device a1 *)
(* is followed (the read cursor instance has two messages and one device   *)
(* of Bob's);                                                              *)
(*   log, reads: the page of a thread with another one beside it, its      *)
(* scroll position and what it reports.                                    *)
(***************************************************************************)
EXTENDS Receipts, ThreadView

CONSTANTS alice, bob, a1, b1, b2, A, B, m1, m2, m3, m4, own

VARIABLE part

MC_Users == {alice, bob}
MC_Devices == {a1, b1, b2}
MC_Watched == {a1}
MC_Owner == [d \in Devices |-> IF d = a1 THEN alice ELSE bob]
MC_Author == [m \in Messages |-> IF m = 3 THEN bob ELSE alice]
By(d, k, m) == [dev |-> d, kind |-> k, msg |-> m]
MC_Calls == {By(b1, "delivered", 1), By(b2, "read", 1), By(b2, "conversation", 1), By(a1, "read", 1)}
MC_Messages == {1}
MC_ReadCalls == {By(b1, "conversation", 2), By(b1, "read", 1)}
MC_ReadMessages == {1, 2}

MC_Chats == {A, B}
MC_ChatOf == [m \in {m1, m2, m3, m4, own} |-> IF m \in {m1, m2} THEN A ELSE B]
MC_OfViewer == {own}
MC_Old == [c \in {A, B} |-> IF c = A THEN <<m1, m2>> ELSE <<m3>>]

AllInit ==
  /\ Init /\ ViewInit
  /\ part \in {"server", "log", "reads"}
  /\ seen = {} \/ (part = "reads" /\ seen = {m1, m2, m3})

\* What the scroll position does not depend on stands still, and the reverse.
Log == part = "log" /\ fired' = {} /\ heard' = {} /\ refused' = {} /\ linked' /\ merges' = 0
Reads == /\ part = "reads" /\ scrolls' = 0 /\ failed' = {} /\ sending' = {}
         /\ open' # A /\ opens' <= 2 /\ Cardinality(calls') <= 2 /\ merges' + viewFaults' <= 1

\* Three of the calls are handled, two at a time, one of them in vain.
ThreeHandled ==
  /\ Cardinality({c \in Calls : pc'[c] # "idle"}) <= 3
  /\ Cardinality({c \in Calls : pc'[c] \notin {"idle", "done"}}) <= 2
  /\ Cardinality({c \in Calls : reply'[c] = "error"}) <= 1

AllNext ==
  \/ part = "server" /\ Next /\ ThreeHandled /\ UNCHANGED <<viewVars, part>>
  \/ part # "server" /\ ViewNext /\ (Log \/ Reads) /\ UNCHANGED <<vars, part>>
  \/ part # "server" /\ UNCHANGED <<vars, viewVars, part>>   \* the bounds end the page's parts
AllSpec == AllInit /\ [][AllNext]_<<vars, viewVars, part>>
=============================================================================
