----------------------------- MODULE MC_Devices -----------------------------
(***************************************************************************)
(* What the devices of people do together, for TLC: their calls, and the    *)
(* keys of one account on a registered browser with a message and on a new  *)
(* one.  The two share no variable; a behaviour moves one of them.          *)
(***************************************************************************)
EXTENDS CallSession, DeviceSync

CONSTANTS a1, a2

VARIABLE part

Both == {a1, a2}
Old == {a1}
New == {a2}
TwoSlots == {1, 2}

\* Ann, whose browser may fail, calls Bob; then anybody calls somebody.
ThreeUsers == [d \in Devices |-> IF d = "a1" THEN "A" ELSE IF d = "b1" THEN "B" ELSE "C"]
AnnFirst == [n \in 1 .. MaxCalls |-> IF n = 1 THEN {"a1"} ELSE Devices]
EachOther == [d \in Devices |-> IF d = "a1" THEN "B" ELSE "A"]

\* People hang up or look elsewhere, or a browser meets a fault; a page runs two functions
\* at once as long as nothing is sent.
OneCallEvent == callActs' + callFaults' <= 1
OneAtOnce == Len(messages') = History \/ \A f \in flows' : f.slot = 1

AllInit == CallInit /\ Init /\ part \in {"calls", "keys"}
AllNext ==
  \/ part = "calls" /\ CallNext /\ OneCallEvent /\ UNCHANGED <<vars, part>>
  \/ part = "keys" /\ Next /\ OneAtOnce /\ UNCHANGED <<callVars, part>>
AllSpec == AllInit /\ [][AllNext]_<<callVars, vars, part>>
=============================================================================
