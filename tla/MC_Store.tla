------------------------------ MODULE MC_Store ------------------------------
(* Two sends of the tab, one message of the peer and one that the user sends *)
(* from another device; the text instance has one send.                      *)
EXTENDS MessagingStore

CONSTANTS k1, k2, e1, p1

MC_Sends == {k1, k2}
MC_OneSend == {k1}
MC_Theirs == {p1}
MC_Elsewhere == {e1}

\* Three of the four messages are stored.
MC_Next == Next /\ Len(thread') <= 3
MC_Spec == Init /\ [][MC_Next]_vars
           /\ WF_vars(Answer) /\ WF_vars(Resolve) /\ WF_vars(hydrateMessagesFromFetch)
=============================================================================
