------------------------------- MODULE MC_Home ------------------------------
(***************************************************************************)
(* The home page for TLC: presence, the list of threads, the composers, the *)
(* text of messages and the profile.  The modules share no variable, and    *)
(* neither do their properties: an invariant of one holds whatever the      *)
(* others do if it holds while they stand still.  A behaviour is one of     *)
(* seven parts, each with the bounds its interesting cases need: two        *)
(* connections of the user who is looked up, the connection and the page of *)
(* the viewer who looks, the sends of one pair with threads that expire and *)
(* operations that fail, the list with threads of two peers, a composer,    *)
(* the settings page, and one conversation as one browser reads it.         *)
(***************************************************************************)
EXTENDS Presence, Threads, Composer, Profile, MessageText, TLC

CONSTANTS c1, c2, p1, p2, f1, f2, bad, t1, t2, own, echo, theirs

VARIABLE part

Two == {c1, c2}
Both == {p1, p2}
PickedFiles == {f1, f2, bad}
RefusedFiles == {bad}
FieldTexts == {t1, t2, NoText}
TypedHere == {own}
TypedElsewhere == {echo}
OfPeer == {theirs}
WithAttachment == {own, echo}
WithText == {own, theirs}
Either == Permutations(Both)

Init ==
  /\ PresenceInit /\ ThreadsInit /\ ComposerInit /\ ProfileInit /\ TextInit
  /\ part \in {"user", "viewer", "pair", "list", "composer", "profile", "text"}
  /\ part # "composer" => composer.kind = "thread"
  /\ part # "profile" => profile.texts["name"] = t1
  /\ IF part = "text" THEN stored \subseteq OfPeer ELSE stored = {} /\ device.held = "key"

User == part = "user" /\ asked' <= 1 /\ drops' = 0 /\ views' = 0
Viewer == /\ part = "viewer" /\ clock' <= 1 /\ conn'[c2] = "new"
          /\ drops' + views' + mishaps' <= 2
Pair ==
  /\ part = "pair"
  /\ \E p \in Both : /\ \A s \in sends' : s.peer = p
                    /\ \A c \in DOMAIN made' : made'[c] = p
                    /\ view'.pending \subseteq {p}
  /\ failures' + (IF expired' THEN 1 ELSE 0) <= 1
List ==
  /\ part = "list" /\ failures' = 0 /\ ~expired'
  /\ \A s \in sends' : s.tab \/ s.first

\* A page that is loaded again has two messages at most and keeps its connection.
Text == loads' > 0 => Cardinality(stored') <= 2 /\ ~thread'.deaf

Next ==
  \/ /\ part \in {"user", "viewer"} /\ PresenceNext /\ (User \/ Viewer)
     /\ UNCHANGED <<threadsVars, composerVars, profileVars, textVars, part>>
  \/ /\ part \in {"pair", "list"} /\ ThreadsNext /\ Cardinality(sends') <= 2 /\ (Pair \/ List)
     /\ UNCHANGED <<presenceVars, composerVars, profileVars, textVars, part>>
  \/ /\ part = "composer" /\ ComposerNext
     /\ UNCHANGED <<presenceVars, threadsVars, profileVars, textVars, part>>
  \/ /\ part = "profile" /\ ProfileNext
     /\ UNCHANGED <<presenceVars, threadsVars, composerVars, textVars, part>>
  \/ /\ part = "text" /\ TextNext /\ Text
     /\ UNCHANGED <<presenceVars, threadsVars, composerVars, profileVars, part>>

Spec == Init /\ [][Next]_<<presenceVars, threadsVars, composerVars, profileVars, textVars, part>>
=============================================================================
