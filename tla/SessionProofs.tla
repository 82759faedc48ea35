---------------------------- MODULE SessionProofs ----------------------------
(***************************************************************************)
(* Every session the service still accepts descends from the current       *)
(* password; the token a browser keeps can be used; a counter of the rate  *)
(* limits is dropped; no request waits for an answer that is not coming:   *)
(* proved for any number of tabs, accounts, guests and tokens.             *)
(*                                                                         *)
(* The first: each issued pair carries in origin the version stored with   *)
(* its refresh token.  For a sign-in and for a refresh this needs what the *)
(* handler has established at the time it issues: the document it read is  *)
(* of the version of the password it was given, or of the refresh token it *)
(* was given (CallOK).                                                     *)
(*                                                                         *)
(* The second: a token leaves Redis when it runs out, when a handler found *)
(* it dead, or when a call used it up; such a call has a fresh pair on its *)
(* way to the tab that asked (Founded, Apart), and is taken up by nothing  *)
(* but a step that stores that pair, clears the token or makes it doubtful *)
(* (TabMoves).  That a tab asks only when no call of that activity is      *)
(* under way is TabsInv.                                                   *)
(*                                                                         *)
(* The last: TabsInv ties every call of a tab to the activity that waits   *)
(* for it and every waiting request to the refresh, so none is stranded.   *)
(***************************************************************************)
EXTENDS BrowserSession, TLAPS

\* What holds of a call wherever it is.
CallOK(r) ==
  /\ r \in Call
  /\ r.token < next /\ r.pair < next
  /\ r.op \notin {"refresh", "logout"} => r.user \in Users
  /\ r.op = "refresh" /\ r.step \in {"load", "config", "issue"} =>
       r.user \in Users /\ r.token \in Pairs
  /\ r.op = "refresh" /\ r.step \in {"config", "issue"} =>
       r.doc.version = payload[r.token].v
  /\ r.op = "login" /\ r.step = "issue" => r.doc.version = r.password
  /\ r.step = "lookup" => r.op = "refresh"
  /\ r.op = "logout" => r.step \in {"idle", "revoke", "answered"}

Base ==
  /\ users \in [Users -> Document]
  /\ next \in Nat \ {0}
  /\ payload \in [Pairs -> [user: Users \cup {Nobody}, v: Version]]
  /\ origin \in [Pairs -> Version]
  /\ redis \subseteq Pairs /\ \A p \in redis : p < next
  /\ stored \in Pairs \cup {None} /\ stored < next

PairsOK == \A p \in Pairs : p < next => payload[p].user \in Users /\ origin[p] = payload[p].v

CallsOK == DOMAIN calls = Calls /\ calls = [c \in Calls |-> calls[c]]
           /\ \A c \in Calls : CallOK(calls[c])

IInv == Base /\ PairsOK /\ CallsOK

-----------------------------------------------------------------------------
(* Calls as they start.                                                    *)

\* What a request carries when it reaches the service.
LEMMA RequestOK ==
  ASSUME Base, NEW op \in Ops, NEW user \in Users \cup {Nobody},
         op \notin {"refresh", "logout"} => user \in Users,
         NEW token \in Pairs \cup {None}, token < next, NEW password \in Version
  PROVE  CallOK(Request(op, user, token, password))
<1> DEFINE step == IF op \in {"verify", "resend", "guest"} THEN "gate"
                   ELSE IF op \in LimitedOps THEN "limit" ELSE Entry(op)
           r == Request(op, user, token, password)
<1>0. r = [Idle EXCEPT !.op = op, !.user = user, !.token = token,
                       !.password = password, !.step = step]
  BY DEF Request
<1>1. step \in {"gate", "limit", "lookup", "revoke", "load"}
  BY DEF Ops, LimitedOps, Entry
<1>2. op = "refresh" => step = "lookup"
  BY DEF LimitedOps, Entry
<1>3. /\ op = "login" => step = "load"
      /\ op = "logout" => step = "revoke"
      /\ step = "lookup" => op = "refresh"
  BY DEF LimitedOps, Ops, Entry
<1>5. Absent \in Document /\ None \in Pairs \cup {None} /\ None < next
  BY AccountsAssumption DEF Absent, Document, Version, None, Base
<1> HIDE DEF step, r
<1>4. r = [op |-> op, user |-> user, token |-> token, password |-> password,
           step |-> step, doc |-> Absent, pair |-> None, code |-> 0]
  BY <1>0 DEF Idle
<1>6. r \in Call
  BY <1>1, <1>4, <1>5 DEF Call, Steps, Codes
<1>7. QED
  BY <1>1, <1>2, <1>3, <1>4, <1>5, <1>6 DEF CallOK, r

\* A caller with nothing under way.
LEMMA IdleOK == ASSUME Base PROVE CallOK(Idle)
<1>1. Absent \in Document /\ None \in Pairs \cup {None} /\ None < next /\ 0 \in Version
  BY AccountsAssumption DEF Absent, Document, Version, None, Base
<1>2. Idle \in Call
  BY <1>1 DEF Idle, Codes, Call, Ops, Steps, Nobody
<1>3. QED
  BY <1>1, <1>2 DEF CallOK, Idle

\* A step that issues no token, and whose calls are all in order.
LEMMA CallsStep ==
  ASSUME IInv, UNCHANGED <<next, payload, origin>>, redis' \subseteq redis,
         users' \in [Users -> Document],
         stored' \in Pairs \cup {None}, stored' < next,
         calls' = [c \in Calls |-> calls'[c]],
         \A c \in Calls : calls'[c] = calls[c] \/ CallOK(calls'[c])
  PROVE  IInv'
<1>1. Base'
  BY DEF IInv, Base, Document, Version, Pairs
<1>2. PairsOK'
  BY DEF IInv, PairsOK
<1>3. \A c \in Calls : CallOK(calls'[c])
  BY DEF IInv, CallsOK
<1>5. \A c \in Calls : CallOK(calls[c])'
  BY <1>3 DEF CallOK
<1>6. DOMAIN calls' = Calls
  OBVIOUS
<1>7. QED
  BY <1>1, <1>2, <1>5, <1>6 DEF IInv, CallsOK

\* A handler's step that moves one call on and issues no token.
LEMMA MoveStep ==
  ASSUME IInv, UNCHANGED <<next, payload, origin, stored>>, redis' \subseteq redis,
         users' \in [Users -> Document],
         NEW c \in Calls, NEW r, calls' = [calls EXCEPT ![c] = r],
         r \in Call, r.op = calls[c].op, r.token = calls[c].token,
         r.password = calls[c].password, r.pair < next,
         r.user = calls[c].user \/ (r.op = "refresh" /\ r.user \in Users),
         r.op = "refresh" /\ r.step \in {"load", "config", "issue"} =>
           r.user \in Users /\ r.token \in Pairs,
         r.op = "refresh" /\ r.step \in {"config", "issue"} =>
           r.doc.version = payload[r.token].v,
         r.op = "login" /\ r.step = "issue" => r.doc.version = r.password,
         r.step = "lookup" => r.op = "refresh",
         r.op = "logout" => r.step = "answered"
  PROVE  IInv'
<1>1. CallOK(calls[c]) /\ DOMAIN calls = Calls
  BY DEF IInv, CallsOK
<1>2. CallOK(r)
  BY <1>1 DEF CallOK
<1>3. calls' = [d \in Calls |-> calls'[d]] /\ calls'[c] = r
      /\ \A d \in Calls : d # c => calls'[d] = calls[d]
  BY <1>1
<1>4. stored' \in Pairs \cup {None} /\ stored' < next
  BY DEF IInv, Base
<1>5. QED
  BY <1>2, <1>3, <1>4, CallsStep

\* What a call's record holds, for the steps below.
LEMMA CallFacts ==
  ASSUME IInv, NEW c \in Calls
  PROVE  /\ calls[c] \in Call /\ CallOK(calls[c]) /\ DOMAIN calls = Calls
         /\ users \in [Users -> Document]
         /\ calls[c].op \notin {"refresh", "logout"} => users[calls[c].user] \in Document
BY DEF IInv, CallsOK, CallOK, Base

-----------------------------------------------------------------------------
(* The handlers.                                                           *)

Quiet == UNCHANGED <<next, payload, origin, stored>> /\ redis' \subseteq redis
         /\ users' \in [Users -> Document]

\* A call that goes on without having read anything.
LEMMA GoToStep ==
  ASSUME IInv, NEW c \in Calls, NEW step \in Steps, GoTo(c, step), Quiet,
         calls[c].op = "refresh" => step \notin {"load", "config", "issue"}
           \/ (step = "issue" /\ At(c, "config")),
         calls[c].op = "login" => step # "issue",
         step = "lookup" => calls[c].op = "refresh", calls[c].op # "logout"
  PROVE  IInv'
<1> DEFINE q == calls[c]
           r == [q EXCEPT !.step = step]
<1>1. q \in Call /\ CallOK(q)
  BY CallFacts
<1>2. calls' = [calls EXCEPT ![c] = r]
  BY DEF GoTo
<1>3. q = calls[c]
  OBVIOUS
<1> HIDE DEF q
<1>4. r \in Call /\ r.op = q.op /\ r.token = q.token /\ r.step = step /\ r.doc = q.doc
      /\ r.password = q.password /\ r.pair = q.pair /\ r.user = q.user
  BY <1>1 DEF Call
<1> HIDE DEF r
<1>5. r.pair < next
  BY <1>1, <1>4 DEF CallOK
<1>6. /\ r.op = "refresh" /\ r.step \in {"load", "config", "issue"} =>
           r.user \in Users /\ r.token \in Pairs
      /\ r.op = "refresh" /\ r.step \in {"config", "issue"} =>
           r.doc.version = payload[r.token].v
      /\ r.op = "login" => r.step # "issue"
      /\ r.step = "lookup" => r.op = "refresh"
      /\ r.op # "logout"
  BY <1>1, <1>3, <1>4 DEF CallOK, At
<1>7. QED
  BY <1>2, <1>3, <1>4, <1>5, <1>6, MoveStep DEF Quiet

\* A call that is answered.
LEMMA AnswerStep ==
  ASSUME IInv, NEW c \in Calls, NEW code \in Codes, Answer(c, code), Quiet
  PROVE  IInv'
<1> DEFINE q == calls[c]
           r == [q EXCEPT !.step = "answered", !.code = code]
<1>1. q \in Call /\ CallOK(q)
  BY CallFacts
<1>2. calls' = [calls EXCEPT ![c] = r]
  BY DEF Answer
<1>3. q = calls[c]
  OBVIOUS
<1> HIDE DEF q
<1>4. r \in Call /\ r.op = q.op /\ r.token = q.token /\ r.step = "answered"
      /\ r.password = q.password /\ r.pair = q.pair /\ r.user = q.user
  BY <1>1 DEF Call, Steps
<1> HIDE DEF r
<1>5. r.pair < next
  BY <1>1, <1>4 DEF CallOK
<1>6. QED
  BY <1>2, <1>3, <1>4, <1>5, MoveStep DEF Quiet

\* A call that read the document of its user.
LEMMA ReadStep ==
  ASSUME IInv, NEW c \in Calls, NEW step \in Steps, Read(c, step), Quiet,
         calls[c].user \in Users,
         calls[c].op = "refresh" => /\ calls[c].token \in Pairs
                                    /\ step = "config" => SameVersion(c)
                                    /\ step # "issue",
         step # "lookup", calls[c].op # "logout",
         calls[c].op = "login" => step # "issue" \/ users[calls[c].user].version = calls[c].password
  PROVE  IInv'
<1> DEFINE q == calls[c]
           r == [q EXCEPT !.step = step, !.doc = users[calls[c].user]]
<1>1. q \in Call /\ CallOK(q) /\ users[calls[c].user] \in Document
  BY CallFacts
<1>2. calls' = [calls EXCEPT ![c] = r]
  BY DEF Read
<1>3. q = calls[c]
  OBVIOUS
<1> HIDE DEF q
<1>4. r \in Call /\ r.op = q.op /\ r.token = q.token /\ r.step = step
      /\ r.doc = users[calls[c].user]
      /\ r.password = q.password /\ r.pair = q.pair /\ r.user = q.user
  BY <1>1 DEF Call
<1> HIDE DEF r
<1>5. r.pair < next
  BY <1>1, <1>4 DEF CallOK
<1>6. /\ r.op = "refresh" => r.user \in Users /\ r.token \in Pairs
      /\ r.op = "refresh" /\ r.step \in {"config", "issue"} =>
           r.doc.version = payload[r.token].v
      /\ r.op = "login" /\ r.step = "issue" => r.doc.version = r.password
      /\ r.step # "lookup" /\ r.op # "logout"
  BY <1>1, <1>3, <1>4 DEF SameVersion
<1>7. QED
  BY <1>2, <1>3, <1>4, <1>5, <1>6, MoveStep DEF Quiet

\* getRefreshPayload: the token is in Redis, so its user is known.
LEMMA LookupStep ==
  ASSUME IInv, NEW c \in Calls, getRefreshPayload(c), UNCHANGED stored
  PROVE  IInv'
<1>1. Quiet
  BY DEF getRefreshPayload, Quiet, tokenVars, IInv, Base
<1>2. CASE calls[c].token \in redis
  <2> DEFINE q == calls[c]
             u == payload[calls[c].token].user
             r == [q EXCEPT !.step = "load", !.user = u]
  <2>1. q \in Call /\ CallOK(q)
    BY CallFacts
  <2>2. calls' = [calls EXCEPT ![c] = r]
    BY <1>2 DEF getRefreshPayload
  <2>3. u \in Users /\ q.token \in Pairs
    BY <1>2 DEF IInv, Base, PairsOK
  <2>4. q = calls[c]
    OBVIOUS
  <2> HIDE DEF q, u
  <2>5. r \in Call /\ r.op = q.op /\ r.token = q.token /\ r.step = "load"
        /\ r.password = q.password /\ r.pair = q.pair /\ r.user = u
    BY <2>1, <2>3 DEF Call, Steps
  <2> HIDE DEF r
  <2>6. r.pair < next
    BY <2>1, <2>5 DEF CallOK
  <2>7. CASE q.op = "refresh"
    BY <1>1, <2>2, <2>3, <2>4, <2>5, <2>6, <2>7, MoveStep DEF Quiet
  <2>8. CASE q.op # "refresh"
    \* Only a refresh is ever at the lookup.
    BY <2>1, <2>4, <2>8 DEF getRefreshPayload, CallOK, At
  <2>9. QED
    BY <2>7, <2>8
<1>3. CASE calls[c].token \notin redis
  BY <1>1, <1>3, AnswerStep DEF getRefreshPayload, Codes
<1>4. QED
  BY <1>2, <1>3

\* issueAuthTokens: the new pair carries the version its sign-in stands for.
LEMMA IssueStep ==
  ASSUME IInv, NEW c \in Calls, issueAuthTokens(c), UNCHANGED stored
  PROVE  IInv'
<1> DEFINE q == calls[c]
           step == IF q.op = "refresh" THEN "revoke" ELSE "answered"
           code == IF q.op = "refresh" THEN 0 ELSE 200
           r == [q EXCEPT !.pair = next, !.step = step, !.code = code]
<1>1. q \in Call /\ CallOK(q) /\ q.step = "issue" /\ DOMAIN calls = Calls
  BY CallFacts DEF issueAuthTokens, At
<1>2. /\ next \in Pairs /\ next' = next + 1 /\ next \in Nat /\ next' \in Nat \ {0}
      /\ redis' = redis \cup {next} /\ users' = users
  BY AccountsAssumption DEF issueAuthTokens, IInv, Base, Pairs
<1>3. q.user \in Users /\ q.doc.version \in Version
  <2>1. q.op # "logout"
    BY <1>1 DEF CallOK
  <2>2. q.user \in Users
    BY <1>1, <2>1 DEF CallOK
  <2>3. QED
    BY <1>1, <2>2 DEF Call, Document
<1>4. Credential(c) = q.doc.version
  BY <1>1 DEF CallOK, Credential, IInv, PairsOK
<1>5. payload' = [payload EXCEPT ![next] = [user |-> q.user, v |-> q.doc.version]]
      /\ origin' = [origin EXCEPT ![next] = q.doc.version]
  BY <1>4 DEF issueAuthTokens
<1>6. calls' = [calls EXCEPT ![c] = r]
  BY DEF issueAuthTokens
<1>7. q = calls[c]
  OBVIOUS
<1> HIDE DEF q
<1>8. Base'
  BY <1>2, <1>3, <1>5 DEF IInv, Base, Pairs
<1>9. PairsOK'
  BY <1>2, <1>3, <1>5 DEF IInv, Base, PairsOK
<1>10. ASSUME NEW k, CallOK(k) PROVE CallOK(k)'
  <2>1. k.token < next' /\ k.pair < next'
    BY <1>2, <1>10 DEF CallOK, Call, Pairs, None
  <2>2. k.token # next
    BY <1>2, <1>10 DEF CallOK
  <2>3. k.op = "refresh" /\ k.step \in {"config", "issue"} => payload'[k.token] = payload[k.token]
    BY <1>5, <1>10, <2>2 DEF CallOK, IInv, Base
  <2>4. QED
    BY <1>10, <2>1, <2>3 DEF CallOK
<1>11. ASSUME NEW k, k = r PROVE CallOK(k)'
  <2>0. step \in {"revoke", "answered"} /\ step \in Steps /\ code \in Codes
        /\ q.op # "logout"
    BY <1>1 DEF CallOK, Steps, Codes
  <2> HIDE DEF step, code
  <2>1. r \in Call /\ r.op = q.op /\ r.token = q.token /\ r.step = step /\ r.pair = next
        /\ r.user = q.user
    BY <1>1, <1>2, <2>0 DEF Call
  <2>2. r.token < next' /\ r.pair < next'
    BY <1>1, <1>2, <2>1 DEF CallOK, Call, Pairs, None
  <2> HIDE DEF r
  <2>3. QED
    BY <1>3, <1>11, <2>0, <2>1, <2>2 DEF CallOK
<1> HIDE DEF r
<1>12. CallsOK'
  <2>1. \A d \in Calls : calls'[d] = IF d = c THEN r ELSE calls[d]
    BY <1>1, <1>6
  <2>2. DOMAIN calls' = Calls /\ calls' = [d \in Calls |-> calls'[d]]
    BY <1>1, <1>6 DEF IInv, CallsOK
  <2>3. \A d \in Calls : CallOK(calls[d])'
    BY <1>10, <1>11, <2>1 DEF CallOK, IInv, CallsOK
  <2>4. QED
    BY <2>2, <2>3 DEF CallsOK
<1>13. QED
  BY <1>8, <1>9, <1>12 DEF IInv

\* readConfig: the document to insert is made.
LEMMA ConfigStep ==
  ASSUME IInv, NEW c \in Calls, readConfig(c), UNCHANGED stored
  PROVE  IInv'
<1> DEFINE q == calls[c]
           v == calls[c].op = "guest" \/ ~EmailVerificationRequired
           d == [Absent EXCEPT !.status = "live", !.verified = v]
           r == [q EXCEPT !.step = "write", !.doc = d]
<1>1. q \in Call /\ CallOK(q) /\ q.op \in {"register", "guest"}
  BY CallFacts DEF readConfig
<1>2. calls' = [calls EXCEPT ![c] = r] /\ Quiet
  BY DEF readConfig, Quiet, tokenVars, IInv, Base
<1>3. d \in Document
  <2>1. v \in BOOLEAN
    OBVIOUS
  <2> HIDE DEF v
  <2>2. d = [Absent EXCEPT !.status = "live", !.verified = v]
    OBVIOUS
  <2>3. 0 \in Version
    BY AccountsAssumption DEF Version
  <2> HIDE DEF d
  <2>4. QED
    BY <2>1, <2>2, <2>3 DEF Document, Absent
<1>4. q = calls[c]
  OBVIOUS
<1> HIDE DEF q, d
<1>5. r \in Call /\ r.op = q.op /\ r.token = q.token /\ r.step = "write"
      /\ r.password = q.password /\ r.pair = q.pair /\ r.user = q.user
  BY <1>1, <1>3 DEF Call, Steps
<1> HIDE DEF r
<1>6. r.pair < next
  BY <1>1, <1>5 DEF CallOK
<1>7. QED
  BY <1>1, <1>2, <1>4, <1>5, <1>6, MoveStep DEF Quiet

\* Every step of a handler.
LEMMA HandleStep ==
  ASSUME IInv, NEW c \in Calls, Handle(c), UNCHANGED stored
  PROVE  IInv'
<1> USE DEF Steps, Codes
<1>0. /\ CallOK(calls[c]) /\ calls[c] \in Call /\ users \in [Users -> Document]
      /\ calls[c].op \notin {"refresh", "logout"} => users[calls[c].user] \in Document
      /\ redis \subseteq redis
  BY CallFacts
<1>1. Entry(calls[c].op) \in {"lookup", "revoke", "config", "load"}
      /\ (Entry(calls[c].op) = "lookup" <=> calls[c].op = "refresh")
  BY <1>0 DEF Entry, Call, Ops, LimitedOps
<1>2. calls[c].step \notin {"idle", "revoke", "answered"} => calls[c].op # "logout"
  BY <1>0 DEF CallOK
<1>3. CASE requireGuestSessionsEnabled(c)
  BY <1>0, <1>2, <1>3, GoToStep, AnswerStep DEF requireGuestSessionsEnabled, Quiet, tokenVars, At
<1>4. CASE requireEmailVerificationEnabled(c)
  BY <1>0, <1>2, <1>4, GoToStep, AnswerStep DEF requireEmailVerificationEnabled, Quiet, tokenVars, At
<1>5. CASE fixedWindowIncrement(c)
  BY <1>0, <1>1, <1>2, <1>5, GoToStep, AnswerStep DEF fixedWindowIncrement, Quiet, tokenVars, At
<1>6. CASE refuse(c)
  BY <1>0, <1>6, AnswerStep DEF refuse, Quiet, tokenVars
<1>7. CASE expireKey(c)
  BY <1>0, <1>1, <1>2, <1>7, GoToStep DEF expireKey, Quiet, tokenVars, At
<1>8. CASE readConfig(c)
  BY <1>8, ConfigStep
<1>9. CASE createUser(c)
  <2>1. calls[c].doc \in Document
    BY <1>0 DEF Call
  <2>2. Quiet
    BY <1>0, <1>9, <2>1 DEF createUser, Quiet, tokenVars
  <2>3. QED
    BY <1>0, <1>2, <1>9, <2>2, GoToStep, AnswerStep DEF createUser, At
<1>10. CASE findUserByEmail(c)
  <2>1. Quiet
    BY <1>0, <1>10 DEF findUserByEmail, Quiet, tokenVars
  <2>2. calls[c].user \in Users
    BY <1>0, <1>10 DEF findUserByEmail, CallOK
  <2>3. CASE Read(c, "issue") /\ users[calls[c].user].version = calls[c].password
    BY <1>10, <2>1, <2>2, <2>3, ReadStep DEF findUserByEmail, verifyPassword
  <2>4. QED
    BY <1>10, <2>1, <2>3, AnswerStep DEF findUserByEmail, verifyPassword
<1>11. CASE getRefreshPayload(c)
  BY <1>11, LookupStep
<1>12. CASE loadForRefresh(c)
  <2>1. Quiet
    BY <1>0, <1>12 DEF loadForRefresh, Quiet, tokenVars
  <2>2. calls[c].user \in Users /\ calls[c].token \in Pairs
    BY <1>0, <1>12 DEF loadForRefresh, CallOK, At
  <2>3. QED
    BY <1>12, <2>1, <2>2, ReadStep DEF loadForRefresh
<1>13. CASE checkConfig(c)
  BY <1>0, <1>13, GoToStep, AnswerStep DEF checkConfig, Quiet, tokenVars, At
<1>14. CASE loadForVerify(c)
  <2>1. Quiet
    BY <1>0, <1>14 DEF loadForVerify, Quiet, tokenVars
  <2>2. calls[c].user \in Users
    BY <1>0, <1>14 DEF loadForVerify, CallOK
  <2>3. QED
    BY <1>14, <2>1, <2>2, ReadStep, AnswerStep DEF loadForVerify
<1>15. CASE setUserEmailVerified(c)
  <2>1. users' \in [Users -> Document]
    BY <1>0, <1>15 DEF setUserEmailVerified, Document
  <2>2. QED
    BY <1>0, <1>15, <2>1, GoToStep DEF setUserEmailVerified, Quiet, tokenVars
<1>16. CASE reloadVerified(c)
  <2>1. Quiet /\ calls[c].op \notin {"refresh", "logout", "login"}
    BY <1>0, <1>16 DEF reloadVerified, Quiet, tokenVars, At, CallOK
  <2>2. calls[c].user \in Users
    BY <1>0, <2>1 DEF CallOK
  <2>3. QED
    BY <1>16, <2>1, <2>2, ReadStep DEF reloadVerified
<1>17. CASE postForgotPassword(c) \/ postResendVerification(c)
  BY <1>0, <1>17, AnswerStep DEF postForgotPassword, postResendVerification, Quiet, tokenVars
<1>18. CASE loadForReset(c)
  BY <1>0, <1>18, GoToStep, AnswerStep DEF loadForReset, Quiet, tokenVars
<1>19. CASE setUserPasswordAndBumpVersion(c)
  <2>1. users' \in [Users -> Document]
    BY <1>0, <1>19, AccountsAssumption DEF setUserPasswordAndBumpVersion, Document, Version, CallOK
  <2>2. QED
    BY <1>0, <1>19, <2>1, AnswerStep DEF setUserPasswordAndBumpVersion, Quiet, tokenVars
<1>20. CASE issueAuthTokens(c)
  BY <1>20, IssueStep
<1>21. CASE revokeRefreshToken(c)
  BY <1>0, <1>21, AnswerStep DEF revokeRefreshToken, Quiet
<1>22. QED
  BY <1>3, <1>4, <1>5, <1>6, <1>7, <1>8, <1>9, <1>10, <1>11, <1>12, <1>13, <1>14,
     <1>15, <1>16, <1>17, <1>18, <1>19, <1>20, <1>21 DEF Handle

-----------------------------------------------------------------------------
(* Time, failures and the tabs.                                            *)

\* A token runs out, a guest's row goes, the configuration changes.
LEMMA EnvironmentStep ==
  ASSUME IInv, Environment, UNCHANGED stored
  PROVE  IInv'
<1>1. calls' = calls /\ UNCHANGED <<next, payload, origin>> /\ redis' \subseteq redis
  BY DEF Environment, SeedConfig, CacheExpires, WindowEnds, GuestExpires,
         RefreshTokenExpires, AccessTokenExpires, tokenVars
<1>2. users' \in [Users -> Document]
  <2>1. users \in [Users -> Document]
    BY DEF IInv, Base
  <2>2. ASSUME NEW u \in Guests, GuestExpires(u) PROVE users' \in [Users -> Document]
    BY <2>1, <2>2 DEF GuestExpires, Document
  <2>3. QED
    BY <2>1, <2>2 DEF Environment, SeedConfig, CacheExpires, WindowEnds,
           RefreshTokenExpires, AccessTokenExpires, tokenVars
<1>3. stored' \in Pairs \cup {None} /\ stored' < next
  BY DEF IInv, Base
<1>4. calls' = [c \in Calls |-> calls'[c]] /\ \A c \in Calls : calls'[c] = calls[c]
  BY <1>1 DEF IInv, CallsOK
<1>5. QED
  BY <1>1, <1>2, <1>3, <1>4, CallsStep

\* A failing handler answers, and forgets the pair it issued.
LEMMA FailStep ==
  ASSUME IInv, NEW c \in Calls, Fail(c), UNCHANGED stored
  PROVE  IInv'
<1> DEFINE q == calls[c]
           code == 500
           none == None
           r == [q EXCEPT !.step = "answered", !.code = code, !.pair = none]
<1>1. q \in Call /\ CallOK(q) /\ users \in [Users -> Document]
  BY CallFacts
<1>2. calls' = [calls EXCEPT ![c] = r]
  BY ZenonT(60) DEF Fail
<1>3. q = calls[c]
  OBVIOUS
<1> HIDE DEF q
<1>0. "answered" \in Steps /\ code \in Codes /\ none \in Pairs \cup {None} /\ none = None
  BY DEF Steps, Codes
<1> HIDE DEF code, none
<1>4. r \in Call /\ r.op = q.op /\ r.token = q.token /\ r.step = "answered"
      /\ r.password = q.password /\ r.pair = none /\ r.user = q.user
  BY <1>0, <1>1 DEF Call
<1> HIDE DEF r
<1>5. r.pair < next
  BY <1>0, <1>4 DEF IInv, Base, None
<1>6. UNCHANGED <<next, payload, origin, redis, users>>
  BY DEF Fail, tokenVars
<1>7. QED
  BY <1>1, <1>2, <1>3, <1>4, <1>5, <1>6, MoveStep

\* What a step of a tab may do to the service: start, end or repeat calls.
CallsTab ==
  /\ calls' = [c \in Calls |-> calls'[c]]
  /\ \A c \in Calls :
       \/ calls'[c] \in {calls[c], Idle, [calls[c] EXCEPT !.step = "idle"]}
       \/ \E op \in Ops, user \in Users \cup {Nobody},
             token \in Pairs \cup {None}, password \in Version :
            /\ op \notin {"refresh", "logout"} => user \in Users
            /\ token < next
            /\ calls'[c] = Request(op, user, token, password)
TabStep ==
  /\ UNCHANGED <<users, next, payload, origin, redis>>
  /\ stored' \in Pairs \cup {None} /\ stored' < next
  /\ CallsTab

LEMMA TabStepOK ==
  ASSUME IInv, TabStep
  PROVE  IInv'
<1>1. UNCHANGED <<next, payload, origin>> /\ redis' \subseteq redis
      /\ users' \in [Users -> Document]
  BY DEF TabStep, IInv, Base
<1>2. ASSUME NEW q, CallOK(q) PROVE CallOK([q EXCEPT !.step = "idle"])
  <2> DEFINE r == [q EXCEPT !.step = "idle"]
  <2>1. r \in Call /\ r.op = q.op /\ r.token = q.token /\ r.step = "idle"
        /\ r.pair = q.pair /\ r.user = q.user
    BY <1>2 DEF Call, Steps, CallOK
  <2> HIDE DEF r
  <2>2. CallOK(r)
    BY <1>2, <2>1 DEF CallOK
  <2>3. QED
    BY <2>2 DEF r
<1>3. ASSUME NEW c \in Calls PROVE CallOK(calls'[c])
  <2>1. CallOK(calls[c]) /\ CallOK(Idle) /\ CallOK([calls[c] EXCEPT !.step = "idle"])
    BY <1>2, CallFacts, IdleOK DEF IInv
  <2>2. ASSUME NEW op \in Ops, NEW user \in Users \cup {Nobody},
               NEW token \in Pairs \cup {None}, NEW password \in Version,
               op \notin {"refresh", "logout"} => user \in Users, token < next,
               calls'[c] = Request(op, user, token, password)
        PROVE  CallOK(calls'[c])
    <3>1. CallOK(Request(op, user, token, password))
      BY <2>2, RequestOK DEF IInv
    <3>2. QED
      BY <2>2, <3>1
  <2>3. CASE calls'[c] \in {calls[c], Idle, [calls[c] EXCEPT !.step = "idle"]}
    BY <2>1, <2>3
  <2>4. QED
    BY <2>2, <2>3 DEF TabStep, CallsTab
<1>4. QED
  BY <1>1, <1>3, CallsStep DEF TabStep, CallsTab

\* Pairs a tab may store or send.
LEMMA PairFacts ==
  ASSUME IInv
  PROVE  /\ None \in Pairs \cup {None} /\ None < next
         /\ stored \in Pairs \cup {None} /\ stored < next
         /\ 0 \in Version /\ DOMAIN calls = Calls /\ calls = [c \in Calls |-> calls[c]]
         /\ \A c \in Calls :
              /\ calls[c].pair \in Pairs \cup {None} /\ calls[c].pair < next
              /\ calls[c].token \in Pairs \cup {None} /\ calls[c].token < next
              /\ calls[c].op \in Ops /\ calls[c].user \in Users \cup {Nobody}
              /\ calls[c].password \in Version
              /\ calls[c].op \notin {"refresh", "logout"} => calls[c].user \in Users
<1>1. \A c \in Calls : CallOK(calls[c]) /\ calls[c] \in Call
  BY DEF IInv, CallsOK, CallOK
<1>2. QED
  BY <1>1, AccountsAssumption DEF CallOK, Call, IInv, Base, CallsOK, None, Version

\* One call starts.
LEMMA PostOK ==
  ASSUME IInv, NEW c \in Calls, NEW op \in Ops, NEW user \in Users \cup {Nobody},
         NEW token \in Pairs \cup {None}, NEW password \in Version,
         op \notin {"refresh", "logout"} => user \in Users, token < next,
         calls' = [calls EXCEPT ![c] = Request(op, user, token, password)]
  PROVE  CallsTab
<1>1. /\ calls' = [d \in Calls |-> calls'[d]]
      /\ calls'[c] = Request(op, user, token, password)
      /\ \A d \in Calls : d # c => calls'[d] = calls[d]
  BY PairFacts
<1>2. QED
  BY <1>1 DEF CallsTab

\* One call ends, or nothing happens to the calls.
LEMMA HungOK ==
  ASSUME IInv, NEW c \in Calls, calls' = [calls EXCEPT ![c] = Idle] \/ UNCHANGED calls
  PROVE  CallsTab
<1>1. /\ calls' = [d \in Calls |-> calls'[d]]
      /\ \A d \in Calls : calls'[d] \in {calls[d], Idle}
  BY PairFacts
<1>2. QED
  BY <1>1 DEF CallsTab

\* A request answered by 401.
LEMMA OnUnauthorizedOK ==
  ASSUME IInv, NEW x \in Threads, OnUnauthorized(x)
  PROVE  TabStep
<1>1. x \in Calls /\ <<x[1], "mutex">> \in Calls
  BY BrowserAssumption DEF Threads, Kinds
<1>2. CASE act[x].retried \/ stored = None
  <2>1. CallsTab
    BY <1>1, <1>2, HungOK DEF OnUnauthorized, Hung
  <2>2. QED
    BY <1>2, <2>1, PairFacts DEF OnUnauthorized, Hung, ServiceIdle, tokenVars, clearSession, TabStep
<1>3. CASE ~(act[x].retried \/ stored = None)
  <2> DEFINE m == <<x[1], "mutex">>
             back == IF calls[x].step = "answered" THEN [calls[x] EXCEPT !.step = "idle"]
                     ELSE calls[x]
             mid == [calls EXCEPT ![x] = back]
             new == IF attempt[x[1]] = 0 THEN Request("refresh", Nobody, stored, 0) ELSE mid[m]
  <2>1. calls' = [mid EXCEPT ![m] = new]
    BY <1>3 DEF OnUnauthorized
  <2>2. /\ DOMAIN mid = Calls /\ mid[x] = back
        /\ \A c \in Calls : c # x => mid[c] = calls[c]
    BY <1>1, PairFacts
  <2>3. \A c \in Calls : mid[c] \in {calls[c], [calls[c] EXCEPT !.step = "idle"]}
    BY <2>2
  <2>4. new = mid[m] \/ new = Request("refresh", Nobody, stored, 0)
    OBVIOUS
  <2> HIDE DEF mid, new, m
  <2>5. /\ calls' = [c \in Calls |-> calls'[c]]
        /\ \A c \in Calls : calls'[c] = mid[c] \/ calls'[c] = Request("refresh", Nobody, stored, 0)
    BY <2>1, <2>2, <2>4
  <2>6. "refresh" \in Ops /\ Nobody \in Users \cup {Nobody}
    BY DEF Ops
  <2>7. \A c \in Calls :
          \/ calls'[c] \in {calls[c], Idle, [calls[c] EXCEPT !.step = "idle"]}
          \/ \E op \in Ops, user \in Users \cup {Nobody},
                token \in Pairs \cup {None}, password \in Version :
               /\ op \notin {"refresh", "logout"} => user \in Users
               /\ token < next
               /\ calls'[c] = Request(op, user, token, password)
    <3> TAKE c \in Calls
    <3>1. CASE calls'[c] = mid[c]
      BY <2>3, <3>1
    <3>2. CASE calls'[c] = Request("refresh", Nobody, stored, 0)
      BY <2>6, <3>2, PairFacts, Zenon
    <3>3. QED
      BY <2>5, <3>1, <3>2
  <2>9. CallsTab
    BY <2>5, <2>7 DEF CallsTab
  <2>8. QED
    BY <1>3, <2>9, PairFacts DEF OnUnauthorized, ServiceIdle, tokenVars, TabStep
<1>4. QED
  BY <1>2, <1>3

\* A refresh that starts.
LEMMA PostRefresh ==
  ASSUME IInv, NEW c \in Calls, NEW token \in Pairs \cup {None}, token < next,
         calls' = [calls EXCEPT ![c] = Request("refresh", Nobody, token, 0)]
  PROVE  CallsTab
<1>1. "refresh" \in Ops /\ Nobody \in Users \cup {Nobody} /\ 0 \in Version
  BY PairFacts DEF Ops
<1>2. QED
  BY <1>1, PostOK

\* performRefresh ends well: the waiting requests are sent again.
LEMMA RefreshSucceedsOK ==
  ASSUME IInv, NEW t \in Tabs, RefreshSucceeds(t)
  PROVE  TabStep
<1> DEFINE m == <<t, "mutex">>
<1>1. m \in Calls
  BY BrowserAssumption DEF Threads, Kinds
<1>2. \A c \in Calls : \/ calls'[c] \in {calls[c], Idle}
                       \/ calls'[c] = Request(calls[c].op, calls[c].user, calls[c].token, calls[c].password)
  BY DEF RefreshSucceeds
<1>3. calls' = [c \in Calls |-> calls'[c]]
  BY DEF RefreshSucceeds
<1>4. ASSUME NEW c \in Calls
      PROVE  \/ calls'[c] \in {calls[c], Idle, [calls[c] EXCEPT !.step = "idle"]}
             \/ \E op \in Ops, user \in Users \cup {Nobody},
                   token \in Pairs \cup {None}, password \in Version :
                  /\ op \notin {"refresh", "logout"} => user \in Users
                  /\ token < next
                  /\ calls'[c] = Request(op, user, token, password)
  <2>1. CASE calls'[c] = Request(calls[c].op, calls[c].user, calls[c].token, calls[c].password)
    BY <2>1, PairFacts, ZenonT(60)
  <2>2. QED
    BY <1>2, <2>1
<1>5. CallsTab
  BY <1>3, <1>4 DEF CallsTab
<1>6. stored' = calls[m].pair
  BY DEF RefreshSucceeds, applyAuthResponse
<1>7. QED
  BY <1>1, <1>5, <1>6, PairFacts DEF TabStep, RefreshSucceeds, ServiceIdle, tokenVars

LEMMA RefreshFailsOK ==
  ASSUME IInv, NEW t \in Tabs, RefreshFails(t)
  PROVE  TabStep
<1>1. calls' = [c \in Calls |-> calls'[c]] /\ \A c \in Calls : calls'[c] \in {calls[c], Idle}
  BY DEF RefreshFails
<1>2. CallsTab
  BY <1>1 DEF CallsTab
<1>3. QED
  BY <1>2, PairFacts DEF TabStep, RefreshFails, clearSession, ServiceIdle, tokenVars

\* Every other step of a tab starts or ends at most one call.
LEMMA TabSteps ==
  ASSUME IInv, NEW t \in Tabs,
         OpenTab(t) \/ Boot(t) \/ Refresh(t) \/ Continue(t)
  PROVE  TabStep
<1> USE DEF TabStep, ServiceIdle, tokenVars, clearSession
<1>1. ASSUME NEW k \in Kinds PROVE <<t, k>> \in Calls /\ <<t, k>> \in Threads
  BY BrowserAssumption DEF Threads
<1>2. <<t, "boot">> \in Calls /\ <<t, "mutex">> \in Calls /\ <<t, "signin">> \in Calls
      /\ <<t, "signout">> \in Calls /\ <<t, "upgrade">> \in Calls /\ <<t, "signin">> \in Threads
  BY <1>1 DEF Kinds
<1>3. CASE OpenTab(t)
  <2>1. UNCHANGED calls \/ calls' = [calls EXCEPT ![<<t, "boot">>] = Request("refresh", Nobody, stored, 0)]
    BY <1>3 DEF OpenTab, accountVars, Post
  <2>2. CallsTab
    BY <1>2, <2>1, HungOK, PostRefresh, PairFacts
  <2>3. QED
    BY <1>3, <2>2, PairFacts DEF OpenTab, accountVars, Post
<1>4. CASE BootRefreshed(t)
  <2>0. calls' = [calls EXCEPT ![<<t, "boot">>] = Idle]
    BY <1>4 DEF BootRefreshed, Hung
  <2>1. CallsTab
    BY <1>2, <2>0, HungOK
  <2>2. QED
    BY <1>2, <1>4, <2>1, PairFacts DEF BootRefreshed, Hung, applyAuthResponse
<1>5. CASE BootBound(t)
  <2>0. calls' = [calls EXCEPT ![<<t, "boot">>] = Idle]
    BY <1>5 DEF BootBound, Hung
  <2>1. CallsTab
    BY <1>2, <2>0, HungOK
  <2>2. QED
    BY <1>2, <1>5, <2>1, PairFacts DEF BootBound, Hung, applyAuthResponse
<1>6. CASE BootUser(t)
  <2>1. UNCHANGED calls \/ calls' = [calls EXCEPT ![<<t, "boot">>] = Request("refresh", Nobody, stored, 0)]
    BY <1>6 DEF BootUser
  <2>2. CallsTab
    BY <1>2, <2>1, HungOK, PostRefresh, PairFacts
  <2>3. QED
    BY <1>6, <2>2, PairFacts DEF BootUser, Served
<1>7. CASE BootRejected(t)
  <2>1. CallsTab
    BY <1>2, <1>7, HungOK DEF BootRejected
  <2>2. QED
    BY <1>7, <2>1, PairFacts DEF BootRejected, Served, Broken
<1>8. CASE RefreshSucceeds(t)
  BY <1>8, RefreshSucceedsOK
<1>9. CASE RefreshFails(t)
  BY <1>9, RefreshFailsOK
<1>10. CASE RefreshRetries(t)
  <2> DEFINE token == calls[<<t, "mutex">>].token
  <2>1. token \in Pairs \cup {None} /\ token < next
    BY <1>2, PairFacts
  <2>2. calls' = [calls EXCEPT ![<<t, "mutex">>] = Request("refresh", Nobody, token, 0)]
    BY <1>10 DEF RefreshRetries
  <2> HIDE DEF token
  <2>3. CallsTab
    <3> DEFINE m == <<t, "mutex">>
    <3>1. m \in Calls /\ calls' = [calls EXCEPT ![m] = Request("refresh", Nobody, token, 0)]
      BY <1>2, <2>2
    <3> HIDE DEF m
    <3>2. QED
      BY <2>1, <3>1, PostRefresh
  <2>4. QED
    BY <1>10, <2>3, PairFacts DEF RefreshRetries
<1>11. CASE SignedIn(t)
  <2>0. calls' = [calls EXCEPT ![<<t, "signin">>] = Idle]
    BY <1>11 DEF SignedIn, Hung
  <2>1. CallsTab
    BY <1>2, <2>0, HungOK
  <2>2. stored' \in {stored, calls[<<t, "signin">>].pair}
    BY <1>11 DEF SignedIn, applyAuthResponse
  <2>3. QED
    BY <1>2, <1>11, <2>1, <2>2, PairFacts DEF SignedIn, Hung
<1>12. CASE SignInRejected(t)
  <2>1. CASE OnUnauthorized(<<t, "signin">>)
    BY <1>2, <2>1, OnUnauthorizedOK
  <2>2. CASE Hung(<<t, "signin">>) /\ UNCHANGED stored
    <3>1. CallsTab
      BY <1>2, <2>2, HungOK DEF Hung
    <3>2. QED
      BY <2>2, <3>1, PairFacts DEF Hung
  <2>3. QED
    BY <1>12, <2>1, <2>2 DEF SignInRejected
<1>13. CASE SignedOutAt(t)
  <2>0. calls' = [calls EXCEPT ![<<t, "signout">>] = Idle]
    BY <1>13 DEF SignedOutAt, Hung
  <2>1. CallsTab
    BY <1>2, <2>0, HungOK
  <2>2. QED
    BY <1>13, <2>1, PairFacts DEF SignedOutAt, Hung
<1>14. CASE Upgraded(t)
  <2>0. calls' = [calls EXCEPT ![<<t, "upgrade">>] = Idle]
    BY <1>14 DEF Upgraded, Hung
  <2>1. CallsTab
    BY <1>2, <2>0, HungOK
  <2>2. QED
    BY <1>2, <1>14, <2>1, PairFacts DEF Upgraded, Hung, applyAuthResponse
<1>15. ASSUME NEW k \in Kinds, MeAnswer(<<t, k>>) PROVE TabStep
  <2>1. CallsTab
    BY <1>1, <1>15, HungOK DEF MeAnswer
  <2>2. QED
    BY <1>15, <2>1, PairFacts DEF MeAnswer, Served, Broken
<1>16. ASSUME NEW k \in Kinds, Unauthorized(<<t, k>>) PROVE TabStep
  BY <1>1, <1>16, OnUnauthorizedOK DEF Unauthorized
<1>17. QED
  BY <1>3, <1>4, <1>5, <1>6, <1>7, <1>8, <1>9, <1>10, <1>11, <1>12, <1>13, <1>14,
     <1>15, <1>16 DEF Boot, Refresh, Continue

\* What people start.
LEMMA UserSteps ==
  ASSUME IInv, NEW t \in Tabs,
         \/ ApiCall(t) \/ SignOut(t) \/ upgradeAccessTokenWithDeviceBinding(t)
         \/ LoginPage(t) \/ RegisterPage(t) \/ VerifyEmailPage(t) \/ GuestEntryPage(t)
  PROVE  TabStep
<1> USE DEF TabStep, ServiceIdle, tokenVars
<1>1. <<t, "signin">> \in Calls /\ <<t, "signout">> \in Calls /\ <<t, "upgrade">> \in Calls
  BY BrowserAssumption DEF Threads, Kinds
<1>2. CASE ApiCall(t)
  <2>1. CallsTab
    BY <1>1, <1>2, HungOK DEF ApiCall, accountVars
  <2>2. QED
    BY <1>2, <2>1, PairFacts DEF ApiCall, accountVars
<1>3. CASE SignOut(t)
  <2> DEFINE x == <<t, "signout">>
  <2>1. UNCHANGED calls \/ calls' = [calls EXCEPT ![x] = Request("logout", Nobody, stored, 0)]
    BY <1>3 DEF SignOut, accountVars, Post
  <2>2. x \in Calls /\ "logout" \in Ops /\ Nobody \in Users \cup {Nobody}
    BY <1>1 DEF Ops
  <2> HIDE DEF x
  <2>3. CallsTab
    BY <2>1, <2>2, HungOK, PostOK, PairFacts
  <2>4. QED
    BY <1>3, <2>3, PairFacts DEF SignOut, accountVars, Post, clearSession
<1>4. CASE upgradeAccessTokenWithDeviceBinding(t)
  <2>1. calls' = [calls EXCEPT ![<<t, "upgrade">>] = Request("refresh", Nobody, stored, 0)]
    BY <1>4 DEF upgradeAccessTokenWithDeviceBinding, Post
  <2>2. CallsTab
    BY <1>1, <2>1, PostRefresh, PairFacts
  <2>3. QED
    BY <1>4, <2>2, PairFacts DEF upgradeAccessTokenWithDeviceBinding, Post
<1>5. ASSUME NEW op \in {"login", "register", "verify", "guest"}, NEW u \in Users,
             NEW w \in Version, SignIn(t, op, u, w)
      PROVE  TabStep
  <2> DEFINE x == <<t, "signin">>
  <2>1. calls' = [calls EXCEPT ![x] = Request(op, u, None, w)]
    BY <1>5 DEF SignIn, Post
  <2>2. x \in Calls /\ op \in Ops
    BY <1>1 DEF Ops, LimitedOps
  <2> HIDE DEF x
  <2>3. CallsTab
    BY <2>1, <2>2, PostOK, PairFacts
  <2>4. QED
    BY <1>5, <2>3, PairFacts DEF SignIn, Post
<1>6. Registered \subseteq Users /\ Guests \subseteq Users /\ 0 \in Version
  BY PairFacts DEF Users
<1>7. QED
  BY <1>2, <1>3, <1>4, <1>5, <1>6 DEF LoginPage, RegisterPage, VerifyEmailPage, GuestEntryPage

\* Requests from outside the browser.
LEMMA ElsewhereSteps ==
  ASSUME IInv, AnsweredElsewhere \/ \E op \in {"forgot", "resend", "reset"}, u \in Registered :
                                     AskElsewhere(op, u)
  PROVE  TabStep
<1> USE DEF TabStep, ServiceIdle, tokenVars
<1>1. Elsewhere \in Calls
  BY BrowserAssumption
<1>2. CASE AnsweredElsewhere
  <2>1. CallsTab
    BY <1>1, <1>2, HungOK DEF AnsweredElsewhere, Hung
  <2>2. QED
    BY <1>2, <2>1, PairFacts DEF AnsweredElsewhere, Hung, tabVars
<1>3. ASSUME NEW op \in {"forgot", "resend", "reset"}, NEW u \in Registered, AskElsewhere(op, u)
      PROVE  TabStep
  <2>1. calls' = [calls EXCEPT ![Elsewhere] = Request(op, u, None, 0)]
    BY <1>3 DEF AskElsewhere, Post
  <2>2. op \in Ops /\ u \in Users
    BY DEF Ops, LimitedOps, Users
  <2>3. CallsTab
    BY <1>1, <2>1, <2>2, PostOK, PairFacts
  <2>4. QED
    BY <1>3, <2>3, PairFacts DEF AskElsewhere, Post
<1>4. QED
  BY <1>2, <1>3

-----------------------------------------------------------------------------
(* The theorem.                                                            *)

LEMMA InitOK == Init => IInv
<1> SUFFICES ASSUME Init PROVE IInv
  OBVIOUS
<1>1. Base
  <2>1. Absent \in Document /\ [status |-> "live", verified |-> TRUE, version |-> 0] \in Document
        /\ 0 \in Version
    BY AccountsAssumption DEF Document, Absent, Version
  <2>2. users \in [Users -> Document]
    BY <2>1 DEF Init, AccountsInit
  <2>3. payload \in [Pairs -> [user: Users \cup {Nobody}, v: Version]] /\ origin \in [Pairs -> Version]
    BY <2>1 DEF Init, AccountsInit
  <2>4. QED
    BY <2>2, <2>3 DEF Init, AccountsInit, Base, None
<1>2. PairsOK
  BY AccountsAssumption DEF Init, AccountsInit, PairsOK, Pairs
<1>3. CallsOK
  BY <1>1, IdleOK DEF Init, AccountsInit, CallsOK
<1>4. QED
  BY <1>1, <1>2, <1>3 DEF IInv

LEMMA NextOK == IInv /\ [Next]_vars => IInv'
<1> SUFFICES ASSUME IInv, [Next]_vars PROVE IInv'
  OBVIOUS
<1>1. CASE UNCHANGED vars
  <2>1. TabStep
    <3>1. CallsTab
      BY <1>1, PairFacts DEF CallsTab, vars, accountVars
    <3>2. QED
      BY <1>1, <3>1, PairFacts DEF TabStep, vars, accountVars, tokenVars, tabVars
  <2>2. QED
    BY <2>1, TabStepOK
<1>2. ASSUME NEW c \in Calls, Handle(c) /\ UNCHANGED tabVars PROVE IInv'
  BY <1>2, HandleStep DEF tabVars
<1>3. ASSUME NEW c \in Calls, HandlerFails(c) PROVE IInv'
  BY <1>3, FailStep DEF HandlerFails
<1>4. CASE Happens
  BY <1>4, EnvironmentStep DEF Happens
<1>5. ASSUME NEW t \in Tabs, OpenTab(t) \/ Boot(t) \/ Refresh(t) \/ Continue(t) PROVE IInv'
  BY <1>5, TabSteps, TabStepOK
<1>6. ASSUME NEW t \in Tabs,
             \/ ApiCall(t) \/ SignOut(t) \/ upgradeAccessTokenWithDeviceBinding(t)
             \/ LoginPage(t) \/ RegisterPage(t) \/ VerifyEmailPage(t) \/ GuestEntryPage(t)
      PROVE  IInv'
  BY <1>6, UserSteps, TabStepOK
<1>7. CASE AnsweredElsewhere \/ \E op \in {"forgot", "resend", "reset"}, u \in Registered :
                                  AskElsewhere(op, u)
  BY <1>7, ElsewhereSteps, TabStepOK
<1>8. QED
  BY <1>1, <1>2, <1>3, <1>4, <1>5, <1>6, <1>7 DEF Next, Runs

\* A password reset ends every session of the account, whatever sign-ins,
\* refreshes and failures are under way: OnlyCurrentPassword holds for any
\* number of tabs, accounts, guests, tokens and resets.
THEOREM SessionsFollowPassword == Spec => []OnlyCurrentPassword
<1>1. IInv => OnlyCurrentPassword
  BY DEF IInv, Base, PairsOK, OnlyCurrentPassword
<1>2. QED
  BY <1>1, InitOK, NextOK, PTL DEF Spec

-----------------------------------------------------------------------------
(* The counters of the rate limits, and the token in localStorage.         *)

\* A token that no refresh will accept any more, and that no step revives.
Dead(p) == ~Exists(payload[p].user) \/ payload[p].v # users[payload[p].user].version

\* What a handler relies on: the ways into its step, and that users and versions only go on.
Founded(r) ==
  /\ r.step \in {"gate", "limit", "arm"} => r.op \in LimitedOps
  /\ r.step = "revoke" => r.op \in {"refresh", "logout"}
  /\ r.op = "refresh" /\ r.step \in {"load", "config", "issue"} => r.user = payload[r.token].user
  /\ r.op = "refresh" /\ r.step = "revoke" /\ r.pair = None => r.token # None /\ Dead(r.token)
  /\ r.step = "issue" \/ (r.op = "refresh" /\ r.step = "config") =>
       users[r.user].status # "none" /\ r.doc.version <= users[r.user].version
  /\ r.op \in {"verify", "reset"} /\ r.step \in {"write", "reload"} => users[r.user].status # "none"
  /\ r.op \in {"register", "guest"} /\ r.step = "write" =>
       r.doc.status = "live" /\ r.doc.version = 0
  /\ r.pair # None => r.pair \in redis \cup expired

\* A pair is issued to an account that has been there, with a version it has had.
Accounted ==
  /\ \A u \in Users : users[u].status = "none" => users[u].version = 0
  /\ \A p \in Pairs : p < next => /\ users[payload[p].user].status # "none"
                                  /\ payload[p].v <= users[payload[p].user].version

\* A pair that is on its way to a tab is nobody else's.
Apart ==
  \A c, d \in Calls : calls[c].pair # None =>
    /\ calls[c].pair # stored /\ calls[c].pair # calls[d].token
    /\ c # d => calls[c].pair # calls[d].pair

\* A call that revoked the token of localStorage, and whose answer will replace it.
Spent(c) ==
  /\ calls[c].op \in {"refresh", "logout"} /\ calls[c].token = stored
  /\ calls[c].step = "answered" /\ calls[c].code = 200
Usable ==
  stored # None => \/ stored \in redis \cup expired \cup doubtful
                   \/ Dead(stored)
                   \/ \E c \in Calls : Spent(c)

ServiceInv == (\A c \in Calls : Founded(calls[c])) /\ Accounted /\ Apart /\ Usable

\* Accounts are removed once and their versions never fall.
Lasts ==
  /\ users' \in [Users -> Document]
  /\ \A u \in Users : /\ users[u].status # "none" => users'[u].status # "none"
                      /\ users[u].status = "gone" => users'[u].status = "gone"
                      /\ users[u].version <= users'[u].version
                      /\ users'[u].status = "none" => users'[u].version = 0

LEMMA SameUsersLast ==
  ASSUME IInv, Accounted, UNCHANGED users
  PROVE  Lasts
<1>1. users \in [Users -> Document]
  BY DEF IInv, Base
<1>2. \A u \in Users : users[u].version \in Nat
  BY <1>1, AccountsAssumption DEF Document, Version
<1> QED
  BY <1>1, <1>2 DEF Lasts, Accounted

\* What is known of an issued pair.
LEMMA IssuedFacts ==
  ASSUME IInv, Accounted, NEW p \in Pairs, p < next
  PROVE  /\ payload[p].user \in Users /\ payload[p].v \in Nat
         /\ users[payload[p].user].version \in Nat
         /\ users[payload[p].user].status \in {"live", "gone"}
         /\ payload[p].v <= users[payload[p].user].version
<1>1. payload[p].user \in Users /\ payload[p].v \in Nat
  BY AccountsAssumption DEF IInv, Base, PairsOK, Version
<1>2. users[payload[p].user] \in Document
  BY <1>1 DEF IInv, Base
<1> QED
  BY <1>1, <1>2, AccountsAssumption DEF Accounted, Document, Version

LEMMA DeadStays ==
  ASSUME IInv, Accounted, Lasts, NEW p \in Pairs, p < next, payload'[p] = payload[p], Dead(p)
  PROVE  Dead(p)'
<1> DEFINE u == payload[p].user
<1>1. /\ u \in Users /\ payload[p].v \in Nat /\ users[u].version \in Nat
      /\ users[u].status \in {"live", "gone"} /\ payload[p].v <= users[u].version
  BY IssuedFacts
<1>2. users'[u] \in Document /\ users'[u].version \in Nat
  BY <1>1, AccountsAssumption DEF Lasts, Document, Version
<1>3. users[u].status # "live" \/ payload[p].v # users[u].version
  BY DEF Dead, Exists
<1>4. users'[u].status # "live" \/ payload[p].v # users'[u].version
  <2> HIDE DEF u
  <2> QED
    BY <1>1, <1>2, <1>3 DEF Lasts
<1> QED
  BY <1>4 DEF Dead, Exists

\* The pairs issued so far keep what was stored with them.
Issues == /\ next \in Nat /\ next' \in Nat /\ next <= next'
          /\ \A p \in Pairs : p < next => payload'[p] = payload[p]

\* A call stays founded as the accounts go on.
LEMMA FoundedStays ==
  ASSUME IInv, Accounted, Lasts, Issues, NEW r, CallOK(r), Founded(r),
         r.pair # None => r.pair \in redis' \cup expired'
  PROVE  Founded(r)'
<1>1. r \in Call /\ r.token < next /\ r.token \in Pairs \cup {None}
  BY DEF CallOK, Call
<1>2. r.token # None => payload'[r.token] = payload[r.token]
  BY <1>1 DEF Issues
<1>3. r.op = "refresh" /\ r.step \in {"load", "config", "issue"} => r.token # None
  BY AccountsAssumption DEF CallOK, Pairs, None
<1>4. r.token # None /\ Dead(r.token) => Dead(r.token)'
  BY <1>1, <1>2, DeadStays
<1>5. r.op \notin {"refresh", "logout"} \/ (r.op = "refresh" /\ r.step \in {"load", "config", "issue"})
      => r.user \in Users
  BY DEF CallOK
<1>6. r.step = "issue" => r.op # "logout"
  BY DEF CallOK
<1>7. r.user \in Users => /\ users[r.user].version \in Nat /\ users'[r.user].version \in Nat
                          /\ r.doc.version \in Nat
  BY <1>1, AccountsAssumption DEF Lasts, IInv, Base, Document, Version, Call
<1>8. ASSUME r.step = "issue" \/ (r.op = "refresh" /\ r.step = "config")
      PROVE  users'[r.user].status # "none" /\ r.doc.version <= users'[r.user].version
  <2>1. r.user \in Users
    BY <1>5, <1>6, <1>8
  <2>2. users[r.user].status # "none" /\ r.doc.version <= users[r.user].version
    BY <1>8 DEF Founded
  <2>3. users'[r.user].status # "none" /\ users[r.user].version <= users'[r.user].version
    BY <2>1, <2>2 DEF Lasts
  <2> QED
    BY <1>7, <2>1, <2>2, <2>3
<1>9. r.op \in {"verify", "reset"} /\ r.step \in {"write", "reload"} => users'[r.user].status # "none"
  BY <1>5 DEF Founded, Lasts
<1>10. r.op = "refresh" /\ r.step \in {"load", "config", "issue"} => r.user = payload'[r.token].user
  BY <1>2, <1>3 DEF Founded
<1>11. r.op = "refresh" /\ r.step = "revoke" /\ r.pair = None => r.token # None /\ Dead(r.token)'
  BY <1>4 DEF Founded
<1> QED
  BY <1>8, <1>9, <1>10, <1>11 DEF Founded

LEMMA AccountedStays ==
  ASSUME IInv, Accounted, Lasts, UNCHANGED <<next, payload>>
  PROVE  Accounted'
<1>1. ASSUME NEW p \in Pairs, p < next
      PROVE  /\ users'[payload[p].user].status # "none"
             /\ payload[p].v <= users'[payload[p].user].version
  <2>1. /\ payload[p].user \in Users /\ payload[p].v \in Nat
        /\ users[payload[p].user].version \in Nat
        /\ users[payload[p].user].status # "none"
        /\ payload[p].v <= users[payload[p].user].version
    BY <1>1, IssuedFacts
  <2>2. users'[payload[p].user].version \in Nat
    BY <2>1, AccountsAssumption DEF Lasts, Document, Version
  <2> QED
    BY <2>1, <2>2 DEF Lasts
<1> QED
  BY <1>1 DEF Accounted, Lasts

-----------------------------------------------------------------------------
(* The handlers keep it.                                                   *)

\* A step of one call under way that takes nothing from Redis.
Onward(c, r) ==
  /\ calls' = [calls EXCEPT ![c] = r]
  /\ calls[c].step \notin {"idle", "answered"} /\ r.token = calls[c].token
  /\ UNCHANGED <<stored, doubtful>> /\ Lasts /\ Issues
  /\ redis \subseteq redis' \cup expired' /\ expired \subseteq expired'
  /\ r.pair \in {None, calls[c].pair} \/ (r.pair = next /\ next' > next)

\* The other calls stay founded as one takes a step.
LEMMA OthersFounded ==
  ASSUME IInv, ServiceInv, NEW c \in Calls, NEW r, calls' = [calls EXCEPT ![c] = r],
         Lasts, Issues, Founded(r)',
         \A d \in Calls : d # c /\ calls[d].pair # None => calls[d].pair \in redis' \cup expired'
  PROVE  \A d \in Calls : Founded(calls[d])'
<1>1. DOMAIN calls = Calls /\ \A d \in Calls : CallOK(calls[d]) /\ Founded(calls[d])
  BY DEF IInv, CallsOK, ServiceInv
<1>2. calls'[c] = r /\ \A d \in Calls : d # c => calls'[d] = calls[d]
  BY <1>1
<1>3. ASSUME NEW d \in Calls, NEW k, k = calls'[d] PROVE Founded(k)'
  <2>1. CASE d = c
    <3>1. k = r
      BY <1>2, <1>3, <2>1
    <3> QED
      BY <3>1
  <2>2. CASE d # c
    <3>1. k = calls[d]
      BY <1>2, <1>3, <2>2
    <3>2. CallOK(k) /\ Founded(k) /\ (k.pair # None => k.pair \in redis' \cup expired')
      BY <1>1, <2>2, <3>1
    <3> QED
      BY <3>2, FoundedStays DEF ServiceInv
  <2> QED
    BY <2>1, <2>2
<1> QED
  BY <1>3 DEF Founded

LEMMA OnwardOK ==
  ASSUME IInv, ServiceInv, NEW c \in Calls, NEW r, Onward(c, r), Founded(r)', Accounted'
  PROVE  ServiceInv'
<1>1. /\ DOMAIN calls = Calls /\ stored < next /\ stored \in Pairs \cup {None} /\ next \in Nat
      /\ \A d \in Calls : /\ CallOK(calls[d]) /\ Founded(calls[d])
                          /\ calls[d].pair < next /\ calls[d].token < next
  BY DEF IInv, Base, CallsOK, CallOK, ServiceInv
<1>2. calls'[c] = r /\ \A d \in Calls : d # c => calls'[d] = calls[d]
  BY <1>1 DEF Onward
<1>3. \A d \in Calls : calls'[d].token = calls[d].token
  BY <1>2 DEF Onward
<1>4. \A d \in Calls : calls[d].pair # None => calls[d].pair \in redis' \cup expired'
  BY <1>1 DEF Founded, Onward
<1>5. \A d \in Calls : Founded(calls[d])'
  BY <1>4, OthersFounded DEF Onward
<1>6. Apart'
  <2>1. CASE r.pair \in {None, calls[c].pair}
    <3>1. \A d \in Calls : calls'[d].pair # None => calls'[d].pair = calls[d].pair
      BY <1>2, <2>1
    <3> QED
      BY <1>3, <3>1 DEF Apart, ServiceInv, Onward
  <2>2. CASE r.pair = next
    <3>1. \A d \in Calls : calls'[d].pair = IF d = c THEN next ELSE calls[d].pair
      BY <1>2, <2>2
    <3>2. \A d \in Calls : calls[d].pair # next /\ calls[d].token # next
      BY <1>1
    <3>3. stored' = stored /\ stored # next
      BY <1>1 DEF Onward
    <3> QED
      BY <1>3, <3>1, <3>2, <3>3 DEF Apart, ServiceInv
  <2> QED
    BY <2>1, <2>2 DEF Onward
<1>7. Usable'
  <2> SUFFICES ASSUME stored # None
               PROVE  \/ stored \in redis' \cup expired' \cup doubtful
                      \/ Dead(stored)' \/ \E d \in Calls : Spent(d)'
    BY DEF Usable, Onward
  <2>1. CASE stored \in redis \cup expired \cup doubtful
    BY <2>1 DEF Onward
  <2>2. CASE Dead(stored)
    <3>1. stored \in Pairs /\ stored < next
      BY <1>1
    <3>2. Dead(stored) => \A p : p = stored => Dead(p)'
      BY <3>1, DeadStays DEF ServiceInv, Onward, Issues
    <3>3. UNCHANGED stored
      BY DEF Onward
    <3> QED
      BY <2>2, <3>2, <3>3 DEF Dead
  <2>3. ASSUME NEW d \in Calls, Spent(d) PROVE Spent(d)'
    BY <1>2, <2>3 DEF Spent, Onward
  <2> QED
    BY <2>1, <2>2, <2>3 DEF Usable, ServiceInv
<1> QED
  BY <1>5, <1>6, <1>7 DEF ServiceInv

\* A step that reads at most: the call goes on as r.
Passes(c, r) ==
  /\ calls' = [calls EXCEPT ![c] = r]
  /\ calls[c].step \notin {"idle", "answered"} /\ r.token = calls[c].token
  /\ UNCHANGED <<stored, doubtful, next, payload, redis, expired>> /\ Lasts
  /\ r.pair = calls[c].pair \/ r.pair = None

LEMMA PassesOK ==
  ASSUME IInv, ServiceInv, NEW c \in Calls, NEW r, Passes(c, r), Founded(r)'
  PROVE  ServiceInv'
<1>1. Issues
  BY DEF Issues, Passes, IInv, Base
<1>2. Accounted'
  BY AccountedStays DEF Passes, ServiceInv
<1>3. Onward(c, r)
  BY <1>1 DEF Onward, Passes
<1> QED
  BY <1>2, <1>3, OnwardOK

\* What a handler that answers or goes on leaves as it was.
Still == UNCHANGED <<stored, doubtful, next, payload, redis, expired>> /\ Lasts

\* What of a call does not change as it goes on.
Alike(r, q) == r.op = q.op /\ r.user = q.user /\ r.token = q.token /\ r.pair = q.pair

\* A call that goes on.
LEMMA GoToUse ==
  ASSUME IInv, ServiceInv, NEW c \in Calls, NEW step, GoTo(c, step), Still,
         calls[c].step \notin {"idle", "answered"},
         \A r : Alike(r, calls[c]) /\ r.step = step /\ r.doc = calls[c].doc => Founded(r)'
  PROVE  ServiceInv'
<1> DEFINE q == calls[c]
           r == [q EXCEPT !.step = step]
<1>1. q \in Call
  BY CallFacts
<1>2. calls' = [calls EXCEPT ![c] = r] /\ q = calls[c]
  BY DEF GoTo
<1> HIDE DEF q
<1>3. Alike(r, q) /\ r.step = step /\ r.doc = q.doc
  BY <1>1 DEF Call, Alike
<1> HIDE DEF r
<1>4. PICK k : k = r
  OBVIOUS
<1>5. Passes(c, k)
  BY <1>2, <1>3, <1>4 DEF Passes, Still, Alike
<1>6. Founded(k)'
  BY <1>2, <1>3, <1>4
<1> QED
  BY <1>5, <1>6, PassesOK

\* A call that is answered.
LEMMA AnswerUse ==
  ASSUME IInv, ServiceInv, NEW c \in Calls, NEW code, Answer(c, code), Still,
         calls[c].step \notin {"idle", "answered"}
  PROVE  ServiceInv'
<1> DEFINE q == calls[c]
           r == [q EXCEPT !.step = "answered", !.code = code]
<1>1. q \in Call /\ Founded(q)
  BY CallFacts DEF ServiceInv
<1>2. calls' = [calls EXCEPT ![c] = r] /\ q = calls[c]
  BY DEF Answer
<1> HIDE DEF q
<1>3. Alike(r, q) /\ r.step = "answered"
  BY <1>1 DEF Call, Alike
<1> HIDE DEF r
<1>4. PICK k : k = r
  OBVIOUS
<1>5. Passes(c, k)
  BY <1>2, <1>3, <1>4 DEF Passes, Still, Alike
<1>6. Founded(k)'
  BY <1>1, <1>3, <1>4 DEF Founded, Alike, Still
<1> QED
  BY <1>5, <1>6, PassesOK

\* A call that has read the document of its user.
LEMMA ReadUse ==
  ASSUME IInv, ServiceInv, NEW c \in Calls, NEW step, Read(c, step), Still,
         calls[c].step \notin {"idle", "answered"},
         \A r : Alike(r, calls[c]) /\ r.step = step /\ r.doc = users[calls[c].user] => Founded(r)'
  PROVE  ServiceInv'
<1> DEFINE q == calls[c]
           d == users[calls[c].user]
           r == [q EXCEPT !.step = step, !.doc = d]
<1>1. q \in Call
  BY CallFacts
<1>2. calls' = [calls EXCEPT ![c] = r] /\ q = calls[c]
  BY DEF Read
<1>0. d = users[calls[c].user]
  OBVIOUS
<1> HIDE DEF q, d
<1>3. Alike(r, q) /\ r.step = step /\ r.doc = d
  BY <1>1 DEF Call, Alike
<1> HIDE DEF r
<1>4. PICK k : k = r
  OBVIOUS
<1>5. Passes(c, k)
  BY <1>2, <1>3, <1>4 DEF Passes, Still, Alike
<1>6. Founded(k)'
  BY <1>0, <1>2, <1>3, <1>4
<1> QED
  BY <1>5, <1>6, PassesOK

\* The document of a user that the handler of c reads.
LEMMA ReadFacts ==
  ASSUME IInv, Accounted, NEW c \in Calls, calls[c].user \in Users
  PROVE  /\ users[calls[c].user] \in Document
         /\ users[calls[c].user].version \in Nat
         /\ users[calls[c].user].version <= users[calls[c].user].version
BY AccountsAssumption DEF IInv, Base, Document, Version

\* getRefreshPayload.
LEMMA LookupUse ==
  ASSUME IInv, ServiceInv, NEW c \in Calls, getRefreshPayload(c), UNCHANGED tabVars
  PROVE  ServiceInv'
<1>1. Still /\ calls[c].step = "lookup" /\ CallOK(calls[c]) /\ calls[c] \in Call
  BY SameUsersLast, CallFacts DEF getRefreshPayload, Still, tokenVars, tabVars, ServiceInv, At
<1>2. CASE calls[c].token \in redis
  <2> DEFINE q == calls[c]
             u == payload[q.token].user
             r == [q EXCEPT !.step = "load", !.user = u]
  <2>1. q \in Call /\ Founded(q) /\ q.op = "refresh" /\ q = calls[c]
    BY <1>1 DEF ServiceInv, CallOK
  <2>2. calls' = [calls EXCEPT ![c] = r]
    BY <1>2 DEF getRefreshPayload
  <2>3. u = payload[q.token].user
    OBVIOUS
  <2> HIDE DEF q, u
  <2>4. r.op = q.op /\ r.step = "load" /\ r.user = u /\ r.token = q.token /\ r.pair = q.pair
    BY <2>1 DEF Call
  <2> HIDE DEF r
  <2>5. PICK k : k = r
    OBVIOUS
  <2>6. Passes(c, k)
    BY <1>1, <2>1, <2>2, <2>4, <2>5 DEF Passes, Still
  <2>7. Founded(k)'
    BY <1>1, <2>1, <2>3, <2>4, <2>5 DEF Founded, Still
  <2> QED
    BY <2>6, <2>7, PassesOK
<1>3. CASE calls[c].token \notin redis
  BY <1>1, <1>3, AnswerUse DEF getRefreshPayload
<1> QED
  BY <1>2, <1>3

\* findUserById of postRefresh: a token that fails the checks is dead from now on.
LEMMA LoadUse ==
  ASSUME IInv, ServiceInv, NEW c \in Calls, loadForRefresh(c), UNCHANGED tabVars
  PROVE  ServiceInv'
<1> DEFINE u == calls[c].user
           t == calls[c].token
           good == Exists(u) /\ SameVersion(c)
<1>1. /\ Still /\ calls[c].step = "load" /\ calls[c].op = "refresh" /\ users' = users
      /\ CallOK(calls[c]) /\ Founded(calls[c])
  BY SameUsersLast, CallFacts DEF loadForRefresh, Still, tokenVars, tabVars, ServiceInv, At
<1>2. /\ u \in Users /\ t \in Pairs /\ t # None /\ t < next /\ u = payload[t].user
  BY <1>1 DEF CallOK, Founded, Pairs, None
<1>3. users[u] \in Document /\ users[u].version \in Nat
  BY <1>2, ReadFacts DEF ServiceInv
<1>4. users[u].status # "none"
  BY <1>2 DEF ServiceInv, Accounted
<1>5. ~good => Dead(t)
  BY <1>2 DEF Dead, SameVersion
<1>6. Read(c, IF good THEN "config" ELSE "revoke")
  BY DEF loadForRefresh
<1>7. ASSUME NEW r, Alike(r, calls[c]), r.step = "config", r.doc = users[u]
      PROVE  Founded(r)'
  BY <1>1, <1>2, <1>3, <1>4, <1>7 DEF Founded, Alike, Still
<1>8. ASSUME NEW r, Alike(r, calls[c]), r.step = "revoke", r.doc = users[u], ~good
      PROVE  Founded(r)'
  BY <1>1, <1>2, <1>5, <1>8 DEF Founded, Alike, Still, Dead, Exists
<1>9. CASE good
  BY <1>1, <1>6, <1>7, <1>9, ReadUse
<1>10. CASE ~good
  BY <1>1, <1>6, <1>8, <1>10, ReadUse
<1> QED
  BY <1>9, <1>10

\* issueAuthTokens: the new pair is nobody's, and of the version that was read.
LEMMA IssueUse ==
  ASSUME IInv, ServiceInv, NEW c \in Calls, issueAuthTokens(c), UNCHANGED tabVars
  PROVE  ServiceInv'
<1> DEFINE q == calls[c]
           step == IF q.op = "refresh" THEN "revoke" ELSE "answered"
           code == IF q.op = "refresh" THEN 0 ELSE 200
           r == [q EXCEPT !.pair = next, !.step = step, !.code = code]
<1>1. /\ q \in Call /\ CallOK(q) /\ Founded(q) /\ q.step = "issue" /\ q = calls[c]
      /\ next \in Pairs /\ next' = next + 1 /\ next \in Nat /\ next # None
  BY CallFacts, AccountsAssumption DEF issueAuthTokens, At, IInv, Base, Pairs, None, ServiceInv
<1>2. calls' = [calls EXCEPT ![c] = r] /\ redis' = redis \cup {next} /\ UNCHANGED <<users, expired>>
      /\ UNCHANGED <<stored, doubtful>>
  BY DEF issueAuthTokens, tabVars
<1>3. payload' = [payload EXCEPT ![next] = [user |-> q.user, v |-> q.doc.version]]
      /\ payload \in [Pairs -> [user: Users \cup {Nobody}, v: Version]]
  BY DEF issueAuthTokens, IInv, Base
<1>4. q.user \in Users /\ q.doc.version \in Nat
  BY <1>1, AccountsAssumption DEF CallOK, Call, Document, Version
<1>5. users[q.user].status # "none" /\ q.doc.version <= users[q.user].version
  BY <1>1 DEF Founded
<1>6. step \in {"revoke", "answered"} /\ (step = "revoke" => q.op = "refresh")
  OBVIOUS
<1> HIDE DEF q, step, code
<1>7. /\ r.op = q.op /\ r.step = step /\ r.user = q.user /\ r.token = q.token
      /\ r.pair = next
  BY <1>1 DEF Call
<1> HIDE DEF r
<1>8. Lasts
  BY <1>2, SameUsersLast DEF ServiceInv
<1>9. Issues
  BY <1>1, <1>3 DEF Issues
<1>10. Accounted'
  <2>1. ASSUME NEW p \in Pairs, p < next'
        PROVE  /\ users[payload'[p].user].status # "none"
               /\ payload'[p].v <= users[payload'[p].user].version
    <3>1. CASE p = next
      BY <1>1, <1>3, <1>5, <3>1
    <3>2. CASE p # next
      <4>1. payload'[p] = payload[p] /\ p < next
        BY <1>1, <1>3, <2>1, <3>2 DEF Pairs
      <4> QED
        BY <4>1 DEF ServiceInv, Accounted
    <3> QED
      BY <3>1, <3>2
  <2> QED
    BY <1>2, <2>1 DEF Accounted, ServiceInv
<1>11. PICK k : k = r
  OBVIOUS
<1>12. Founded(k)'
  BY <1>1, <1>2, <1>6, <1>7, <1>11 DEF Founded
<1>13. Onward(c, k)
  BY <1>1, <1>2, <1>7, <1>8, <1>9, <1>11 DEF Onward
<1> QED
  BY <1>10, <1>12, <1>13, OnwardOK

\* revokeRefreshToken: the token was dead, or its call carries what will replace it.
LEMMA RevokeUse ==
  ASSUME IInv, ServiceInv, NEW c \in Calls, revokeRefreshToken(c), UNCHANGED tabVars
  PROVE  ServiceInv'
<1> DEFINE q == calls[c]
           code == IF q.op = "refresh" /\ q.pair = None THEN 401 ELSE 200
           r == [q EXCEPT !.step = "answered", !.code = code]
<1>1. /\ q \in Call /\ CallOK(q) /\ Founded(q) /\ q.step = "revoke" /\ q = calls[c]
      /\ DOMAIN calls = Calls /\ q.op \in {"refresh", "logout"}
  BY CallFacts DEF revokeRefreshToken, At, ServiceInv, Founded
<1>2. /\ calls' = [calls EXCEPT ![c] = r] /\ redis' = redis \ {q.token}
      /\ UNCHANGED <<users, next, payload, expired, stored, doubtful>>
  BY DEF revokeRefreshToken, Answer, tabVars
<1>3. code = 200 \/ (code = 401 /\ q.op = "refresh" /\ q.pair = None)
  OBVIOUS
<1> HIDE DEF q, code
<1>4. Alike(r, q) /\ r.step = "answered" /\ r.code = code
  BY <1>1 DEF Call, Alike
<1> HIDE DEF r
<1>5. calls'[c] = r /\ \A d \in Calls : d # c => calls'[d] = calls[d]
  BY <1>1, <1>2
<1>6. \A d \in Calls : calls'[d].pair = calls[d].pair /\ calls'[d].token = calls[d].token
  BY <1>1, <1>4, <1>5 DEF Alike
<1>7. \A d \in Calls : calls[d].pair # None => calls[d].pair \in redis' \cup expired'
  BY <1>1, <1>2 DEF ServiceInv, Founded, Apart
<1>8. Lasts /\ Issues
  BY <1>2, SameUsersLast DEF ServiceInv, Issues, IInv, Base
<1>9. PICK k : k = r
  OBVIOUS
<1>10. Founded(k)'
  BY <1>1, <1>4, <1>7, <1>9 DEF Founded, Alike
<1>11. \A d \in Calls : Founded(calls[d])'
  BY <1>2, <1>7, <1>8, <1>9, <1>10, OthersFounded
<1>12. Accounted' /\ Apart'
  BY <1>2, <1>6 DEF ServiceInv, Accounted, Apart
<1>13. Usable'
  <2>1. CASE q.token = stored /\ code = 200
    <3>1. Spent(c)'
      BY <1>1, <1>2, <1>4, <1>5, <2>1 DEF Spent, Alike
    <3> QED
      BY <3>1 DEF Usable
  <2>2. CASE q.token = stored /\ code # 200
    <3>1. Dead(stored)
      BY <1>1, <1>3, <2>2 DEF Founded
    <3> QED
      BY <1>2, <3>1 DEF Usable, Dead, Exists
  <2>3. CASE q.token # stored
    <3>1. \A d \in Calls : Spent(d) => Spent(d)'
      BY <1>1, <1>2, <1>5 DEF Spent
    <3> QED
      BY <1>2, <2>3, <3>1 DEF Usable, Dead, Exists, ServiceInv
  <2> QED
    BY <2>1, <2>2, <2>3
<1> QED
  BY <1>11, <1>12, <1>13 DEF ServiceInv

\* readConfig: the document to insert is of the first version.
LEMMA ConfigUse ==
  ASSUME IInv, ServiceInv, NEW c \in Calls, readConfig(c), UNCHANGED tabVars
  PROVE  ServiceInv'
<1> DEFINE q == calls[c]
           v == q.op = "guest" \/ ~EmailVerificationRequired
           d == [Absent EXCEPT !.status = "live", !.verified = v]
           r == [q EXCEPT !.step = "write", !.doc = d]
<1>1. /\ q \in Call /\ Founded(q) /\ q.op \in {"register", "guest"} /\ q.step = "config" /\ q = calls[c]
  BY CallFacts DEF readConfig, ServiceInv, At
<1>2. calls' = [calls EXCEPT ![c] = r] /\ Still
  BY SameUsersLast DEF readConfig, Still, tokenVars, tabVars, ServiceInv
<1>3. d.status = "live" /\ d.version = 0
  BY DEF Absent
<1> HIDE DEF q, d
<1>4. Alike(r, q) /\ r.step = "write" /\ r.doc = d
  BY <1>1 DEF Call, Alike
<1> HIDE DEF r
<1>5. PICK k : k = r
  OBVIOUS
<1>6. Passes(c, k)
  BY <1>1, <1>2, <1>4, <1>5 DEF Passes, Still, Alike
<1>7. Founded(k)'
  BY <1>1, <1>2, <1>3, <1>4, <1>5 DEF Founded, Alike, Still
<1> QED
  BY <1>6, <1>7, PassesOK

\* createUser: a row of the first version, where there was none.
LEMMA CreateUse ==
  ASSUME IInv, ServiceInv, NEW c \in Calls, createUser(c), UNCHANGED tabVars
  PROVE  ServiceInv'
<1> DEFINE u == calls[c].user
<1>1. /\ calls[c].step = "write" /\ calls[c].op \in {"register", "guest"} /\ u \in Users
      /\ calls[c].doc \in Document /\ calls[c].doc.status = "live" /\ calls[c].doc.version = 0
      /\ users \in [Users -> Document] /\ Founded(calls[c])
  BY CallFacts DEF createUser, At, ServiceInv, Founded, CallOK, Call
<1>2. \A w \in Users : users[w].version \in Nat
  BY <1>1, AccountsAssumption DEF Document, Version
<1>3. UNCHANGED <<stored, doubtful, next, payload, redis, expired>>
  BY DEF createUser, tokenVars, tabVars
<1>4. CASE users[u].status # "none"
  <2>1. Still
    BY <1>3, <1>4, SameUsersLast DEF createUser, Still, ServiceInv
  <2> QED
    BY <1>1, <1>4, <2>1, AnswerUse DEF createUser
<1>5. CASE users[u].status = "none"
  <2>1. users' = [users EXCEPT ![u] = calls[c].doc]
    BY <1>5 DEF createUser
  <2>2. users[u].version = 0
    BY <1>1, <1>5 DEF ServiceInv, Accounted
  <2>3. Lasts
    <3>1. users' \in [Users -> Document]
      BY <1>1, <2>1
    <3>2. ASSUME NEW w \in Users
          PROVE  /\ users[w].status # "none" => users'[w].status # "none"
                 /\ users[w].status = "gone" => users'[w].status = "gone"
                 /\ users[w].version <= users'[w].version
                 /\ users'[w].status = "none" => users'[w].version = 0
      <4>1. CASE w = u
        BY <1>1, <1>5, <2>1, <2>2, <4>1
      <4>2. CASE w # u
        BY <1>1, <1>2, <2>1, <4>2 DEF ServiceInv, Accounted
      <4> QED
        BY <4>1, <4>2
    <3> QED
      BY <3>1, <3>2 DEF Lasts
  <2>4. Still
    BY <1>3, <2>3 DEF Still
  <2>5. users'[u].status = "live" /\ users'[u].version = 0
    BY <1>1, <2>1
  <2>6. ASSUME NEW r, Alike(r, calls[c]), r.step = "issue", r.doc = calls[c].doc PROVE Founded(r)'
    BY <1>1, <2>4, <2>5, <2>6 DEF Founded, Alike, Still
  <2> QED
    BY <1>1, <1>5, <2>4, <2>6, GoToUse, AnswerUse DEF createUser
<1> QED
  BY <1>4, <1>5

\* A step that changes one row and keeps its status.
LEMMA RowLasts ==
  ASSUME IInv, Accounted, NEW u \in Users, users' \in [Users -> Document],
         \A w \in Users : w # u => users'[w] = users[w],
         users'[u].status = users[u].status \/ (users[u].status = "live" /\ users'[u].status = "gone"),
         users[u].version <= users'[u].version,
         users[u].status = "none" => users'[u].version = users[u].version
  PROVE  Lasts
<1>1. \A w \in Users : users[w].version \in Nat
  BY AccountsAssumption DEF Document, Version, IInv, Base
<1>2. ASSUME NEW w \in Users
      PROVE  /\ users[w].status # "none" => users'[w].status # "none"
             /\ users[w].status = "gone" => users'[w].status = "gone"
             /\ users[w].version <= users'[w].version
             /\ users'[w].status = "none" => users'[w].version = 0
  <2>1. CASE w = u
    BY <2>1 DEF Accounted
  <2>2. CASE w # u
    BY <1>1, <2>2 DEF Accounted
  <2> QED
    BY <2>1, <2>2
<1> QED
  BY <1>2 DEF Lasts

\* setUserEmailVerified.
LEMMA VerifiedUse ==
  ASSUME IInv, ServiceInv, NEW c \in Calls, setUserEmailVerified(c), UNCHANGED tabVars
  PROVE  ServiceInv'
<1> DEFINE u == calls[c].user
<1>1. /\ calls[c].step = "write" /\ calls[c].op = "verify" /\ u \in Users
      /\ users \in [Users -> Document] /\ Founded(calls[c]) /\ users[u].version \in Nat
  BY CallFacts, AccountsAssumption
     DEF setUserEmailVerified, At, ServiceInv, CallOK, Call, Document, Version
<1>2. UNCHANGED <<stored, doubtful, next, payload, redis, expired>>
  BY DEF setUserEmailVerified, tokenVars, tabVars
<1>3. users' = [users EXCEPT ![u].verified = TRUE]
  BY DEF setUserEmailVerified
<1>4. /\ users' \in [Users -> Document] /\ users'[u].status = users[u].status
      /\ users'[u].version = users[u].version
      /\ \A w \in Users : w # u => users'[w] = users[w]
  BY <1>1, <1>3 DEF Document
<1>5. Still
  BY <1>1, <1>2, <1>4, RowLasts DEF Still, ServiceInv
<1>6. ASSUME NEW r, Alike(r, calls[c]), r.step = "reload" PROVE Founded(r)'
  BY <1>1, <1>4, <1>5, <1>6 DEF Founded, Alike, Still
<1> QED
  BY <1>1, <1>5, <1>6, GoToUse DEF setUserEmailVerified

\* setUserPasswordAndBumpVersion.
LEMMA BumpUse ==
  ASSUME IInv, ServiceInv, NEW c \in Calls, setUserPasswordAndBumpVersion(c), UNCHANGED tabVars
  PROVE  ServiceInv'
<1> DEFINE u == calls[c].user
<1>1. /\ calls[c].step = "write" /\ calls[c].op = "reset" /\ u \in Users
      /\ users \in [Users -> Document] /\ users[u].version \in Nat
  BY CallFacts, AccountsAssumption
     DEF setUserPasswordAndBumpVersion, At, ServiceInv, CallOK, Call, Document, Version
<1>2. UNCHANGED <<stored, doubtful, next, payload, redis, expired>>
  BY DEF setUserPasswordAndBumpVersion, tokenVars, tabVars
<1>3. /\ users' = [users EXCEPT ![u].version = @ + 1] /\ users[u].version < MaxResets
      /\ Answer(c, 200)
  BY DEF setUserPasswordAndBumpVersion
<1>4. users[u].version + 1 \in Version
  BY <1>1, <1>3, AccountsAssumption DEF Version
<1>5. /\ users' \in [Users -> Document] /\ users'[u].status = users[u].status
      /\ users'[u].version = users[u].version + 1
      /\ \A w \in Users : w # u => users'[w] = users[w]
  BY <1>1, <1>3, <1>4 DEF Document
<1>6. users[u].status # "none"
  BY <1>1 DEF ServiceInv, Founded
<1>7. Still
  BY <1>1, <1>2, <1>5, <1>6, RowLasts DEF Still, ServiceInv
<1> QED
  BY <1>1, <1>3, <1>7, AnswerUse

\* Every step of a handler.
LEMMA HandleUse ==
  ASSUME IInv, ServiceInv, NEW c \in Calls, Handle(c), UNCHANGED tabVars
  PROVE  ServiceInv'
<1> DEFINE q == calls[c]
<1>0. /\ CallOK(calls[c]) /\ Founded(calls[c]) /\ users \in [Users -> Document]
      /\ calls[c].op \notin {"refresh", "logout"} => calls[c].user \in Users
      /\ calls[c].op \in Ops /\ Accounted
  BY CallFacts DEF ServiceInv, CallOK, Call
<1>1. UNCHANGED <<users, tokenVars>> => Still
  BY SameUsersLast DEF Still, tokenVars, tabVars, ServiceInv
<1>2. calls[c].step \notin {"idle", "revoke", "answered"} => calls[c].op # "logout"
  BY <1>0 DEF CallOK
<1>3. CASE requireGuestSessionsEnabled(c)
  <2>1. Still /\ calls[c].step = "gate" /\ calls[c].op = "guest"
    BY <1>1, <1>3 DEF requireGuestSessionsEnabled, At
  <2>2. ASSUME NEW r, Alike(r, calls[c]), r.step = "limit" PROVE Founded(r)'
    BY <1>0, <2>1, <2>2 DEF Founded, Alike, Still, LimitedOps
  <2> QED
    BY <1>3, <2>1, <2>2, GoToUse, AnswerUse DEF requireGuestSessionsEnabled
<1>4. CASE requireEmailVerificationEnabled(c)
  <2>1. Still /\ calls[c].step = "gate" /\ calls[c].op \in LimitedOps
    BY <1>0, <1>1, <1>4 DEF requireEmailVerificationEnabled, At, Founded
  <2>2. ASSUME NEW r, Alike(r, calls[c]), r.step = "limit" PROVE Founded(r)'
    BY <1>0, <2>1, <2>2 DEF Founded, Alike, Still, LimitedOps
  <2> QED
    BY <1>4, <2>1, <2>2, GoToUse, AnswerUse DEF requireEmailVerificationEnabled
<1>5. CASE fixedWindowIncrement(c) \/ expireKey(c)
  <2>1. Still /\ calls[c].step \in {"limit", "arm"} /\ calls[c].op \in LimitedOps
    BY <1>0, <1>1, <1>5 DEF fixedWindowIncrement, expireKey, At, Founded
  <2>2. Entry(calls[c].op) \in {"config", "load"}
    BY <2>1 DEF Entry, LimitedOps
  <2>3. ASSUME NEW r, Alike(r, calls[c]), r.step \in {"arm", "config", "load"} PROVE Founded(r)'
    BY <1>0, <2>1, <2>3 DEF Founded, Alike, Still, LimitedOps
  <2> QED
    BY <1>5, <2>1, <2>2, <2>3, GoToUse, AnswerUse DEF fixedWindowIncrement, expireKey
<1>6. CASE refuse(c)
  BY <1>1, <1>6, AnswerUse DEF refuse, At
<1>7. CASE readConfig(c)
  BY <1>0, <1>1, <1>7, ConfigUse
<1>8. CASE createUser(c)
  BY <1>8, CreateUse
<1>9. CASE findUserByEmail(c)
  <2>1. Still /\ calls[c].step = "load" /\ calls[c].op = "login" /\ calls[c].user \in Users
    BY <1>0, <1>1, <1>9 DEF findUserByEmail, At
  <2>2. users[calls[c].user].version <= users[calls[c].user].version
    BY <1>0, <2>1, ReadFacts
  <2>3. ASSUME NEW r, Alike(r, calls[c]), r.step = "issue", r.doc = users[calls[c].user],
               Exists(calls[c].user)
        PROVE  Founded(r)'
    BY <1>0, <1>9, <2>1, <2>2, <2>3 DEF Founded, Alike, Still, findUserByEmail, Exists
  <2> QED
    BY <1>9, <2>1, <2>3, ReadUse, AnswerUse DEF findUserByEmail
<1>10. CASE getRefreshPayload(c)
  BY <1>10, LookupUse
<1>11. CASE loadForRefresh(c)
  BY <1>11, LoadUse
<1>12. CASE checkConfig(c)
  <2>1. /\ Still /\ calls[c].step = "config" /\ calls[c].op = "refresh" /\ UNCHANGED users
    BY <1>1, <1>12 DEF checkConfig, At
  <2>2. ASSUME NEW r, Alike(r, calls[c]), r.step = "issue", r.doc = calls[c].doc PROVE Founded(r)'
    BY <1>0, <2>1, <2>2 DEF Founded, Alike, Still
  <2> QED
    BY <1>12, <2>1, <2>2, GoToUse, AnswerUse DEF checkConfig
<1>13. CASE loadForVerify(c)
  <2>1. /\ Still /\ calls[c].step = "load" /\ calls[c].op = "verify" /\ calls[c].user \in Users
        /\ UNCHANGED users
    BY <1>0, <1>1, <1>13 DEF loadForVerify, At
  <2>2. users[calls[c].user].version <= users[calls[c].user].version
    BY <1>0, <2>1, ReadFacts
  <2>3. ASSUME NEW r, Alike(r, calls[c]), r.step \in {"issue", "write"}, r.doc = users[calls[c].user],
               Exists(calls[c].user)
        PROVE  Founded(r)'
    BY <1>0, <2>1, <2>2, <2>3 DEF Founded, Alike, Still, Exists
  <2> QED
    BY <1>13, <2>1, <2>3, ReadUse, AnswerUse DEF loadForVerify
<1>14. CASE setUserEmailVerified(c)
  BY <1>14, VerifiedUse
<1>15. CASE reloadVerified(c)
  <2>1. /\ Still /\ calls[c].step = "reload" /\ calls[c].op = "verify" /\ calls[c].user \in Users
        /\ UNCHANGED users
    BY <1>0, <1>1, <1>15 DEF reloadVerified, At
  <2>2. users[calls[c].user].version <= users[calls[c].user].version
    BY <1>0, <2>1, ReadFacts
  <2>3. ASSUME NEW r, Alike(r, calls[c]), r.step = "issue", r.doc = users[calls[c].user]
        PROVE  Founded(r)'
    BY <1>0, <2>1, <2>2, <2>3 DEF Founded, Alike, Still
  <2> QED
    BY <1>15, <2>1, <2>3, ReadUse DEF reloadVerified
<1>16. CASE postForgotPassword(c) \/ postResendVerification(c)
  BY <1>1, <1>16, AnswerUse DEF postForgotPassword, postResendVerification, At
<1>17. CASE loadForReset(c)
  <2>1. Still /\ calls[c].step = "load" /\ calls[c].op = "reset" /\ UNCHANGED users
    BY <1>1, <1>17 DEF loadForReset, At
  <2>2. ASSUME NEW r, Alike(r, calls[c]), r.step = "write", Exists(calls[c].user) PROVE Founded(r)'
    BY <1>0, <2>1, <2>2 DEF Founded, Alike, Still, Exists
  <2> QED
    BY <1>17, <2>1, <2>2, GoToUse, AnswerUse DEF loadForReset
<1>18. CASE setUserPasswordAndBumpVersion(c)
  BY <1>18, BumpUse
<1>19. CASE issueAuthTokens(c)
  BY <1>19, IssueUse
<1>20. CASE revokeRefreshToken(c)
  BY <1>20, RevokeUse
<1> QED
  BY <1>3, <1>4, <1>5, <1>6, <1>7, <1>8, <1>9, <1>10, <1>11, <1>12, <1>13, <1>14, <1>15,
     <1>16, <1>17, <1>18, <1>19, <1>20 DEF Handle

\* A failing handler answers, and forgets the pair it issued.
LEMMA FailUse ==
  ASSUME IInv, ServiceInv, NEW c \in Calls, Fail(c), UNCHANGED <<stored, doubtful>>
  PROVE  ServiceInv'
<1> DEFINE q == calls[c]
           none == None
           r == [q EXCEPT !.step = "answered", !.code = 500, !.pair = none]
<1>1. q \in Call /\ Founded(q) /\ q = calls[c] /\ q.step \notin {"idle", "answered"}
  BY CallFacts DEF Fail, ServiceInv
<1>2. calls' = [calls EXCEPT ![c] = r] /\ Still
  <2>1. calls' = [calls EXCEPT ![c] = r]
    BY ZenonT(60) DEF Fail
  <2>2. Still
    BY SameUsersLast DEF Fail, Still, tokenVars, ServiceInv
  <2> QED
    BY <2>1, <2>2
<1>0. none = None
  OBVIOUS
<1> HIDE DEF q, none
<1>3. r.op = q.op /\ r.user = q.user /\ r.token = q.token /\ r.step = "answered" /\ r.pair = none
  BY <1>1 DEF Call
<1> HIDE DEF r
<1>4. PICK k : k = r
  OBVIOUS
<1>5. Passes(c, k)
  BY <1>0, <1>1, <1>2, <1>3, <1>4 DEF Passes, Still
<1>6. Founded(k)'
  BY <1>0, <1>1, <1>3, <1>4 DEF Founded
<1> QED
  BY <1>5, <1>6, PassesOK

\* A token runs out, a guest's row goes, the configuration changes.
LEMMA EnvironmentUse ==
  ASSUME IInv, ServiceInv, Environment, UNCHANGED <<stored, doubtful>>
  PROVE  ServiceInv'
<1>1. /\ UNCHANGED <<calls, next, payload>>
      /\ redis \subseteq redis' \cup expired' /\ expired \subseteq expired'
  BY DEF Environment, SeedConfig, CacheExpires, WindowEnds, GuestExpires,
         RefreshTokenExpires, AccessTokenExpires, tokenVars
<1>2. users \in [Users -> Document] /\ \A u \in Users : users[u].version \in Nat
  BY AccountsAssumption DEF IInv, Base, Document, Version
<1>3. Lasts
  <2>1. CASE UNCHANGED users
    BY <2>1, SameUsersLast DEF ServiceInv
  <2>2. ASSUME NEW u \in Guests, GuestExpires(u) PROVE Lasts
    <3>1. /\ u \in Users /\ users[u].status = "live" /\ users' = [users EXCEPT ![u].status = "gone"]
      BY <2>2 DEF GuestExpires, Exists, Users
    <3>2. /\ users' \in [Users -> Document] /\ users'[u].status = "gone"
          /\ users'[u].version = users[u].version
          /\ \A w \in Users : w # u => users'[w] = users[w]
      BY <1>2, <3>1 DEF Document
    <3> QED
      BY <1>2, <3>1, <3>2, RowLasts DEF ServiceInv
  <2> QED
    BY <2>1, <2>2 DEF Environment, SeedConfig, CacheExpires, WindowEnds, RefreshTokenExpires,
           AccessTokenExpires, tokenVars
<1>4. Issues
  BY <1>1 DEF Issues, IInv, Base
<1>5. ASSUME NEW c \in Calls, NEW k, k = calls[c] PROVE Founded(k)'
  <2>1. CallOK(k) /\ Founded(k)
    BY <1>5 DEF IInv, CallsOK, ServiceInv
  <2>2. k.pair # None => k.pair \in redis' \cup expired'
    BY <1>1, <2>1 DEF Founded
  <2> QED
    BY <1>3, <1>4, <2>1, <2>2, FoundedStays DEF ServiceInv
<1>6. \A c \in Calls : Founded(calls[c])'
  BY <1>1, <1>5 DEF Founded
<1>7. Accounted'
  BY <1>1, <1>3, AccountedStays DEF ServiceInv
<1>8. Apart'
  BY <1>1 DEF Apart, ServiceInv
<1>9. Usable'
  <2>1. CASE stored # None /\ Dead(stored)
    <3>1. PICK p : p = stored
      OBVIOUS
    <3>2. p \in Pairs /\ p < next /\ payload'[p] = payload[p] /\ Dead(p)
      BY <1>1, <2>1, <3>1 DEF IInv, Base, Dead
    <3>3. Dead(p)'
      BY <1>3, <3>2, DeadStays DEF ServiceInv
    <3> QED
      BY <3>1, <3>3 DEF Usable, Dead
  <2>2. CASE stored # None /\ ~Dead(stored)
    BY <1>1, <2>2 DEF Usable, ServiceInv, Spent
  <2>3. CASE stored = None
    BY <2>3 DEF Usable
  <2> QED
    BY <2>1, <2>2, <2>3
<1> QED
  BY <1>6, <1>7, <1>8, <1>9 DEF ServiceInv

-----------------------------------------------------------------------------
(* What a tab does has a call exactly when it waits for one.               *)

IsActivity(a) ==
  a = [step |-> a.step, with |-> a.with, retried |-> a.retried, waiting |-> a.waiting]
Tidy(x, a, r) ==
  /\ x[2] = "mutex" => a.step = "done" /\ ~a.waiting
  /\ x[2] # "mutex" /\ (a.step \notin {"post", "bound"} \/ a.waiting) => r.step = "idle"
  /\ a.step \in {"post", "bound"} /\ ~a.waiting => r.step # "idle"
  /\ a.waiting => a.step \in {"me", "sent"} \/ (x[2] = "signin" /\ a.step = "post")
  /\ x[2] = "signin" /\ a.step = "post" => r.op \notin {"refresh", "logout"}
TabsInv ==
  /\ act = [x \in Threads |-> act[x]] /\ attempt \in [Tabs -> Nat]
  /\ \A x \in Threads : IsActivity(act[x]) /\ Tidy(x, act[x], calls[x])
  /\ \A x \in Threads : act[x].waiting => attempt[x[1]] # 0
  /\ \A t \in Tabs : /\ attempt[t] = 0 <=> calls[<<t, "mutex">>].step = "idle"
                     /\ t \notin open => act[<<t, "boot">>].step = "none"
  /\ calls[Elsewhere].step # "idle" => calls[Elsewhere].op \notin {"refresh", "logout"}

\* Calls that are not started go on.
LEMMA CallsGoOn ==
  ASSUME TabsInv, UNCHANGED <<act, attempt, open>>,
         \A c \in Calls : /\ calls'[c].op = calls[c].op
                          /\ calls[c].step = "idle" <=> calls'[c].step = "idle"
  PROVE  TabsInv'
<1>1. \A t \in Tabs : <<t, "mutex">> \in Calls
  BY BrowserAssumption DEF Threads, Kinds
<1>2. \A x \in Threads : x \in Calls
  BY BrowserAssumption
<1>3. \A x \in Threads : Tidy(x, act'[x], calls'[x])
  BY <1>2 DEF TabsInv, Tidy
<1>4. Elsewhere \in Calls
  BY BrowserAssumption
<1> QED
  BY <1>1, <1>3, <1>4 DEF TabsInv

\* The steps of a handler move one call under way.
LEMMA HandlerMoves ==
  ASSUME IInv, NEW c \in Calls, Handle(c) \/ Fail(c)
  PROVE  /\ calls[c].step # "idle" /\ calls'[c].step # "idle"
         /\ \A d \in Calls : d # c => calls'[d] = calls[d]
         /\ calls'[c].op = calls[c].op
<1>0. calls[c] \in Call /\ DOMAIN calls = Calls
  BY CallFacts
<1>1. ASSUME NEW step, GoTo(c, step) \/ Read(c, step)
      PROVE  /\ \A d \in Calls : d # c => calls'[d] = calls[d]
             /\ calls'[c].op = calls[c].op /\ calls'[c].step = step
  BY <1>0, <1>1 DEF GoTo, Read, Call
<1>2. ASSUME NEW code, Answer(c, code)
      PROVE  /\ \A d \in Calls : d # c => calls'[d] = calls[d]
             /\ calls'[c].op = calls[c].op /\ calls'[c].step = "answered"
  BY <1>0, <1>2 DEF Answer, Call
<1>0a. \A op : Entry(op) # "idle"
  BY DEF Entry
<1>3. CASE requireGuestSessionsEnabled(c) \/ requireEmailVerificationEnabled(c)
           \/ fixedWindowIncrement(c) \/ refuse(c) \/ expireKey(c)
  BY <1>0a, <1>1, <1>2, <1>3 DEF requireGuestSessionsEnabled, requireEmailVerificationEnabled,
       fixedWindowIncrement, refuse, expireKey, At
<1>4. CASE createUser(c) \/ findUserByEmail(c) \/ loadForRefresh(c) \/ checkConfig(c)
  BY <1>1, <1>2, <1>4 DEF createUser, findUserByEmail, loadForRefresh, checkConfig, At
<1>5. CASE readConfig(c)
  BY <1>0, <1>5 DEF readConfig, At, Call
<1>6. CASE getRefreshPayload(c)
  BY <1>0, <1>2, <1>6 DEF getRefreshPayload, At, Call
<1>7. CASE loadForVerify(c) \/ setUserEmailVerified(c) \/ reloadVerified(c)
  BY <1>1, <1>2, <1>7 DEF loadForVerify, setUserEmailVerified, reloadVerified, At
<1>8. CASE postForgotPassword(c) \/ postResendVerification(c) \/ loadForReset(c)
           \/ setUserPasswordAndBumpVersion(c)
  BY <1>1, <1>2, <1>8 DEF postForgotPassword, postResendVerification, loadForReset,
       setUserPasswordAndBumpVersion, At
<1>9. CASE issueAuthTokens(c)
  BY <1>0, <1>9 DEF issueAuthTokens, At, Call
<1>10. CASE revokeRefreshToken(c)
  BY <1>2, <1>10 DEF revokeRefreshToken, At
<1>11. CASE Fail(c)
  BY <1>0, <1>11 DEF Fail, Call
<1> QED
  BY <1>3, <1>4, <1>5, <1>6, <1>7, <1>8, <1>9, <1>10, <1>11 DEF Handle

LEMMA HandlerTabs ==
  ASSUME IInv, TabsInv, NEW c \in Calls, Handle(c) \/ Fail(c), UNCHANGED <<act, attempt, open>>
  PROVE  TabsInv'
BY HandlerMoves, CallsGoOn

-----------------------------------------------------------------------------
(* The counters of the rate limits.                                        *)

Counters == hits \in [LimitedOps -> Nat] /\ CounterArmed

\* A step that leaves the counters alone, and no request at its EXPIRE.
LEMMA CountersLast ==
  ASSUME Counters, UNCHANGED limitVars,
         \A c \in Calls : calls[c].step = "arm" => calls'[c] = calls[c]
  PROVE  Counters'
BY DEF Counters, CounterArmed, limitVars, At

\* The first request of a window has the expiry to set, and sets it.
LEMMA HandleCounts ==
  ASSUME IInv, ServiceInv, Counters, NEW c \in Calls, Handle(c)
  PROVE  Counters'
<1>0. /\ calls[c] \in Call /\ Founded(calls[c]) /\ DOMAIN calls = Calls
      /\ \A d \in Calls : d # c => calls'[d] = calls[d]
      /\ calls'[c].op = calls[c].op
  BY CallFacts, HandlerMoves DEF ServiceInv
<1>1. CASE fixedWindowIncrement(c)
  <2> DEFINE op == calls[c].op
  <2>1. /\ op \in LimitedOps /\ calls[c].step = "limit"
        /\ hits' = [hits EXCEPT ![op] = @ + 1] /\ UNCHANGED <<armed, stuck>>
        /\ hits[op] = 0 => calls'[c].step = "arm"
    BY <1>0, <1>1 DEF fixedWindowIncrement, Founded, At, GoTo, Call
  <2>2. calls'[c].op = op
    BY <1>0
  <2> HIDE DEF op
  <2>3. hits' \in [LimitedOps -> Nat]
    BY <2>1 DEF Counters
  <2>4. ASSUME NEW o \in LimitedOps, hits'[o] > 0
        PROVE  \/ o \in armed' \cup stuck'
               \/ \E d \in Calls : calls'[d].op = o /\ calls'[d].step = "arm"
    <3>1. CASE o = op /\ hits[op] = 0
      BY <2>1, <2>2, <3>1
    <3>2. CASE ~(o = op /\ hits[op] = 0)
      <4>1. hits[o] > 0
        BY <2>1, <2>4, <3>2 DEF Counters
      <4>2. \/ o \in armed \cup stuck
            \/ \E d \in Calls : calls[d].op = o /\ calls[d].step = "arm"
        BY <4>1 DEF Counters, CounterArmed, At
      <4> QED
        BY <1>0, <2>1, <4>2
    <3> QED
      BY <3>1, <3>2
  <2> QED
    BY <2>3, <2>4 DEF Counters, CounterArmed, At
<1>2. CASE expireKey(c)
  <2>1. calls[c].step = "arm" /\ armed' = armed \cup {calls[c].op} /\ UNCHANGED <<hits, stuck>>
    BY <1>2 DEF expireKey, At
  <2> QED
    BY <1>0, <2>1 DEF Counters, CounterArmed, At
<1>3. CASE ~fixedWindowIncrement(c) /\ ~expireKey(c)
  <2>1. calls[c].step # "arm" /\ UNCHANGED limitVars
    BY <1>3 DEF Handle, requireGuestSessionsEnabled, requireEmailVerificationEnabled, refuse,
         readConfig, createUser, findUserByEmail, getRefreshPayload, loadForRefresh, checkConfig,
         loadForVerify, setUserEmailVerified, reloadVerified, postForgotPassword,
         postResendVerification, loadForReset, setUserPasswordAndBumpVersion, issueAuthTokens,
         revokeRefreshToken, At
  <2> QED
    BY <1>0, <2>1, CountersLast
<1> QED
  BY <1>1, <1>2, <1>3

LEMMA FailCounts ==
  ASSUME IInv, Counters, NEW c \in Calls, Fail(c)
  PROVE  Counters'
<1>1. \A d \in Calls : d # c => calls'[d] = calls[d]
  BY HandlerMoves
<1>2. /\ UNCHANGED <<hits, armed>> /\ stuck \subseteq stuck'
      /\ calls[c].step = "arm" => calls[c].op \in stuck'
  BY DEF Fail, At
<1> QED
  BY <1>1, <1>2 DEF Counters, CounterArmed, At

LEMMA EnvironmentCounts ==
  ASSUME Counters, Environment
  PROVE  Counters'
<1>1. UNCHANGED calls
  BY DEF Environment, SeedConfig, CacheExpires, WindowEnds, GuestExpires,
         RefreshTokenExpires, AccessTokenExpires
<1>2. ASSUME NEW op \in LimitedOps, WindowEnds(op) PROVE Counters'
  <2>1. /\ hits' = [hits EXCEPT ![op] = 0] /\ armed' = armed \ {op} /\ UNCHANGED stuck
    BY <1>2 DEF WindowEnds
  <2>2. hits' \in [LimitedOps -> Nat]
    BY <2>1 DEF Counters
  <2>3. \A o \in LimitedOps : hits'[o] > 0 => o # op /\ hits[o] > 0
    BY <2>1 DEF Counters
  <2>4. \A o \in LimitedOps : o # op /\ o \in armed => o \in armed'
    BY <2>1
  <2> QED
    BY <1>1, <2>1, <2>2, <2>3, <2>4 DEF Counters, CounterArmed, At
<1>3. CASE UNCHANGED limitVars
  BY <1>1, <1>3, CountersLast
<1> QED
  BY <1>2, <1>3 DEF Environment, SeedConfig, CacheExpires, GuestExpires,
         RefreshTokenExpires, AccessTokenExpires

-----------------------------------------------------------------------------
(* What the tabs do to calls and to localStorage.                          *)

\* A new token in localStorage, if any, is the one a call has just brought.
Replaced == stored' = None \/ \E d \in Calls : stored' = calls[d].pair /\ calls'[d].pair = None

\* A tab ends its call, or asks again.
Takes(q, r) ==
  \/ r = Idle \/ r = [q EXCEPT !.step = "idle"]
  \/ \E op \in Ops, user \in Users \cup {Nobody}, token \in {None, stored, q.token},
        password \in Version : r = Request(op, user, token, password)
Freed(c, r) ==
  /\ calls[c].step \in {"idle", "answered"}
  /\ stored # None /\ Spent(c) => Replaced \/ stored \in doubtful'
  /\ Takes(calls[c], r)
TabMoves ==
  /\ calls' = [c \in Calls |-> calls'[c]]
  /\ UNCHANGED <<users, tokenVars, limitVars>> /\ doubtful \subseteq doubtful'
  /\ stored' = stored \/ Replaced
  /\ \A c \in Calls : calls'[c] = calls[c] \/ Freed(c, calls'[c])

\* A request as it starts.
LEMMA RequestFacts ==
  ASSUME NEW op \in Ops, NEW user, NEW token, NEW password,
         NEW r, r = Request(op, user, token, password)
  PROVE  /\ r.op = op /\ r.token = token /\ r.pair = None
         /\ r.step \in {"gate", "limit", "lookup", "revoke", "load"}
         /\ r.step \in {"gate", "limit"} => op \in LimitedOps
         /\ r.step = "revoke" => op = "logout"
         /\ op = "refresh" => r.step = "lookup"
<1> DEFINE step == IF op \in {"verify", "resend", "guest"} THEN "gate"
                   ELSE IF op \in LimitedOps THEN "limit" ELSE Entry(op)
<1>1. r = [Idle EXCEPT !.op = op, !.user = user, !.token = token,
                       !.password = password, !.step = step]
  BY DEF Request
<1>2. /\ step \in {"gate", "limit", "lookup", "revoke", "load"}
      /\ step \in {"gate", "limit"} => op \in LimitedOps
      /\ step = "revoke" => op = "logout"
      /\ op = "refresh" => step = "lookup"
  BY DEF Ops, LimitedOps, Entry
<1> HIDE DEF step
<1>3. r.op = op /\ r.token = token /\ r.pair = None /\ r.step = step
  BY <1>1 DEF Idle
<1> QED
  BY <1>2, <1>3

\* What is known of a call a tab has taken up.
LEMMA TakenFacts ==
  ASSUME IInv, NEW c \in Calls, NEW r, Takes(calls[c], r)
  PROVE  /\ r.pair = None \/ (r.step = "idle" /\ r.pair = calls[c].pair)
         /\ r.pair # None => r.op = calls[c].op
         /\ r.token \in {None, stored, calls[c].token}
         /\ r.step \in {"idle", "gate", "limit", "lookup", "revoke", "load"}
         /\ r.step \in {"gate", "limit"} => r.op \in LimitedOps
         /\ r.step = "revoke" => r.op = "logout"
         /\ r.op = "refresh" => r.step \in {"idle", "lookup"}
<1>1. CASE r = Idle
  BY <1>1 DEF Idle
<1>2. CASE r = [calls[c] EXCEPT !.step = "idle"]
  <2>1. calls[c] \in Call
    BY CallFacts
  <2>2. r.pair = calls[c].pair /\ r.op = calls[c].op /\ r.token = calls[c].token /\ r.step = "idle"
    BY <1>2, <2>1 DEF Call
  <2> QED
    BY <2>2
<1>3. ASSUME NEW op \in Ops, NEW user \in Users \cup {Nobody},
             NEW token \in {None, stored, calls[c].token},
             NEW password \in Version, r = Request(op, user, token, password)
      PROVE  /\ r.pair = None /\ r.token \in {None, stored, calls[c].token}
             /\ r.step \in {"gate", "limit", "lookup", "revoke", "load"}
             /\ r.step \in {"gate", "limit"} => r.op \in LimitedOps
             /\ r.step = "revoke" => r.op = "logout"
             /\ r.op = "refresh" => r.step \in {"idle", "lookup"}
  BY <1>3, RequestFacts
<1> QED
  BY <1>1, <1>2, <1>3 DEF Takes

\* The steps of the tabs keep what the service relies on.
LEMMA TabMovesUse ==
  ASSUME IInv, ServiceInv, TabMoves
  PROVE  ServiceInv'
<1>1. /\ UNCHANGED <<users, next, payload, redis, expired>>
      /\ \A c \in Calls : Founded(calls[c])
  BY DEF TabMoves, tokenVars, ServiceInv
<1>2. ASSUME NEW c \in Calls, NEW k, k = calls'[c] PROVE Founded(k)'
  <2>1. CASE k = calls[c]
    BY <1>1, <2>1 DEF Founded, Dead, Exists
  <2>2. CASE Freed(c, k)
    <3>1. /\ k.pair # None => k.pair = calls[c].pair
          /\ k.step \in {"idle", "gate", "limit", "lookup", "revoke", "load"}
          /\ k.step \in {"gate", "limit"} => k.op \in LimitedOps
          /\ k.step = "revoke" => k.op = "logout"
          /\ k.op = "refresh" => k.step \in {"idle", "lookup"}
      BY <2>2, TakenFacts DEF Freed
    <3>2. k.pair # None => k.pair \in redis' \cup expired'
      BY <1>1, <3>1 DEF Founded
    <3> QED
      BY <3>1, <3>2 DEF Founded
  <2> QED
    BY <1>2, <2>1, <2>2 DEF TabMoves
<1>3. \A c \in Calls : Founded(calls[c])'
  BY <1>2 DEF Founded
<1>4. Accounted'
  BY <1>1 DEF Accounted, ServiceInv
<1>5. \A c \in Calls : /\ calls'[c].pair \in {None, calls[c].pair}
                       /\ calls'[c].token \in {None, stored, calls[c].token}
  BY TakenFacts DEF TabMoves, Freed
<1>6. Apart'
  <2>1. ASSUME NEW c \in Calls, calls'[c].pair # None
        PROVE  calls'[c].pair = calls[c].pair /\ calls[c].pair # None
    BY <1>5, <2>1
  <2>2. ASSUME NEW c \in Calls, calls'[c].pair # None PROVE calls'[c].pair # stored'
    <3>1. CASE stored' = stored
      BY <2>1, <2>2, <3>1 DEF Apart, ServiceInv
    <3>2. ASSUME NEW d \in Calls, stored' = calls[d].pair, calls'[d].pair = None
          PROVE  calls'[c].pair # stored'
      BY <2>1, <2>2, <3>2 DEF Apart, ServiceInv
    <3> QED
      BY <2>2, <3>1, <3>2 DEF TabMoves, Replaced
  <2>3. ASSUME NEW c \in Calls, NEW d \in Calls, calls'[c].pair # None
        PROVE  calls'[c].pair # calls'[d].token /\ (c # d => calls'[c].pair # calls'[d].pair)
    BY <1>5, <2>1, <2>3 DEF Apart, ServiceInv
  <2> QED
    BY <2>2, <2>3 DEF Apart
<1>7. Usable'
  <2> SUFFICES ASSUME stored' # None
               PROVE  \/ stored' \in redis \cup expired \cup doubtful'
                      \/ Dead(stored)' \/ \E c \in Calls : Spent(c)'
    BY <1>1 DEF Usable
  <2>1. CASE Replaced
    BY <1>1, <2>1 DEF Replaced, Founded
  <2>2. CASE stored' = stored /\ ~Replaced
    <3>1. CASE stored \in redis \cup expired \cup doubtful
      BY <2>2, <3>1 DEF TabMoves
    <3>2. CASE Dead(stored)
      BY <1>1, <2>2, <3>2 DEF Dead, Exists
    <3>3. ASSUME NEW c \in Calls, Spent(c)
          PROVE  stored \in doubtful' \/ Spent(c)'
      <4>1. CASE calls'[c] = calls[c]
        BY <2>2, <3>3, <4>1 DEF Spent
      <4>2. CASE Freed(c, calls'[c])
        BY <2>2, <3>3, <4>2 DEF Freed
      <4> QED
        BY <4>1, <4>2 DEF TabMoves
    <3> QED
      BY <2>2, <3>1, <3>2, <3>3 DEF Usable, ServiceInv
  <2> QED
    BY <2>1, <2>2 DEF TabMoves
<1> QED
  BY <1>3, <1>4, <1>6, <1>7 DEF ServiceInv

LEMMA TabMovesCount ==
  ASSUME Counters, TabMoves
  PROVE  Counters'
<1>1. \A c \in Calls : calls[c].step = "arm" => calls'[c] = calls[c]
  BY DEF TabMoves, Freed
<1> QED
  BY <1>1, CountersLast DEF TabMoves

-----------------------------------------------------------------------------
(* One call of a tab.                                                      *)

LEMMA OneMoves ==
  ASSUME IInv, NEW c \in Calls, NEW r, calls' = [calls EXCEPT ![c] = r],
         UNCHANGED <<users, tokenVars, limitVars>>, doubtful \subseteq doubtful',
         stored' = stored \/ Replaced, r = calls[c] \/ Freed(c, r)
  PROVE  TabMoves
<1>1. /\ calls' = [d \in Calls |-> calls'[d]] /\ calls'[c] = r
      /\ \A d \in Calls : d # c => calls'[d] = calls[d]
  BY PairFacts
<1>2. \A d \in Calls : calls'[d] = calls[d] \/ Freed(d, calls'[d])
  BY <1>1
<1> QED
  BY <1>1, <1>2 DEF TabMoves

\* What hearing an answer says.
LEMMA HearFacts ==
  ASSUME NEW c \in Calls, NEW code, Hear(c, code)
  PROVE  /\ calls[c].step = "answered" /\ doubtful \subseteq doubtful'
         /\ Spent(c) /\ code # 200 => stored \in doubtful'
BY DEF Hear, Spent

\* A call is heard and ends; a good answer to a refresh or a sign-out replaces the token.
LEMMA OneEnds ==
  ASSUME IInv, NEW c \in Calls, NEW code, Hear(c, code), Hung(c),
         stored' \in {stored, None, calls[c].pair},
         code = 200 /\ calls[c].op \in {"refresh", "logout"} => stored' \in {None, calls[c].pair}
  PROVE  TabMoves
<1> DEFINE r == Idle
<1>1. calls' = [calls EXCEPT ![c] = r] /\ UNCHANGED <<users, tokenVars, limitVars>>
  BY DEF Hung, ServiceIdle
<1>2. r.pair = None /\ Takes(calls[c], r)
  BY DEF Takes, Idle
<1> HIDE DEF r
<1>3. calls'[c] = r
  BY <1>1, PairFacts
<1>4. stored' \in {None, calls[c].pair} => Replaced
  BY <1>2, <1>3 DEF Replaced
<1>5. Freed(c, r)
  BY <1>2, <1>4, HearFacts DEF Freed, Spent
<1> QED
  BY <1>1, <1>4, <1>5, HearFacts, OneMoves

\* A call starts.
LEMMA OneStarts ==
  ASSUME IInv, NEW c \in Calls, calls[c].step = "idle", NEW op \in Ops,
         NEW user \in Users \cup {Nobody}, NEW token \in {None, stored}, NEW password \in Version,
         calls' = [calls EXCEPT ![c] = Request(op, user, token, password)],
         UNCHANGED <<users, tokenVars, limitVars, stored, doubtful>>
  PROVE  TabMoves
<1> DEFINE r == Request(op, user, token, password)
<1>1. Takes(calls[c], r)
  BY ZenonT(60) DEF Takes
<1> HIDE DEF r
<1>2. Freed(c, r)
  BY <1>1 DEF Freed, Spent
<1>3. calls' = [calls EXCEPT ![c] = r]
  BY DEF r
<1> QED
  BY <1>2, <1>3, OneMoves

\* No call changes.
LEMMA NoneMoves ==
  ASSUME IInv, UNCHANGED <<calls, users, tokenVars, limitVars, doubtful>>, stored' \in {stored, None}
  PROVE  TabMoves
<1>1. calls' = [c \in Calls |-> calls'[c]]
  BY PairFacts
<1> QED
  BY <1>1 DEF TabMoves, Replaced

\* One activity takes a step, with its call.
OneActs(x, a, r) ==
  /\ act' = [act EXCEPT ![x] = a] /\ calls' = [calls EXCEPT ![x] = r]
  /\ UNCHANGED attempt /\ open \subseteq open'
  /\ IsActivity(a) /\ Tidy(x, a, r) /\ ~a.waiting
  /\ x[2] # "mutex" /\ (x[2] = "boot" => x[1] \in open')

LEMMA ThreadFacts ==
  ASSUME NEW t \in Tabs, NEW k \in Kinds
  PROVE  /\ <<t, k>> \in Threads /\ <<t, k>> \in Calls /\ <<t, k>> # Elsewhere
BY BrowserAssumption DEF Threads

LEMMA ThreadsAreCalls ==
  /\ Threads \subseteq Calls /\ Elsewhere \in Calls /\ Elsewhere \notin Threads
  /\ \A t \in Tabs : <<t, "mutex">> \in Threads /\ <<t, "boot">> \in Threads
  /\ \A x \in Threads : x[1] \in Tabs /\ x[2] \in Kinds /\ x = <<x[1], x[2]>>
BY BrowserAssumption DEF Threads, Kinds

LEMMA OneTidy ==
  ASSUME IInv, TabsInv, NEW x \in Threads, NEW a, NEW r, OneActs(x, a, r)
  PROVE  TabsInv'
<1>1. /\ act' = [y \in Threads |-> act'[y]] /\ act'[x] = a
      /\ \A y \in Threads : y # x => act'[y] = act[y]
  BY DEF TabsInv, OneActs
<1>2. /\ calls'[x] = r /\ \A d \in Calls : d # x => calls'[d] = calls[d]
  BY PairFacts, ThreadsAreCalls DEF OneActs
<1>3. ASSUME NEW y \in Threads PROVE IsActivity(act'[y]) /\ Tidy(y, act'[y], calls'[y])
  <2>1. CASE y = x
    BY <1>1, <1>2, <2>1 DEF OneActs
  <2>2. CASE y # x
    BY <1>1, <1>2, <2>2, ThreadsAreCalls DEF TabsInv
  <2> QED
    BY <2>1, <2>2
<1>4. ASSUME NEW t \in Tabs
      PROVE  /\ attempt'[t] = 0 <=> calls'[<<t, "mutex">>].step = "idle"
             /\ t \notin open' => act'[<<t, "boot">>].step = "none"
  <2>1. <<t, "mutex">> # x
    BY DEF OneActs
  <2>2. attempt'[t] = 0 <=> calls'[<<t, "mutex">>].step = "idle"
    BY <1>2, <2>1, ThreadsAreCalls DEF TabsInv, OneActs
  <2>3. t \notin open' => <<t, "boot">> # x /\ t \notin open
    BY DEF OneActs
  <2> QED
    BY <1>1, <2>2, <2>3, ThreadsAreCalls DEF TabsInv
<1>5. calls'[Elsewhere] = calls[Elsewhere]
  BY <1>2, ThreadsAreCalls
<1>6. \A y \in Threads : act'[y].waiting => attempt'[y[1]] # 0
  BY <1>1 DEF TabsInv, OneActs
<1> QED
  BY <1>1, <1>3, <1>4, <1>5, <1>6 DEF TabsInv, IsActivity, OneActs

\* An activity that is over has no call.
LEMMA RestFacts ==
  /\ IsActivity(Rest) /\ ~Rest.waiting /\ Idle.step = "idle"
  /\ \A x \in Threads : \A r : r.step = "idle" => Tidy(x, Rest, r)
BY DEF IsActivity, Rest, Tidy, Idle

\* What is known of an activity and its call.
LEMMA ActFacts ==
  ASSUME TabsInv, NEW t \in Tabs, NEW k \in Kinds, k # "mutex"
  PROVE  LET x == <<t, k>> IN
         /\ IsActivity(act[x]) /\ Tidy(x, act[x], calls[x]) /\ x[2] = k /\ x[1] = t
         /\ act[x].step \notin {"post", "bound"} => calls[x].step = "idle"
         /\ act[x].waiting => calls[x].step = "idle"
         /\ k \notin {"signin"} /\ act[x].step \notin {"me", "sent"} => ~act[x].waiting
         /\ k = "boot" /\ act[x].step # "none" => t \in open
<1>1. <<t, k>> \in Threads
  BY ThreadFacts
<1> QED
  BY <1>1 DEF TabsInv, Tidy

-----------------------------------------------------------------------------
(* The steps of the tabs.                                                  *)

\* An activity ends, and its call with it.
LEMMA DoneTidy ==
  ASSUME IInv, TabsInv, NEW t \in Tabs, NEW k \in Kinds, k # "mutex", Done(<<t, k>>),
         Hung(<<t, k>>) \/ (UNCHANGED calls /\ calls[<<t, k>>].step = "idle"),
         UNCHANGED attempt, open \subseteq open', k = "boot" => t \in open'
  PROVE  TabsInv'
<1> DEFINE x == <<t, k>>
<1>1. x \in Threads /\ x \in Calls /\ x[1] = t /\ x[2] = k
  BY ThreadFacts
<1>2. Done(x)
  OBVIOUS
<1>3. Hung(x) \/ (UNCHANGED calls /\ calls[x].step = "idle")
  OBVIOUS
<1> HIDE DEF x
<1>4. PICK r : r.step = "idle" /\ calls' = [calls EXCEPT ![x] = r]
  <2>1. CASE Hung(x)
    BY <2>1, RestFacts DEF Hung
  <2>2. CASE UNCHANGED calls /\ calls[x].step = "idle"
    BY <1>1, <2>2, PairFacts
  <2> QED
    BY <1>3, <2>1, <2>2
<1>5. OneActs(x, Rest, r)
  BY <1>1, <1>2, <1>4, RestFacts DEF OneActs, Done
<1> QED
  BY <1>1, <1>5, OneTidy

\* An activity starts its call.
LEMMA StartTidy ==
  ASSUME IInv, TabsInv, NEW t \in Tabs, NEW k \in Kinds \ {"mutex"}, NEW a, NEW op \in Ops, NEW user,
         NEW token, NEW password,
         act' = [act EXCEPT ![<<t, k>>] = a],
         calls' = [calls EXCEPT ![<<t, k>>] = Request(op, user, token, password)],
         IsActivity(a), ~a.waiting, a.step \in {"post", "bound"},
         k = "signin" => op \notin {"refresh", "logout"},
         UNCHANGED attempt, open \subseteq open', k = "boot" => t \in open'
  PROVE  TabsInv'
<1> DEFINE x == <<t, k>>
           r == Request(op, user, token, password)
<1>1. x \in Threads /\ x[1] = t /\ x[2] = k
  BY ThreadFacts
<1>2. act' = [act EXCEPT ![x] = a] /\ calls' = [calls EXCEPT ![x] = r]
  OBVIOUS
<1>3. r.step # "idle" /\ (k = "signin" => r.op \notin {"refresh", "logout"})
  BY RequestFacts
<1> HIDE DEF x, r
<1>4. Tidy(x, a, r)
  BY <1>1, <1>3 DEF Tidy
<1>5. OneActs(x, a, r)
  BY <1>1, <1>2, <1>4 DEF OneActs
<1> QED
  BY <1>1, <1>5, OneTidy

\* The fields of an activity.
LEMMA Fields ==
  ASSUME NEW s, NEW w, NEW f, NEW v,
         NEW a, a = [step |-> s, with |-> w, retried |-> f, waiting |-> v]
  PROVE  IsActivity(a) /\ a.step = s /\ a.with = w /\ a.retried = f /\ a.waiting = v
<1>1. a.step = s /\ a.with = w /\ a.retried = f /\ a.waiting = v
  OBVIOUS
<1> QED
  BY <1>1 DEF IsActivity

\* An activity that goes on.
LEMMA GoesOn ==
  ASSUME NEW a, IsActivity(a), NEW step
  PROVE  \A r : r = [a EXCEPT !.step = step] =>
            IsActivity(r) /\ r.step = step /\ r.waiting = a.waiting
<1> DEFINE s == a.step
           w == a.with
           f == a.retried
           v == a.waiting
<1>1. a = [step |-> s, with |-> w, retried |-> f, waiting |-> v]
  BY DEF IsActivity
<1> HIDE DEF s, w, f, v
<1>2. a.waiting = v
  BY <1>1
<1>3. [a EXCEPT !.step = step] = [step |-> step, with |-> w, retried |-> f, waiting |-> v]
  BY <1>1
<1> QED
  BY <1>1, <1>2, <1>3, Fields

Asks(a, step, with) == [a EXCEPT !.step = step, !.with = with]
LEMMA GoesOnWith ==
  ASSUME NEW a, IsActivity(a), NEW step, NEW with, NEW r, r = Asks(a, step, with)
  PROVE  IsActivity(r) /\ r.step = step /\ r.waiting = a.waiting
<1> DEFINE b == [a EXCEPT !.step = step]
<1>1. IsActivity(b) /\ b.step = step /\ b.waiting = a.waiting
  BY GoesOn
<1>2. r = [b EXCEPT !.with = with]
  BY DEF Asks
<1> HIDE DEF b
<1> DEFINE w == b.with
           f == b.retried
           v == b.waiting
<1>3. b = [step |-> step, with |-> w, retried |-> f, waiting |-> v]
  BY <1>1 DEF IsActivity
<1> HIDE DEF w, f, v
<1>4. r = [step |-> step, with |-> with, retried |-> f, waiting |-> v]
  BY <1>2, <1>3
<1>5. b.waiting = v
  BY <1>3
<1> QED
  BY <1>1, <1>3, <1>4, <1>5, Fields

\* An activity as it begins.
LEMMA Begins ==
  ASSUME NEW step, NEW with, NEW r, r = Asks(Rest, step, with)
  PROVE  IsActivity(r) /\ r.step = step /\ ~r.waiting
<1>1. ~Rest.waiting
  BY DEF Rest
<1> QED
  BY <1>1, RestFacts, GoesOnWith

LEMMA Constants ==
  /\ {"boot", "api", "signin", "signout", "upgrade"} \subseteq Kinds \ {"mutex"}
  /\ Ops = {"register", "forgot", "verify", "resend", "guest", "login", "refresh", "logout", "reset"}
  /\ Registered \subseteq Users /\ Guests \subseteq Users /\ Nobody \in Users \cup {Nobody}
  /\ 0 \in Version
BY AccountsAssumption DEF Kinds, Ops, LimitedOps, Users, Version

LEMMA OpenTabUse ==
  ASSUME IInv, TabsInv, NEW t \in Tabs, OpenTab(t)
  PROVE  TabMoves /\ TabsInv'
<1> DEFINE x == <<t, "boot">>
<1>1. /\ x \in Calls /\ x \in Threads /\ act[x].step = "none" /\ calls[x].step = "idle"
      /\ ~act[x].waiting /\ IsActivity(act[x])
  <2>1. act[x].step = "none"
    BY DEF OpenTab, TabsInv
  <2> QED
    BY <2>1, Constants, ThreadFacts, ActFacts DEF OpenTab
<1>2. UNCHANGED <<stored, doubtful, attempt>> /\ open \subseteq open' /\ t \in open'
  BY DEF OpenTab
<1>3. CASE stored = None
  <2>1. Done(x) /\ UNCHANGED accountVars
    BY <1>3 DEF OpenTab
  <2>2. UNCHANGED <<calls, users, tokenVars, limitVars>>
    BY <2>1 DEF accountVars
  <2> QED
    BY <1>1, <1>2, <2>1, <2>2, Constants, DoneTidy, NoneMoves
<1>4. CASE stored # None
  <2>1. Step(x, "post") /\ Post(x, "refresh", Nobody, stored, 0)
    BY <1>4 DEF OpenTab
  <2>2. calls' = [calls EXCEPT ![x] = Request("refresh", Nobody, stored, 0)]
        /\ UNCHANGED <<users, tokenVars, limitVars>>
    BY <2>1 DEF Post, ServiceIdle
  <2>3. TabMoves
    <3> HIDE DEF x
    <3> QED
      BY <1>1, <1>2, <2>2, Constants, OneStarts
  <2>4. PICK a : a = [act[x] EXCEPT !.step = "post"]
    OBVIOUS
  <2>5. IsActivity(a) /\ a.step = "post" /\ ~a.waiting
    BY <1>1, <2>4, GoesOn
  <2>6. act' = [act EXCEPT ![x] = a]
    BY <2>1, <2>4 DEF Step
  <2>7. TabsInv'
    BY <1>2, <2>2, <2>5, <2>6, Constants, StartTidy
  <2> QED
    BY <2>3, <2>7
<1> QED
  BY <1>3, <1>4

LEMMA BootRefreshedUse ==
  ASSUME IInv, TabsInv, NEW t \in Tabs, BootRefreshed(t)
  PROVE  TabMoves /\ TabsInv'
<1> DEFINE x == <<t, "boot">>
<1>1. /\ x \in Calls /\ x \in Threads /\ act[x].step = "post" /\ ~act[x].waiting
      /\ IsActivity(act[x]) /\ t \in open /\ x[1] = t /\ x[2] = "boot"
  BY Constants, ThreadFacts, ActFacts DEF BootRefreshed
<1>2. UNCHANGED <<open, attempt>> /\ Hung(x)
  BY DEF BootRefreshed
<1>3. PICK code \in {0, 200, 401, 403, 429, 500} :
        /\ Hear(x, code)
        /\ IF code = 200
           THEN /\ applyAuthResponse(t, Nobody, calls[x].pair)
                /\ act' = [act EXCEPT ![x].step = "me", ![x].with = calls[x].pair]
           ELSE clearSession(t) /\ Done(x)
  BY DEF BootRefreshed
<1>4. stored' \in {None, calls[x].pair}
  BY <1>3 DEF applyAuthResponse, clearSession
<1>5. TabMoves
  <2> HIDE DEF x
  <2> QED
    BY <1>1, <1>2, <1>3, <1>4, OneEnds
<1>6. CASE code = 200
  <2>1. PICK a : a = [act[x] EXCEPT !.step = "me", !.with = calls[x].pair]
    OBVIOUS
  <2>2. IsActivity(a) /\ a.step = "me" /\ ~a.waiting
    <3>1. a = Asks(act[x], "me", calls[x].pair)
      BY <2>1 DEF Asks
    <3> QED
      BY <1>1, <3>1, GoesOnWith
  <2>0. act' = [act EXCEPT ![x].step = "me", ![x].with = calls[x].pair]
    BY <1>3, <1>6
  <2> HIDE DEF x
  <2>3. act' = [act EXCEPT ![x] = a]
    BY <1>1, <2>0, <2>1 DEF TabsInv
  <2>4. Tidy(x, a, Idle)
    BY <1>1, <2>2, RestFacts DEF Tidy
  <2>5. OneActs(x, a, Idle)
    BY <1>1, <1>2, <2>2, <2>3, <2>4 DEF OneActs, Hung
  <2> QED
    BY <1>1, <1>5, <2>5, OneTidy
<1>7. CASE code # 200
  BY <1>1, <1>2, <1>3, <1>5, <1>7, Constants, DoneTidy
<1> QED
  BY <1>6, <1>7

\* A call is heard, and its activity ends with it.
LEMMA BothEnd ==
  ASSUME IInv, TabsInv, NEW t \in Tabs, NEW k \in Kinds \ {"mutex"},
         k = "boot" => act[<<t, k>>].step # "none",
         NEW code, Hear(<<t, k>>, code), Hung(<<t, k>>), Done(<<t, k>>), UNCHANGED <<open, attempt>>,
         stored' \in {stored, None, calls[<<t, k>>].pair},
         code = 200 /\ calls[<<t, k>>].op \in {"refresh", "logout"} =>
           stored' \in {None, calls[<<t, k>>].pair}
  PROVE  TabMoves /\ TabsInv'
<1>1. TabsInv'
  BY ActFacts, DoneTidy
<1>2. PICK x : x = <<t, k>>
  OBVIOUS
<1>3. x \in Calls
  BY <1>2, ThreadFacts
<1>4. TabMoves
  BY <1>2, <1>3, OneEnds
<1> QED
  BY <1>1, <1>4

LEMMA BestEffortUse ==
  ASSUME IInv, TabsInv, NEW t \in Tabs, BootBound(t) \/ Upgraded(t) \/ SignedOutAt(t)
  PROVE  TabMoves /\ TabsInv'
<1>1. CASE BootBound(t)
  <2> DEFINE x == <<t, "boot">>
  <2>1. PICK code : Hear(x, code) /\ IF code = 200 THEN applyAuthResponse(t, auth[t].user, calls[x].pair)
                                     ELSE UNCHANGED <<stored, auth>>
    BY <1>1 DEF BootBound
  <2>2. act[x].step = "bound" /\ Hung(x) /\ Done(x) /\ UNCHANGED <<open, attempt>>
    BY <1>1 DEF BootBound
  <2>3. stored' \in {stored, calls[x].pair} /\ (code = 200 => stored' = calls[x].pair)
    BY <2>1 DEF applyAuthResponse
  <2> QED
    BY <2>1, <2>2, <2>3, Constants, BothEnd
<1>2. CASE Upgraded(t)
  <2> DEFINE x == <<t, "upgrade">>
  <2>1. PICK code : Hear(x, code) /\ IF code = 200 THEN applyAuthResponse(t, auth[t].user, calls[x].pair)
                                     ELSE UNCHANGED <<stored, auth>>
    BY <1>2 DEF Upgraded
  <2>2. Hung(x) /\ Done(x) /\ UNCHANGED <<open, attempt>>
    BY <1>2 DEF Upgraded
  <2>3. stored' \in {stored, calls[x].pair} /\ (code = 200 => stored' = calls[x].pair)
    BY <2>1 DEF applyAuthResponse
  <2> QED
    BY <2>1, <2>2, <2>3, Constants, BothEnd
<1>3. CASE SignedOutAt(t)
  <2> DEFINE x == <<t, "signout">>
  <2>1. PICK code : Hear(x, code)
    BY <1>3 DEF SignedOutAt
  <2>2. Hung(x) /\ Done(x) /\ UNCHANGED <<open, attempt>> /\ stored' = None
    BY <1>3 DEF SignedOutAt, clearSession
  <2> QED
    BY <2>1, <2>2, Constants, BothEnd
<1> QED
  BY <1>1, <1>2, <1>3

LEMMA BootUserUse ==
  ASSUME IInv, TabsInv, NEW t \in Tabs, BootUser(t)
  PROVE  TabMoves /\ TabsInv'
<1> DEFINE x == <<t, "boot">>
<1>1. /\ x \in Calls /\ x \in Threads /\ act[x].step = "me" /\ ~act[x].waiting
      /\ IsActivity(act[x]) /\ t \in open /\ calls[x].step = "idle"
  BY Constants, ThreadFacts, ActFacts DEF BootUser
<1>2. UNCHANGED <<open, attempt, stored, doubtful, users, tokenVars, limitVars>>
  BY DEF BootUser, Served
<1>3. CASE Done(x) /\ UNCHANGED calls
  BY <1>1, <1>2, <1>3, Constants, DoneTidy, NoneMoves
<1>4. CASE Step(x, "bound") /\ calls' = [calls EXCEPT ![x] = Request("refresh", Nobody, stored, 0)]
  <2>1. TabMoves
    <3> HIDE DEF x
    <3> QED
      BY <1>1, <1>2, <1>4, Constants, OneStarts
  <2>2. PICK a : a = [act[x] EXCEPT !.step = "bound"]
    OBVIOUS
  <2>3. IsActivity(a) /\ a.step = "bound" /\ ~a.waiting
    BY <1>1, <2>2, GoesOn
  <2>4. act' = [act EXCEPT ![x] = a]
    BY <1>4, <2>2 DEF Step
  <2>5. TabsInv'
    BY <1>1, <1>2, <1>4, <2>3, <2>4, Constants, StartTidy
  <2> QED
    BY <2>1, <2>5
<1> QED
  BY <1>3, <1>4 DEF BootUser

LEMMA BootRejectedUse ==
  ASSUME IInv, TabsInv, NEW t \in Tabs, BootRejected(t)
  PROVE  TabMoves /\ TabsInv'
<1> DEFINE x == <<t, "boot">>
<1>1. act[x].step = "me" /\ t \in open /\ calls[x].step = "idle"
  BY Constants, ActFacts DEF BootRejected
<1>2. /\ UNCHANGED <<open, attempt, calls, doubtful, users, tokenVars, limitVars>>
      /\ stored' = None /\ Done(x)
  BY DEF BootRejected, Served, Broken, clearSession
<1> QED
  BY <1>1, <1>2, Constants, DoneTidy, NoneMoves

LEMMA MeAnswerUse ==
  ASSUME IInv, TabsInv, NEW t \in Tabs, NEW k \in Kinds, MeAnswer(<<t, k>>)
  PROVE  TabMoves /\ TabsInv'
<1> DEFINE x == <<t, k>>
<1>1. k # "mutex" /\ k # "boot" /\ calls[x].step = "idle"
  <2>1. k \in {"signin", "api"} /\ act[x].step \in {"me", "sent"}
    BY DEF MeAnswer
  <2> QED
    BY <2>1, ActFacts
<1>2. /\ UNCHANGED <<open, attempt, calls, stored, doubtful, users, tokenVars, limitVars>>
      /\ Done(x)
  BY DEF MeAnswer, Served, Broken
<1> QED
  BY <1>1, <1>2, DoneTidy, NoneMoves

LEMMA ApiCallUse ==
  ASSUME IInv, TabsInv, NEW t \in Tabs, ApiCall(t)
  PROVE  TabMoves /\ TabsInv'
<1> DEFINE x == <<t, "api">>
<1>1. x \in Calls /\ x \in Threads /\ x[2] = "api" /\ calls[x].step = "idle"
  BY Constants, ThreadFacts, ActFacts DEF ApiCall, Free
<1>2. UNCHANGED <<open, attempt, calls, stored, doubtful, users, tokenVars, limitVars>>
  BY DEF ApiCall, accountVars
<1>3. PICK a : a = Asks(Rest, "sent", auth[t].access)
  OBVIOUS
<1>4. act' = [act EXCEPT ![x] = a]
  BY <1>3 DEF ApiCall, Asks
<1>5. IsActivity(a) /\ a.step = "sent" /\ ~a.waiting
  BY <1>3, Begins
<1> HIDE DEF x
<1>6. calls' = [calls EXCEPT ![x] = calls[x]]
  BY <1>2, PairFacts
<1>7. OneActs(x, a, calls[x])
  BY <1>1, <1>2, <1>4, <1>5, <1>6 DEF OneActs, Tidy
<1> QED
  BY <1>1, <1>2, <1>7, OneTidy, NoneMoves

LEMMA SignInUse ==
  ASSUME IInv, TabsInv, NEW t \in Tabs, NEW op \in {"login", "register", "verify", "guest"},
         NEW u \in Users, NEW password \in Version, SignIn(t, op, u, password)
  PROVE  TabMoves /\ TabsInv'
<1> DEFINE x == <<t, "signin">>
<1>1. x \in Calls /\ calls[x].step = "idle"
  BY Constants, ThreadFacts DEF SignIn, Post
<1>2. /\ UNCHANGED <<open, attempt, stored, doubtful, users, tokenVars, limitVars>>
      /\ calls' = [calls EXCEPT ![x] = Request(op, u, None, password)]
  BY DEF SignIn, Post, ServiceIdle
<1>3. PICK a : a = Asks(Rest, "post", auth[t].access)
  OBVIOUS
<1>4. act' = [act EXCEPT ![x] = a]
  BY <1>3 DEF SignIn, Asks
<1>5. IsActivity(a) /\ a.step = "post" /\ ~a.waiting
  BY <1>3, Begins
<1>6. op \in Ops \ {"refresh", "logout"}
  BY Constants
<1>7. TabsInv'
  BY <1>2, <1>4, <1>5, <1>6, Constants, StartTidy
<1> HIDE DEF x
<1>8. TabMoves
  BY <1>1, <1>2, <1>6, Constants, OneStarts
<1> QED
  BY <1>7, <1>8

LEMMA SignOutUse ==
  ASSUME IInv, TabsInv, NEW t \in Tabs,
         SignOut(t) \/ upgradeAccessTokenWithDeviceBinding(t)
  PROVE  TabMoves /\ TabsInv'
<1>1. ASSUME NEW k \in {"signout", "upgrade"}, NEW op \in {"refresh", "logout"}, Free(t, k),
             Post(<<t, k>>, op, Nobody, stored, 0), Step(<<t, k>>, "post"),
             UNCHANGED <<stored, open, attempt, doubtful>>
      PROVE  TabMoves /\ TabsInv'
  <2> DEFINE x == <<t, k>>
  <2>1. /\ x \in Calls /\ calls[x].step = "idle" /\ IsActivity(act[x]) /\ ~act[x].waiting
    BY <1>1, Constants, ThreadFacts, ActFacts DEF Free
  <2>2. /\ UNCHANGED <<users, tokenVars, limitVars>>
        /\ calls' = [calls EXCEPT ![x] = Request(op, Nobody, stored, 0)]
    BY <1>1 DEF Post, ServiceIdle
  <2>3. PICK a : a = [act[x] EXCEPT !.step = "post"]
    OBVIOUS
  <2>4. IsActivity(a) /\ a.step = "post" /\ ~a.waiting
    BY <2>1, <2>3, GoesOn
  <2>5. act' = [act EXCEPT ![x] = a]
    BY <1>1, <2>3 DEF Step
  <2>6. TabsInv'
    BY <1>1, <2>2, <2>4, <2>5, Constants, StartTidy
  <2> HIDE DEF x
  <2>7. TabMoves
    BY <1>1, <2>1, <2>2, Constants, OneStarts
  <2> QED
    BY <2>6, <2>7
<1>2. CASE SignOut(t) /\ stored = None
  <2> DEFINE x == <<t, "signout">>
  <2>1. /\ UNCHANGED <<open, attempt, calls, doubtful, users, tokenVars, limitVars>>
        /\ stored' = None /\ Done(x) /\ Free(t, "signout")
    BY <1>2 DEF SignOut, accountVars, clearSession
  <2>2. calls[x].step = "idle"
    BY <2>1, Constants, ActFacts DEF Free
  <2> QED
    BY <2>1, <2>2, Constants, DoneTidy, NoneMoves
<1>3. CASE SignOut(t) /\ stored # None
  BY <1>1, <1>3 DEF SignOut
<1>4. CASE upgradeAccessTokenWithDeviceBinding(t)
  BY <1>1, <1>4 DEF upgradeAccessTokenWithDeviceBinding
<1> QED
  BY <1>2, <1>3, <1>4

\* A page that signed in has its token, if the answer has one.
LEMMA SignedInUse ==
  ASSUME IInv, TabsInv, NEW t \in Tabs, SignedIn(t)
  PROVE  TabMoves /\ TabsInv'
<1> DEFINE x == <<t, "signin">>
           pair == calls[x].pair
           asks == calls[x].op \in {"login", "register"}
<1>1. /\ x \in Calls /\ x \in Threads /\ x[2] = "signin" /\ calls[x].op \notin {"refresh", "logout"}
  BY Constants, ThreadFacts, ActFacts DEF SignedIn, Tidy
<1>2. Hear(x, 200) /\ Hung(x) /\ UNCHANGED <<open, attempt>>
  BY DEF SignedIn
<1>3. stored' \in {stored, pair}
  BY DEF SignedIn, applyAuthResponse
<1>4. TabMoves
  <2> HIDE DEF x
  <2> QED
    BY <1>1, <1>2, <1>3, OneEnds
<1>5. CASE Done(x)
  BY <1>2, <1>4, <1>5, Constants, DoneTidy
<1>6. CASE act' = [act EXCEPT ![x] = [Rest EXCEPT !.step = "me", !.with = pair]]
  <2>1. PICK a : a = Asks(Rest, "me", pair)
    OBVIOUS
  <2>2. act' = [act EXCEPT ![x] = a]
    BY <1>6, <2>1 DEF Asks
  <2>3. IsActivity(a) /\ a.step = "me" /\ ~a.waiting
    BY <2>1, Begins
  <2> HIDE DEF x
  <2>4. OneActs(x, a, Idle)
    BY <1>1, <1>2, <2>2, <2>3, RestFacts DEF OneActs, Tidy, Hung
  <2> QED
    BY <1>1, <1>4, <2>4, OneTidy
<1> QED
  BY <1>5, <1>6 DEF SignedIn

\* A request that joins or starts the refresh.
Waits(a) == [a EXCEPT !.waiting = TRUE]
LEMMA WaitsFacts ==
  ASSUME NEW a, IsActivity(a)
  PROVE  IsActivity(Waits(a)) /\ Waits(a).step = a.step /\ Waits(a).waiting
<1> DEFINE s == a.step
           w == a.with
           f == a.retried
           v == a.waiting
<1>1. a = [step |-> s, with |-> w, retried |-> f, waiting |-> v]
  BY DEF IsActivity
<1> HIDE DEF s, w, f, v
<1>5. PICK g : g = TRUE
  OBVIOUS
<1>6. [a EXCEPT !.waiting = g] = [step |-> s, with |-> w, retried |-> f, waiting |-> g]
  BY <1>1
<1>2. Waits(a) = [step |-> s, with |-> w, retried |-> f, waiting |-> TRUE]
  BY <1>5, <1>6, Zenon DEF Waits
<1>3. Waits(a).step = s /\ Waits(a).waiting /\ a.step = s
  BY <1>1, <1>2
<1>4. IsActivity(Waits(a))
  BY <1>2 DEF IsActivity
<1> QED
  BY <1>3, <1>4

\* A request answered by 401: the session ends, or the request waits.
LEMMA OnUnauthorizedUse ==
  ASSUME IInv, TabsInv, NEW t \in Tabs, NEW k \in Kinds, k # "mutex",
         calls[<<t, k>>].step \in {"idle", "answered"}, ~Spent(<<t, k>>),
         OnUnauthorized(<<t, k>>), UNCHANGED open, doubtful \subseteq doubtful',
         act[<<t, k>>].step \in {"me", "sent"} \/ (k = "signin" /\ act[<<t, k>>].step = "post")
  PROVE  TabMoves /\ TabsInv'
<1> DEFINE x == <<t, k>>
           m == <<t, "mutex">>
           p == act[x]
           q == calls[x]
<1>1. /\ x \in Calls /\ x \in Threads /\ x[1] = t /\ x[2] = k /\ x # m /\ x # Elsewhere
      /\ IsActivity(p) /\ Tidy(x, p, q) /\ (k = "boot" => t \in open)
      /\ p = act[x] /\ q = calls[x] /\ q \in Call
  <2>1. x \in Calls /\ x \in Threads /\ x # Elsewhere
    BY ThreadFacts
  <2> QED
    BY <2>1, ActFacts, CallFacts
<1>2. m \in Calls /\ m \in Threads /\ m[2] = "mutex" /\ m[1] = t /\ m # Elsewhere
  BY ThreadsAreCalls
<1>3. CASE p.retried \/ stored = None
  <2>1. stored' = None /\ Done(x) /\ Hung(x) /\ UNCHANGED attempt
    BY <1>3 DEF OnUnauthorized, clearSession
  <2>2. TabsInv'
    BY <1>1, <2>1, DoneTidy
  <2>3. TabMoves
    <3>1. ~Spent(x) /\ calls[x].step \in {"idle", "answered"}
      OBVIOUS
    <3> HIDE DEF x
    <3>2. Freed(x, Idle)
      BY <3>1 DEF Freed, Takes
    <3> QED
      BY <1>1, <2>1, <3>2, OneMoves DEF Hung, ServiceIdle, Replaced
  <2> QED
    BY <2>2, <2>3
<1>4. CASE ~(p.retried \/ stored = None)
  <2> DEFINE back == IF q.step = "answered" THEN [q EXCEPT !.step = "idle"] ELSE q
             mid == [calls EXCEPT ![x] = back]
             new == IF attempt[t] = 0 THEN Request("refresh", Nobody, stored, 0) ELSE mid[m]
             a == Waits(p)
             n == IF attempt[t] = 0 THEN 1 ELSE attempt[t]
  <2>1. /\ act' = [act EXCEPT ![x] = a]
        /\ attempt' = [attempt EXCEPT ![t] = n]
        /\ calls' = [mid EXCEPT ![m] = new]
        /\ UNCHANGED <<stored, users, tokenVars, limitVars>>
    BY <1>4 DEF OnUnauthorized, Waits, ServiceIdle
  <2>2. /\ mid[m] = calls[m] /\ DOMAIN mid = Calls /\ mid[x] = back
        /\ \A d \in Calls : d # x => mid[d] = calls[d]
    BY <1>1, <1>2, PairFacts
  <2>3. back.step = "idle" /\ back.op = q.op
    BY <1>1 DEF Call
  <2>4. back = q \/ (back = [q EXCEPT !.step = "idle"] /\ Takes(q, back))
    BY DEF Takes
  <2>5. new = calls[m] \/ (attempt[t] = 0 /\ new = Request("refresh", Nobody, stored, 0))
    BY <2>2
  <2>10. attempt \in [Tabs -> Nat] /\ n \in Nat \ {0} /\ attempt[t] \in Nat
    BY DEF TabsInv
  <2>12. new.step # "idle"
    <3>1. CASE attempt[t] = 0
      BY <2>5, <3>1, Constants, RequestFacts
    <3>2. CASE attempt[t] # 0
      BY <2>5, <3>2 DEF TabsInv
    <3> QED
      BY <3>1, <3>2
  <2>6. IsActivity(a) /\ a.step = p.step /\ a.waiting
    BY <1>1, WaitsFacts
  <2>11. ~Spent(x) /\ calls[x].step \in {"idle", "answered"} /\ (p.step \in {"me", "sent"} \/ (k = "signin" /\ p.step = "post"))
    OBVIOUS
  <2> HIDE DEF x, m, back, mid, new, a, p, q, n
  <2>7. /\ calls' = [d \in Calls |-> calls'[d]] /\ calls'[x] = back /\ calls'[m] = new
        /\ \A d \in Calls : d # x /\ d # m => calls'[d] = calls[d]
    BY <1>1, <1>2, <2>1, <2>2
  <2>8. TabMoves
    <3>1. back = calls[x] \/ Freed(x, back)
      BY <1>1, <2>4, <2>11 DEF Freed
    <3>2. new = calls[m] \/ Freed(m, new)
      <4>1. CASE attempt[t] = 0 /\ new = Request("refresh", Nobody, stored, 0)
        <5>1. calls[m].step = "idle"
          BY <4>1 DEF TabsInv, m
        <5>2. Takes(calls[m], new)
          BY <4>1, Constants, ZenonT(60) DEF Takes
        <5> QED
          BY <5>1, <5>2 DEF Freed, Spent
      <4> QED
        BY <2>5, <4>1
    <3>3. \A d \in Calls : calls'[d] = calls[d] \/ Freed(d, calls'[d])
      BY <2>7, <3>1, <3>2
    <3> QED
      BY <2>1, <2>7, <3>3 DEF TabMoves
  <2>9. TabsInv'
    <3>1. /\ act' = [y \in Threads |-> act'[y]] /\ act'[x] = a
          /\ \A y \in Threads : y # x => act'[y] = act[y]
      BY <1>1, <2>1 DEF TabsInv
    <3>2. ASSUME NEW y \in Threads PROVE IsActivity(act'[y]) /\ Tidy(y, act'[y], calls'[y])
      <4>1. CASE y = x
        BY <1>1, <2>3, <2>6, <2>7, <2>11, <3>1, <4>1 DEF Tidy
      <4>2. CASE y = m
        BY <1>1, <1>2, <2>7, <3>1, <4>2 DEF Tidy, TabsInv
      <4>3. CASE y # x /\ y # m
        BY <2>7, <3>1, <4>3, ThreadsAreCalls DEF TabsInv
      <4> QED
        BY <4>1, <4>2, <4>3
    <3>3. attempt' \in [Tabs -> Nat]
      BY <2>1, <2>10
    <3>4. ASSUME NEW s \in Tabs
          PROVE  /\ attempt'[s] = 0 <=> calls'[<<s, "mutex">>].step = "idle"
                 /\ s \notin open' => act'[<<s, "boot">>].step = "none"
      <4>1. attempt'[s] = 0 <=> calls'[<<s, "mutex">>].step = "idle"
        <5>1. CASE s = t
          BY <2>1, <2>7, <2>10, <2>12, <5>1 DEF m
        <5>2. CASE s # t
          <6>1. <<s, "mutex">> # <<t, "mutex">> /\ <<s, "mutex">> # <<t, k>>
            BY <5>2
          <6>2. <<s, "mutex">> # m /\ <<s, "mutex">> # x
            BY <6>1 DEF m, x
          <6>3. <<s, "mutex">> \in Calls
            BY ThreadFacts DEF Kinds
          <6> QED
            BY <2>1, <2>7, <2>10, <5>2, <6>2, <6>3 DEF TabsInv
        <5> QED
          BY <5>1, <5>2
      <4>2. <<s, "boot">> = x => s \in open
        BY <1>1 DEF x
      <4>3. s \notin open' => <<s, "boot">> # x /\ act[<<s, "boot">>].step = "none"
        BY <4>2 DEF TabsInv
      <4> QED
        BY <3>1, <4>1, <4>3, ThreadsAreCalls
    <3>5. calls'[Elsewhere] = calls[Elsewhere]
      BY <1>1, <1>2, <2>7, ThreadsAreCalls
    <3>6. ASSUME NEW y \in Threads, act'[y].waiting PROVE attempt'[y[1]] # 0
      <4>1. CASE y[1] = t
        BY <2>1, <2>10, <4>1
      <4>2. CASE y[1] # t
        <5>1. act'[y] = act[y] /\ attempt'[y[1]] = attempt[y[1]]
          BY <1>1, <2>1, <3>1, <4>2 DEF TabsInv
        <5> QED
          BY <3>6, <5>1 DEF TabsInv
      <4> QED
        BY <4>1, <4>2
    <3> QED
      BY <3>1, <3>2, <3>3, <3>4, <3>5, <3>6 DEF TabsInv
  <2> QED
    BY <2>8, <2>9
<1> QED
  BY <1>3, <1>4

LEMMA RejectedUse ==
  ASSUME IInv, TabsInv, NEW t \in Tabs,
         SignInRejected(t) \/ \E k \in Kinds : Unauthorized(<<t, k>>)
  PROVE  TabMoves /\ TabsInv'
<1>1. CASE SignInRejected(t)
  <2> DEFINE x == <<t, "signin">>
  <2>1. /\ x \in Calls /\ calls[x].op \notin {"refresh", "logout"}
    BY <1>1, Constants, ThreadFacts, ActFacts DEF SignInRejected, Tidy
  <2>2. PICK code \in {0, 401, 403, 409, 429, 500} :
          /\ Hear(x, code)
          /\ IF code = 401 THEN OnUnauthorized(x)
             ELSE Done(x) /\ Hung(x) /\ UNCHANGED <<stored, auth, attempt>>
    BY <1>1 DEF SignInRejected
  <2>3. UNCHANGED open /\ act[x].step = "post"
    BY <1>1 DEF SignInRejected
  <2>4. CASE code = 401
    <3>1. calls[x].step = "answered" /\ doubtful \subseteq doubtful' /\ ~Spent(x)
      <4> HIDE DEF x
      <4> QED
        BY <2>1, <2>2, HearFacts DEF Spent
    <3>2. OnUnauthorized(x)
      BY <2>2, <2>4
    <3> QED
      BY <2>3, <3>1, <3>2, Constants, OnUnauthorizedUse
  <2>5. CASE code # 401
    BY <2>1, <2>2, <2>3, <2>5, Constants, BothEnd
  <2> QED
    BY <2>4, <2>5
<1>2. ASSUME NEW k \in Kinds, Unauthorized(<<t, k>>) PROVE TabMoves /\ TabsInv'
  <2> DEFINE x == <<t, k>>
  <2>1. act[x].step \in {"me", "sent"} /\ OnUnauthorized(x) /\ UNCHANGED <<open, doubtful>>
    BY <1>2 DEF Unauthorized
  <2>2. k # "mutex"
    <3>1. x \in Threads
      BY ThreadFacts
    <3> QED
      BY <2>1, <3>1 DEF TabsInv, Tidy
  <2>3. calls[x].step = "idle"
    BY <2>1, <2>2, ActFacts
  <2>4. ~Spent(x)
    BY <2>3 DEF Spent
  <2> QED
    BY <2>1, <2>2, <2>3, <2>4, OnUnauthorizedUse
<1> QED
  BY <1>1, <1>2

\* A request that is sent again after the refresh.
SentAgain(a, pair) == [a EXCEPT !.waiting = FALSE, !.retried = TRUE, !.with = pair]
LEMMA SentAgainFacts ==
  ASSUME NEW a, IsActivity(a), NEW pair
  PROVE  /\ IsActivity(SentAgain(a, pair)) /\ SentAgain(a, pair).step = a.step
         /\ ~SentAgain(a, pair).waiting
<1> DEFINE s == a.step
           w == a.with
           f == a.retried
           v == a.waiting
<1>1. a = [step |-> s, with |-> w, retried |-> f, waiting |-> v]
  BY DEF IsActivity
<1> HIDE DEF s, w, f, v
<1>2. PICK g, h : g = FALSE /\ h = TRUE
  OBVIOUS
<1>3. PICK b : b = [a EXCEPT !.waiting = g]
  OBVIOUS
<1>4. b = [step |-> s, with |-> w, retried |-> f, waiting |-> g]
  BY <1>1, <1>3
<1>5. PICK e : e = [b EXCEPT !.retried = h]
  OBVIOUS
<1>6. e = [step |-> s, with |-> w, retried |-> h, waiting |-> g]
  BY <1>4, <1>5
<1>7. [e EXCEPT !.with = pair] = [step |-> s, with |-> pair, retried |-> h, waiting |-> g]
  BY <1>6
<1>8. SentAgain(a, pair) = [e EXCEPT !.with = pair]
  BY <1>2, <1>3, <1>5, Zenon DEF SentAgain
<1>9. a.step = s
  BY <1>1
<1> QED
  BY <1>2, <1>7, <1>8, <1>9, Fields

\* The end of a refresh: the waiting requests go on or end, with their calls.
LEMMA AttemptTidy ==
  ASSUME TabsInv, NEW t \in Tabs, UNCHANGED open,
         act' = [x \in Threads |-> act'[x]],
         attempt' \in [Tabs -> Nat], \A s \in Tabs : s # t => attempt'[s] = attempt[s],
         \A s \in Tabs : s # t => calls'[<<s, "mutex">>] = calls[<<s, "mutex">>],
         attempt'[t] = 0 <=> calls'[<<t, "mutex">>].step = "idle",
         \A x \in Threads : act'[x].waiting => act[x].waiting /\ (x[1] = t => attempt'[t] # 0),
         \A x \in Threads : IsActivity(act'[x]) /\ Tidy(x, act'[x], calls'[x]),
         \A x \in Threads : act[x].step = "none" => act'[x] = act[x] \/ x[2] # "boot",
         calls'[Elsewhere] = calls[Elsewhere]
  PROVE  TabsInv'
<1>1. ASSUME NEW s \in Tabs PROVE attempt'[s] = 0 <=> calls'[<<s, "mutex">>].step = "idle"
  <2>1. CASE s = t
    BY <2>1
  <2>2. CASE s # t
    <3>1. attempt'[s] = attempt[s] /\ calls'[<<s, "mutex">>] = calls[<<s, "mutex">>]
      BY <2>2
    <3>2. attempt[s] = 0 <=> calls[<<s, "mutex">>].step = "idle"
      BY DEF TabsInv
    <3> QED
      BY <3>1, <3>2
  <2> QED
    BY <2>1, <2>2
<1>2. ASSUME NEW s \in Tabs, s \notin open' PROVE act'[<<s, "boot">>].step = "none"
  <2>1. <<s, "boot">> \in Threads /\ <<s, "boot">>[2] = "boot"
    BY ThreadsAreCalls
  <2>2. act[<<s, "boot">>].step = "none"
    BY <1>2 DEF TabsInv
  <2>3. act'[<<s, "boot">>] = act[<<s, "boot">>]
    BY <2>1, <2>2
  <2> QED
    BY <2>2, <2>3
<1>3. ASSUME NEW x \in Threads, act'[x].waiting PROVE attempt'[x[1]] # 0
  <2>1. x[1] \in Tabs
    BY ThreadsAreCalls
  <2>2. act[x].waiting /\ (x[1] = t => attempt'[t] # 0)
    BY <1>3
  <2>3. attempt[x[1]] # 0
    BY <2>2 DEF TabsInv
  <2> QED
    BY <2>1, <2>2, <2>3
<1> QED
  BY <1>1, <1>2, <1>3 DEF TabsInv, IsActivity

LEMMA RefreshSucceedsUse ==
  ASSUME IInv, TabsInv, NEW t \in Tabs, RefreshSucceeds(t)
  PROVE  TabMoves /\ TabsInv'
<1> DEFINE m == <<t, "mutex">>
           pair == calls[m].pair
           again(x) == x[1] = t /\ act[x].waiting
           renewed(q) == Request(q.op, q.user, q.token, q.password)
<1>1. m \in Calls /\ m \in Threads /\ m[2] = "mutex" /\ m[1] = t /\ m # Elsewhere
  BY ThreadsAreCalls
<1>2. /\ Hear(m, 200) /\ stored' = pair /\ UNCHANGED <<open, users, tokenVars, limitVars>>
      /\ attempt' = [attempt EXCEPT ![t] = 0]
  BY DEF RefreshSucceeds, applyAuthResponse, ServiceIdle
<1>3. \A x \in Threads : x[1] = t => (x[2] \in Waiting(t) <=> act[x].waiting)
  <2>1. ASSUME NEW x \in Threads, x[1] = t PROVE x[2] \in Waiting(t) <=> act[x].waiting
    <3>1. x = <<t, x[2]>> /\ x[2] \in Kinds
      BY <2>1, ThreadsAreCalls
    <3>2. act[<<t, x[2]>>] = act[x]
      BY <3>1
    <3> QED
      BY <3>1, <3>2 DEF Waiting
  <2> QED
    BY <2>1
<1>4. /\ act' = [x \in Threads |-> IF x[1] = t /\ x[2] \in Waiting(t)
                                   THEN SentAgain(act[x], pair) ELSE act[x]]
      /\ calls' = [x \in Calls |->
                     IF x = m THEN Idle
                     ELSE IF x \in Threads /\ (x[1] = t /\ x[2] \in Waiting(t)) /\ act[x].step = "post"
                     THEN renewed(calls[x]) ELSE calls[x]]
  BY DEF RefreshSucceeds, SentAgain
<1>5. \A x \in Threads : act'[x] = IF again(x) THEN SentAgain(act[x], pair) ELSE act[x]
  BY <1>3, <1>4
<1>6. /\ calls' = [x \in Calls |-> calls'[x]] /\ calls'[m] = Idle
      /\ \A x \in Calls : x # m =>
           calls'[x] = IF x \in Threads /\ again(x) /\ act[x].step = "post"
                       THEN renewed(calls[x]) ELSE calls[x]
  BY <1>1, <1>3, <1>4
<1>7. ASSUME NEW x \in Threads, again(x)
      PROVE  /\ x # m /\ x[2] # "mutex" /\ calls[x].step = "idle" /\ x \in Calls
             /\ act[x].step \in {"me", "sent"} \/ (x[2] = "signin" /\ act[x].step = "post")
             /\ act[x].step = "post" => calls[x].op \in Ops \ {"refresh", "logout"}
             /\ act[x].step # "none" \/ x[2] # "boot"
  <2>1. Tidy(x, act[x], calls[x]) /\ x \in Calls
    BY ThreadsAreCalls DEF TabsInv
  <2>2. calls[x].op \in Ops
    BY <2>1, PairFacts
  <2> QED
    BY <1>1, <1>7, <2>1, <2>2 DEF Tidy
<1> HIDE DEF m, pair
<1>8. TabMoves
  <2>1. Replaced
    BY <1>1, <1>2, <1>6 DEF Replaced, Idle, pair
  <2>2. ASSUME NEW d \in Calls PROVE calls'[d] = calls[d] \/ Freed(d, calls'[d])
    <3>1. CASE d = m
      BY <1>1, <1>2, <1>6, <2>1, <3>1, HearFacts DEF Freed, Takes
    <3>2. CASE d # m /\ d \in Threads /\ again(d) /\ act[d].step = "post"
      <4>1. calls'[d] = renewed(calls[d]) /\ calls[d].step = "idle"
        BY <1>6, <1>7, <3>2
      <4>2. /\ calls[d].op \in Ops /\ calls[d].user \in Users \cup {Nobody}
            /\ calls[d].token \in {None, stored, calls[d].token} /\ calls[d].password \in Version
        BY PairFacts
      <4>3. Takes(calls[d], renewed(calls[d]))
        BY <4>2, ZenonT(60) DEF Takes
      <4> HIDE DEF renewed
      <4> QED
        BY <4>1, <4>3 DEF Freed, Spent
    <3> QED
      BY <1>6, <3>1, <3>2
  <2> QED
    BY <1>2, <1>6, <2>1, <2>2, <1>1, HearFacts DEF TabMoves
<1>9. ASSUME NEW x \in Threads PROVE IsActivity(act'[x]) /\ Tidy(x, act'[x], calls'[x])
  <2>1. IsActivity(act[x]) /\ Tidy(x, act[x], calls[x]) /\ x \in Calls
    BY ThreadsAreCalls DEF TabsInv
  <2>2. CASE again(x)
    <3>1. IsActivity(act'[x]) /\ act'[x].step = act[x].step /\ ~act'[x].waiting
      BY <1>5, <2>1, <2>2, SentAgainFacts
    <3>2. calls'[x] = IF act[x].step = "post" THEN renewed(calls[x]) ELSE calls[x]
      BY <1>6, <1>7, <2>1, <2>2
    <3>3. act[x].step = "post" => /\ calls'[x].op \notin {"refresh", "logout"}
                                  /\ calls'[x].step # "idle"
      <4>1. act[x].step = "post" => calls[x].op \in Ops \ {"refresh", "logout"}
        BY <1>7, <2>2
      <4> QED
        BY <3>2, <4>1, RequestFacts
    <3>4. act[x].step # "post" => calls'[x].step = "idle"
      BY <1>7, <2>2, <3>2
    <3> QED
      BY <1>7, <2>2, <3>1, <3>3, <3>4 DEF Tidy
  <2>3. CASE ~again(x) /\ x # m
    BY <1>5, <1>6, <2>1, <2>3
  <2>4. CASE ~again(x) /\ x = m
    BY <1>1, <1>5, <2>1, <2>4 DEF Tidy
  <2> QED
    BY <2>2, <2>3, <2>4
<1>10. TabsInv'
  <2>1. attempt' \in [Tabs -> Nat] /\ \A s \in Tabs : s # t => attempt'[s] = attempt[s]
    BY <1>2 DEF TabsInv
  <2>2. ASSUME NEW s \in Tabs, s # t PROVE calls'[<<s, "mutex">>] = calls[<<s, "mutex">>]
    <3>1. <<s, "mutex">> # m /\ <<s, "mutex">> \in Calls /\ ~again(<<s, "mutex">>)
      BY <2>2, ThreadsAreCalls DEF m
    <3> QED
      BY <1>6, <3>1
  <2>7. \A x \in Threads : act'[x].waiting => act[x].waiting /\ x[1] # t
    BY <1>5, SentAgainFacts DEF TabsInv
  <2>8. attempt'[t] = 0
    BY <1>2 DEF TabsInv
  <2>3. calls'[<<t, "mutex">>].step = "idle"
    BY <1>6, RestFacts DEF m
  <2>4. ASSUME NEW x \in Threads, act[x].step = "none" PROVE act'[x] = act[x] \/ x[2] # "boot"
    BY <1>5, <1>7, <2>4
  <2>5. calls'[Elsewhere] = calls[Elsewhere]
    BY <1>1, <1>6, ThreadsAreCalls
  <2>6. act' = [x \in Threads |-> act'[x]]
    BY <1>4
  <2> QED
    BY <1>2, <1>9, <2>1, <2>2, <2>3, <2>4, <2>5, <2>6, <2>7, <2>8, AttemptTidy
<1> QED
  BY <1>8, <1>10

LEMMA RefreshFailsUse ==
  ASSUME IInv, TabsInv, NEW t \in Tabs, RefreshFails(t)
  PROVE  TabMoves /\ TabsInv'
<1> DEFINE m == <<t, "mutex">>
           ends(x) == x[1] = t /\ act[x].waiting
<1>1. m \in Calls /\ m \in Threads /\ m[2] = "mutex" /\ m[1] = t /\ m # Elsewhere
  BY ThreadsAreCalls
<1>2. /\ stored' = None /\ UNCHANGED <<open, users, tokenVars, limitVars>>
      /\ attempt' = [attempt EXCEPT ![t] = 0]
      /\ calls[m].step = "answered" /\ doubtful \subseteq doubtful'
  <2>1. PICK code : Hear(m, code)
    BY DEF RefreshFails
  <2>2. calls[m].step = "answered" /\ doubtful \subseteq doubtful'
    BY <1>1, <2>1, HearFacts
  <2> QED
    BY <2>2 DEF RefreshFails, clearSession, ServiceIdle
<1>3. /\ act' = [x \in Threads |-> act'[x]] /\ calls' = [x \in Calls |-> calls'[x]]
      /\ \A x \in Threads : act'[x] = IF ends(x) THEN Rest ELSE act[x]
      /\ \A x \in Calls : calls'[x] = IF x = m \/ (x \in Threads /\ ends(x)) THEN Idle ELSE calls[x]
  BY DEF RefreshFails
<1>4. ASSUME NEW x \in Threads, ends(x)
      PROVE  x # m /\ calls[x].step = "idle" /\ (act[x].step # "none" \/ x[2] # "boot")
  <2>1. Tidy(x, act[x], calls[x])
    BY DEF TabsInv
  <2> QED
    BY <1>1, <1>4, <2>1 DEF Tidy
<1> HIDE DEF m
<1>5. TabMoves
  <2>1. ASSUME NEW d \in Calls PROVE calls'[d] = calls[d] \/ Freed(d, calls'[d])
    <3>1. CASE d = m \/ (d \in Threads /\ ends(d))
      <4>1. calls'[d] = Idle /\ calls[d].step \in {"idle", "answered"}
        BY <1>2, <1>3, <1>4, <3>1
      <4> QED
        BY <1>2, <4>1 DEF Freed, Takes, Replaced
    <3> QED
      BY <1>3, <3>1
  <2> QED
    BY <1>2, <1>3, <2>1 DEF TabMoves, Replaced
<1>6. ASSUME NEW x \in Threads PROVE IsActivity(act'[x]) /\ Tidy(x, act'[x], calls'[x])
  <2>1. IsActivity(act[x]) /\ Tidy(x, act[x], calls[x]) /\ x \in Calls
    BY ThreadsAreCalls DEF TabsInv
  <2>2. CASE ends(x)
    BY <1>3, <2>1, <2>2, RestFacts
  <2>3. CASE ~ends(x) /\ x # m
    BY <1>3, <2>1, <2>3
  <2>4. CASE ~ends(x) /\ x = m
    BY <1>1, <1>3, <2>1, <2>4 DEF Tidy
  <2> QED
    BY <2>2, <2>3, <2>4
<1>7. TabsInv'
  <2>1. attempt' \in [Tabs -> Nat] /\ \A s \in Tabs : s # t => attempt'[s] = attempt[s]
    BY <1>2 DEF TabsInv
  <2>2. ASSUME NEW s \in Tabs, s # t PROVE calls'[<<s, "mutex">>] = calls[<<s, "mutex">>]
    <3>1. <<s, "mutex">> # m /\ <<s, "mutex">> \in Calls /\ ~ends(<<s, "mutex">>)
      BY <2>2, ThreadsAreCalls DEF m
    <3> QED
      BY <1>3, <3>1
  <2>6. \A x \in Threads : act'[x].waiting => act[x].waiting /\ x[1] # t
    BY <1>3, RestFacts
  <2>7. attempt'[t] = 0
    BY <1>2 DEF TabsInv
  <2>3. calls'[<<t, "mutex">>].step = "idle"
    BY <1>1, <1>3, RestFacts DEF m
  <2>4. ASSUME NEW x \in Threads, act[x].step = "none" PROVE act'[x] = act[x] \/ x[2] # "boot"
    BY <1>3, <1>4, <2>4
  <2>5. calls'[Elsewhere] = calls[Elsewhere]
    BY <1>1, <1>3, ThreadsAreCalls
  <2> QED
    BY <1>2, <1>3, <1>6, <2>1, <2>2, <2>3, <2>4, <2>5, <2>6, <2>7, AttemptTidy
<1> QED
  BY <1>5, <1>7

LEMMA AskedAgain ==
  ASSUME NEW q, NEW op \in Ops, NEW user \in Users \cup {Nobody},
         NEW token \in {None, stored, q.token}, NEW password \in Version
  PROVE  Takes(q, Request(op, user, token, password))
BY ZenonT(60) DEF Takes

\* The same token again: an answer that was an error leaves it doubtful.
LEMMA RefreshRetriesUse ==
  ASSUME IInv, TabsInv, NEW t \in Tabs, RefreshRetries(t)
  PROVE  TabMoves /\ TabsInv'
<1> DEFINE m == <<t, "mutex">>
           token == calls[m].token
           r == Request("refresh", Nobody, token, 0)
<1>1. m \in Calls /\ m \in Threads /\ m[2] = "mutex" /\ m[1] = t /\ m # Elsewhere
  BY ThreadsAreCalls
<1>2. PICK code \in {0, 500} : Hear(m, code)
  BY DEF RefreshRetries
<1>3. /\ UNCHANGED <<stored, open, act, users, tokenVars, limitVars>>
      /\ attempt' = [attempt EXCEPT ![t] = @ + 1] /\ calls' = [calls EXCEPT ![m] = r]
  BY DEF RefreshRetries, ServiceIdle
<1>4. Takes(calls[m], r)
  <2>1. "refresh" \in Ops /\ Nobody \in Users \cup {Nobody} /\ 0 \in Version
    BY Constants
  <2>2. token \in {None, stored, calls[m].token}
    OBVIOUS
  <2> HIDE DEF m, token
  <2> QED
    BY <2>1, <2>2, AskedAgain
<1>7. r.step # "idle"
  BY Constants, RequestFacts
<1> HIDE DEF m, token, r
<1>5. TabMoves
  <2>1. Freed(m, r)
    BY <1>1, <1>2, <1>4, HearFacts DEF Freed
  <2>2. doubtful \subseteq doubtful'
    BY <1>1, <1>2, HearFacts
  <2> QED
    BY <1>1, <1>3, <2>1, <2>2, OneMoves
<1>6. TabsInv'
  <2>1. /\ attempt' \in [Tabs -> Nat] /\ attempt'[t] # 0
        /\ \A s \in Tabs : s # t => attempt'[s] = attempt[s]
    BY <1>3 DEF TabsInv
  <2>7. calls'[<<t, "mutex">>].step # "idle"
    BY <1>1, <1>3, <1>7, PairFacts DEF m
  <2>2. \A d \in Calls : d # m => calls'[d] = calls[d]
    BY <1>3, PairFacts
  <2>3. ASSUME NEW s \in Tabs, s # t PROVE calls'[<<s, "mutex">>] = calls[<<s, "mutex">>]
    <3>1. <<s, "mutex">> # <<t, "mutex">>
      BY <2>3
    <3>2. <<s, "mutex">> # m
      BY <3>1 DEF m
    <3>3. <<s, "mutex">> \in Calls
      BY ThreadFacts DEF Kinds
    <3> QED
      BY <2>2, <3>2, <3>3
  <2>4. ASSUME NEW x \in Threads PROVE IsActivity(act'[x]) /\ Tidy(x, act'[x], calls'[x])
    <3>1. IsActivity(act[x]) /\ Tidy(x, act[x], calls[x]) /\ x \in Calls
      BY ThreadsAreCalls DEF TabsInv
    <3>2. CASE x # m
      BY <1>3, <2>2, <3>1, <3>2
    <3>3. CASE x = m
      BY <1>1, <1>3, <3>1, <3>3 DEF Tidy
    <3> QED
      BY <3>2, <3>3
  <2>5. calls'[Elsewhere] = calls[Elsewhere]
    BY <1>1, <2>2, ThreadsAreCalls
  <2>6. act' = [x \in Threads |-> act'[x]]
    BY <1>3 DEF TabsInv
  <2> QED
    BY <1>3, <2>1, <2>3, <2>4, <2>5, <2>6, <2>7, AttemptTidy
<1> QED
  BY <1>5, <1>6

\* Requests from outside the browser use no refresh token.
LEMMA ElsewhereUse ==
  ASSUME IInv, TabsInv,
         AnsweredElsewhere \/ \E op \in {"forgot", "resend", "reset"}, u \in Registered :
                                AskElsewhere(op, u)
  PROVE  TabMoves /\ TabsInv'
<1>1. ASSUME NEW r, calls' = [calls EXCEPT ![Elsewhere] = r],
             r.step # "idle" => r.op \notin {"refresh", "logout"},
             UNCHANGED <<act, attempt, open>>
      PROVE  TabsInv'
  <2>1. calls'[Elsewhere] = r /\ \A d \in Calls : d # Elsewhere => calls'[d] = calls[d]
    BY <1>1, PairFacts, ThreadsAreCalls
  <2>2. \A x \in Threads : calls'[x] = calls[x]
    BY <2>1, ThreadsAreCalls
  <2> QED
    BY <1>1, <2>1, <2>2, ThreadsAreCalls DEF TabsInv
<1>2. CASE AnsweredElsewhere
  <2>1. /\ calls[Elsewhere].step = "answered" /\ UNCHANGED <<act, attempt, open, stored, doubtful>>
        /\ calls' = [calls EXCEPT ![Elsewhere] = Idle] /\ UNCHANGED <<users, tokenVars, limitVars>>
    BY <1>2 DEF AnsweredElsewhere, Hung, ServiceIdle, tabVars
  <2>2. TabsInv'
    BY <1>1, <2>1, RestFacts
  <2>3. ~Spent(Elsewhere)
    BY <2>1 DEF TabsInv, Spent
  <2>4. Freed(Elsewhere, Idle)
    BY <2>1, <2>3 DEF Freed, Takes
  <2> QED
    BY <2>1, <2>2, <2>4, OneMoves, ThreadsAreCalls
<1>3. ASSUME NEW op \in {"forgot", "resend", "reset"}, NEW u \in Registered, AskElsewhere(op, u)
      PROVE  TabMoves /\ TabsInv'
  <2> DEFINE r == Request(op, u, None, 0)
  <2>1. /\ calls[Elsewhere].step = "idle" /\ UNCHANGED <<act, attempt, open, stored, doubtful>>
        /\ calls' = [calls EXCEPT ![Elsewhere] = r] /\ UNCHANGED <<users, tokenVars, limitVars>>
    BY <1>3 DEF AskElsewhere, Post, ServiceIdle
  <2>2. op \in Ops /\ u \in Users /\ 0 \in Version
    BY Constants
  <2>3. r.op = op
    BY <2>2, RequestFacts
  <2>4. TabMoves
    BY <2>1, <2>2, OneStarts, ThreadsAreCalls
  <2> HIDE DEF r
  <2>5. TabsInv'
    BY <1>1, <2>1, <2>3
  <2> QED
    BY <2>4, <2>5
<1> QED
  BY <1>2, <1>3

-----------------------------------------------------------------------------
(* The theorems on the token in localStorage and on the counters.          *)

UseInv == IInv /\ ServiceInv /\ TabsInv /\ Counters

LEMMA InitUse == Init => UseInv
<1> SUFFICES ASSUME Init PROVE UseInv
  OBVIOUS
<1>1. /\ stored = None /\ open = {} /\ next = 1 /\ users \in [Users -> Document]
      /\ hits = [o \in LimitedOps |-> 0]
      /\ calls = [c \in Calls |-> Idle] /\ attempt = [t \in Tabs |-> 0]
      /\ act = [x \in Threads |-> IF x[2] = "boot" THEN [Rest EXCEPT !.step = "none"] ELSE Rest]
  BY InitOK DEF Init, AccountsInit, IInv, Base
<1>2. IInv
  BY InitOK
<1>3. Idle.step = "idle" /\ Idle.pair = None /\ Idle.token = None /\ Idle.op = "logout"
  BY DEF Idle
<1>4. ServiceInv
  <2>1. ASSUME NEW c \in Calls PROVE Founded(calls[c])
    BY <1>1, <1>3 DEF Founded
  <2>2. \A u \in Users : users[u].status = "none" => users[u].version = 0
    BY DEF Init, AccountsInit, Absent
  <2>3. Accounted
    BY <1>1, <2>2, AccountsAssumption DEF Accounted, Pairs
  <2> QED
    BY <1>1, <1>3, <2>1, <2>3 DEF ServiceInv, Apart, Usable
<1>5. TabsInv
  <2>1. IsActivity(Rest) /\ Rest.step = "done" /\ ~Rest.waiting
    BY RestFacts DEF Rest
  <2>2. PICK a : a = [Rest EXCEPT !.step = "none"]
    OBVIOUS
  <2>3. IsActivity(a) /\ a.step = "none" /\ ~a.waiting
    BY <2>1, <2>2, GoesOn
  <2>4. \A x \in Threads : act[x] = IF x[2] = "boot" THEN a ELSE Rest
    BY <1>1, <2>2
  <2>5. \A x \in Threads : calls[x] = Idle
    BY <1>1, ThreadsAreCalls
  <2>6. ASSUME NEW x \in Threads PROVE IsActivity(act[x]) /\ Tidy(x, act[x], calls[x])
    <3>1. CASE x[2] = "boot"
      BY <1>3, <2>3, <2>4, <2>5, <3>1 DEF Tidy
    <3>2. CASE x[2] # "boot"
      BY <1>3, <2>1, <2>4, <2>5, <3>2 DEF Tidy
    <3> QED
      BY <3>1, <3>2
  <2>7. \A t \in Tabs : calls[<<t, "mutex">>].step = "idle" /\ act[<<t, "boot">>].step = "none"
    BY <1>3, <2>3, <2>4, <2>5, ThreadsAreCalls
  <2>8. calls[Elsewhere].step = "idle"
    BY <1>1, <1>3, ThreadsAreCalls
  <2>9. act = [x \in Threads |-> act[x]] /\ attempt \in [Tabs -> Nat]
    BY <1>1
  <2>10. \A x \in Threads : ~act[x].waiting
    BY <2>1, <2>3, <2>4
  <2>11. \A t \in Tabs : attempt[t] = 0
    BY <1>1
  <2> QED
    BY <2>6, <2>7, <2>8, <2>9, <2>10, <2>11 DEF TabsInv
<1>6. Counters
  BY <1>1 DEF Counters, CounterArmed
<1> QED
  BY <1>2, <1>4, <1>5, <1>6 DEF UseInv

\* Every step of a tab.
LEMMA TabUse ==
  ASSUME IInv, TabsInv, NEW t \in Tabs,
         \/ OpenTab(t) \/ Boot(t) \/ Refresh(t) \/ Continue(t)
         \/ ApiCall(t) \/ SignOut(t) \/ upgradeAccessTokenWithDeviceBinding(t)
         \/ LoginPage(t) \/ RegisterPage(t) \/ VerifyEmailPage(t) \/ GuestEntryPage(t)
  PROVE  TabMoves /\ TabsInv'
<1>1. CASE OpenTab(t)
  BY <1>1, OpenTabUse
<1>2. CASE Boot(t)
  BY <1>2, BootRefreshedUse, BestEffortUse, BootUserUse, BootRejectedUse DEF Boot
<1>3. CASE Refresh(t)
  BY <1>3, RefreshSucceedsUse, RefreshFailsUse, RefreshRetriesUse DEF Refresh
<1>4. CASE Continue(t)
  BY <1>4, SignedInUse, RejectedUse, BestEffortUse, MeAnswerUse DEF Continue
<1>5. CASE ApiCall(t)
  BY <1>5, ApiCallUse
<1>6. CASE SignOut(t) \/ upgradeAccessTokenWithDeviceBinding(t)
  BY <1>6, SignOutUse
<1>7. CASE LoginPage(t) \/ RegisterPage(t) \/ VerifyEmailPage(t) \/ GuestEntryPage(t)
  BY <1>7, SignInUse, Constants DEF LoginPage, RegisterPage, VerifyEmailPage, GuestEntryPage
<1> QED
  BY <1>1, <1>2, <1>3, <1>4, <1>5, <1>6, <1>7

LEMMA NextUse == UseInv /\ [Next]_vars => UseInv'
<1> SUFFICES ASSUME UseInv, [Next]_vars PROVE UseInv'
  OBVIOUS
<1>0. IInv /\ ServiceInv /\ TabsInv /\ Counters
  BY DEF UseInv
<1>1. IInv'
  BY <1>0, NextOK
<1>2. CASE UNCHANGED vars
  <2>1. UNCHANGED <<stored, doubtful, act, attempt, open, calls>>
        /\ UNCHANGED <<users, tokenVars, limitVars>>
    BY <1>2 DEF vars, accountVars, tabVars
  <2>2. TabMoves
    BY <1>0, <2>1, NoneMoves
  <2>3. TabsInv'
    BY <1>0, <2>1, CallsGoOn
  <2> QED
    BY <1>0, <1>1, <2>2, <2>3, TabMovesUse, TabMovesCount DEF UseInv
<1>3. ASSUME NEW c \in Calls, Handle(c), UNCHANGED tabVars PROVE UseInv'
  <2>1. UNCHANGED <<act, attempt, open>>
    BY <1>3 DEF tabVars
  <2> QED
    BY <1>0, <1>1, <1>3, <2>1, HandleUse, HandleCounts, HandlerTabs DEF UseInv
<1>4. ASSUME NEW c \in Calls, HandlerFails(c) PROVE UseInv'
  <2>1. Fail(c) /\ UNCHANGED <<act, attempt, open, stored, doubtful>>
    BY <1>4 DEF HandlerFails
  <2> QED
    BY <1>0, <1>1, <2>1, FailUse, FailCounts, HandlerTabs DEF UseInv
<1>5. CASE Happens
  <2>1. Environment /\ UNCHANGED <<act, attempt, open, stored, doubtful>>
    BY <1>5 DEF Happens
  <2>2. UNCHANGED calls
    BY <2>1 DEF Environment, SeedConfig, CacheExpires, WindowEnds, GuestExpires,
                RefreshTokenExpires, AccessTokenExpires
  <2>3. TabsInv'
    BY <1>0, <2>1, <2>2, CallsGoOn
  <2> QED
    BY <1>0, <1>1, <2>1, <2>3, EnvironmentUse, EnvironmentCounts DEF UseInv
<1>6. ASSUME TabMoves, TabsInv' PROVE UseInv'
  BY <1>0, <1>1, <1>6, TabMovesUse, TabMovesCount DEF UseInv
<1>7. ASSUME NEW t \in Tabs,
             \/ OpenTab(t) \/ Boot(t) \/ Refresh(t) \/ Continue(t)
             \/ ApiCall(t) \/ SignOut(t) \/ upgradeAccessTokenWithDeviceBinding(t)
             \/ LoginPage(t) \/ RegisterPage(t) \/ VerifyEmailPage(t) \/ GuestEntryPage(t)
      PROVE  UseInv'
  BY <1>0, <1>6, <1>7, TabUse
<1>8. CASE AnsweredElsewhere \/ \E op \in {"forgot", "resend", "reset"}, u \in Registered :
                                  AskElsewhere(op, u)
  BY <1>0, <1>6, <1>8, ElsewhereUse
<1> QED
  BY <1>2, <1>3, <1>4, <1>5, <1>7, <1>8 DEF Next, Runs

\* The token kept in localStorage can be used, or a reason the person is told
\* of made it useless: StoredTokenUsable holds for any number of tabs, accounts
\* and tokens, in every order of bootstraps, refreshes, upgrades, sign-outs,
\* lost answers and failures.
THEOREM KeptTokenUsable == Spec => []StoredTokenUsable
<1>1. UseInv => StoredTokenUsable
  BY DEF UseInv, ServiceInv, Usable, Dead, Spent, StoredTokenUsable
<1> QED
  BY <1>1, InitUse, NextUse, PTL DEF Spec

\* A counter of the rate limits that counts is dropped in the end, unless the
\* request that was to set its expiry failed: CounterArmed holds for every cap
\* and any number of requests at once.
THEOREM CountersArmed == Spec => []CounterArmed
<1>1. UseInv => CounterArmed
  BY DEF UseInv, Counters
<1> QED
  BY <1>1, InitUse, NextUse, PTL DEF Spec

\* A call of a tab is under way exactly when an activity waits for its answer, and
\* a request that waits for refreshPromise waits for a refresh that is under way.
Underway(c) == calls[c].step # "idle"
WaitsForCall(x) == act[x].step \in {"post", "bound"} /\ ~act[x].waiting
NobodyStranded ==
  /\ \A x \in Threads : x[2] # "mutex" => (Underway(x) <=> WaitsForCall(x))
  /\ \A t \in Tabs : Underway(<<t, "mutex">>) <=> attempt[t] # 0
  /\ \A x \in Threads : act[x].waiting => attempt[x[1]] # 0

\* No request is left behind by refreshWithMutex: whichever way a refresh ends,
\* refreshPromise is reset with the call, the requests that joined it late too go
\* on or end with it, and no answer comes to a tab that no longer asks.  This is
\* the safety half of ActivitiesEnd.
THEOREM RequestsAreAwaited == Spec => []NobodyStranded
<1>1. UseInv => NobodyStranded
  <2> SUFFICES ASSUME UseInv PROVE NobodyStranded
    OBVIOUS
  <2>1. ASSUME NEW x \in Threads, x[2] # "mutex" PROVE Underway(x) <=> WaitsForCall(x)
    BY <2>1 DEF UseInv, TabsInv, Tidy, Underway, WaitsForCall
  <2>2. ASSUME NEW t \in Tabs PROVE Underway(<<t, "mutex">>) <=> attempt[t] # 0
    BY DEF UseInv, TabsInv, Underway
  <2>3. \A x \in Threads : act[x].waiting => attempt[x[1]] # 0
    BY DEF UseInv, TabsInv
  <2> QED
    BY <2>1, <2>2, <2>3 DEF NobodyStranded
<1> QED
  BY <1>1, InitUse, NextUse, PTL DEF Spec
=============================================================================
