--------------------------- MODULE BrowserSession ---------------------------
(***************************************************************************)
(* The session of one browser: tabs that share the refresh token in        *)
(* localStorage and keep the access token and the user in memory.  A tab   *)
(* restores the session when it opens, signs in and out, upgrades its      *)
(* token to its device, and calls the API through the interceptor that     *)
(* answers a 401 by a single-flight refresh and one retry.                 *)
(***************************************************************************)
EXTENDS Accounts

CONSTANTS
  Tabs,
  Busy,        \* bound: the tabs in which people sign in and out, and a device is set up
  Elsewhere,   \* the caller of requests made outside this browser
  MaxActs,     \* bound: what the people at the tabs do
  MaxFaults,   \* bound: failures and lost answers
  MaxEvents    \* bound: expiries and changes of configuration

VARIABLES
  stored,      \* localStorage: the refresh token, by the number of its pair
  open,        \* the open tabs
  auth,        \* the auth slice of each tab
  act,         \* what each tab is doing
  attempt,     \* performRefresh: the attempt it is at; 0 when refreshPromise is null
  doubtful,    \* history: refresh tokens used in a call whose answer was an error
  acts, faults, events

tabVars == <<stored, open, auth, act, attempt, doubtful, acts, faults, events>>
vars == <<accountVars, tabVars>>

Kinds == {"boot", "mutex", "api", "signin", "signout", "upgrade"}
Threads == Tabs \X Kinds

ASSUME BrowserAssumption ==
  /\ Threads \subseteq Calls /\ Elsewhere \in Calls \ Threads
  /\ MaxActs \in Nat /\ MaxFaults \in Nat /\ MaxEvents \in Nat

SignedOut == [user |-> Nobody, access |-> None]

\* An activity: "post" waits for a call, "me" for GET /users/me, "sent" for
\* another API request; "waiting" for refreshPromise; "bound" for the refresh
\* that binds the token to the device.
Rest == [step |-> "done", with |-> None, retried |-> FALSE, waiting |-> FALSE]
Activity == [step: {"none", "post", "me", "sent", "bound", "done"},
             with: Pairs \cup {None}, retried: BOOLEAN, waiting: BOOLEAN]

TypeOK ==
  /\ AccountsTypeOK
  /\ stored \in Pairs \cup {None} /\ open \subseteq Tabs
  /\ auth \in [Tabs -> [user: Users \cup {Nobody}, access: Pairs \cup {None}]]
  /\ act \in [Threads -> Activity]
  /\ attempt \in [Tabs -> 0 .. 3]
  /\ doubtful \subseteq Pairs
  /\ acts \in 0 .. MaxActs /\ faults \in 0 .. MaxFaults /\ events \in 0 .. MaxEvents

Init ==
  /\ AccountsInit
  /\ stored = None /\ open = {}
  /\ auth = [t \in Tabs |-> SignedOut]
  /\ act = [x \in Threads |-> IF x[2] = "boot" THEN [Rest EXCEPT !.step = "none"] ELSE Rest]
  /\ attempt = [t \in Tabs |-> 0]
  /\ doubtful = {}
  /\ acts = 0 /\ faults = 0 /\ events = 0

-----------------------------------------------------------------------------
(* What the steps are made of.                                             *)

\* The service is untouched but for a call that starts or ends.
ServiceIdle == UNCHANGED <<users, mail, tokenVars, limitVars, configVars>>
Post(c, op, user, token, password) ==
  /\ calls[c].step = "idle"
  /\ calls' = [calls EXCEPT ![c] = Request(op, user, token, password)]
  /\ ServiceIdle

\* The answer to a call: its code, or 0 for an answer that was lost; the attempts
\* of performRefresh bound their losses themselves.
Hear(c, code) ==
  /\ calls[c].step = "answered"
  /\ \/ code = calls[c].code /\ UNCHANGED faults
     \/ code = 0 /\ c \in Tabs \X {"mutex"} /\ UNCHANGED faults
     \/ code = 0 /\ faults < MaxFaults /\ faults' = faults + 1
  /\ UNCHANGED events
  /\ doubtful' = IF calls[c].op \in {"refresh", "logout"} /\ code \in {0, 500}
                 THEN doubtful \cup {calls[c].token} ELSE doubtful
Hung(c) == calls' = [calls EXCEPT ![c] = Idle] /\ ServiceIdle

\* Mutant: a refresh token already in localStorage is kept.
M_applyAuthResponse(t, user, pair) ==
  /\ auth' = [auth EXCEPT ![t] = [user |-> user, access |-> pair]]
  /\ stored' = IF stored = None THEN pair ELSE stored

\* applyAuthResponse: setSession, and the refresh token to localStorage.
applyAuthResponse(t, user, pair) ==
  /\ auth' = [auth EXCEPT ![t] = [user |-> user, access |-> pair]]
  /\ stored' = pair

\* clearSessionAndLogin, and the same in the bootstrap.
clearSession(t) == /\ stored' = None
                   /\ auth' = [auth EXCEPT ![t] = SignedOut]

Step(x, step) == act' = [act EXCEPT ![x].step = step]
Done(x) == act' = [act EXCEPT ![x] = Rest]
Ready(t) == t \in open /\ act[<<t, "boot">>].step = "done"
Free(t, k) == Ready(t) /\ act[<<t, k>>].step = "done"
Acts == acts < MaxActs /\ acts' = acts + 1

\* The response interceptor on a 401: give up, or join or start the refresh.
\* The rejected request ends the activity.
OnUnauthorized(x) ==
  LET t == x[1] IN
  IF act[x].retried \/ stored = None
  THEN clearSession(t) /\ Done(x) /\ Hung(x) /\ UNCHANGED attempt
  ELSE /\ act' = [act EXCEPT ![x].waiting = TRUE]
       /\ attempt' = [attempt EXCEPT ![t] = IF @ = 0 THEN 1 ELSE @]
       /\ calls' = [calls EXCEPT
            ![x] = IF @.step = "answered" THEN [@ EXCEPT !.step = "idle"] ELSE @,
            ![<<t, "mutex">>] = IF attempt[t] = 0
                                THEN Request("refresh", Nobody, stored, 0) ELSE @]
       /\ ServiceIdle
       /\ UNCHANGED <<stored, auth>>

-----------------------------------------------------------------------------
(* performRefresh under refreshWithMutex.                                  *)

Waiting(t) == {k \in Kinds : act[<<t, k>>].waiting}

\* The refresh succeeded: every request that waited is sent again, once.
RefreshSucceeds(t) ==
  LET m == <<t, "mutex">>
      pair == calls[m].pair
      again(x) == x[1] = t /\ x[2] \in Waiting(t)
  IN
  /\ Hear(m, 200)
  /\ applyAuthResponse(t, auth[t].user, pair)
  /\ attempt' = [attempt EXCEPT ![t] = 0]
  /\ act' = [x \in Threads |->
               IF again(x) THEN [act[x] EXCEPT !.waiting = FALSE, !.retried = TRUE, !.with = pair]
               ELSE act[x]]
  /\ calls' = [x \in Calls |->
                 IF x = m THEN Idle
                 ELSE IF x \in Threads /\ again(x) /\ act[x].step = "post"
                 THEN Request(calls[x].op, calls[x].user, calls[x].token, calls[x].password)
                 ELSE calls[x]]
  /\ ServiceIdle
  /\ UNCHANGED <<open, acts>>

\* Mutant: the requests that wait are not rejected with the refresh.
M_RefreshFails(t) ==
  LET m == <<t, "mutex">> IN
  /\ \E code \in {0, 401, 403, 429, 500} :
       Hear(m, code) /\ (code \in {401, 403, 429} \/ attempt[t] = 3)
  /\ clearSession(t)
  /\ attempt' = [attempt EXCEPT ![t] = 0]
  /\ Hung(m)
  /\ UNCHANGED <<open, act, acts>>

\* Refused, or failed for the last time: every request that waited is rejected
\* and ends the session.
RefreshFails(t) ==
  LET m == <<t, "mutex">> IN
  /\ \E code \in {0, 401, 403, 429, 500} :
       Hear(m, code) /\ (code \in {401, 403, 429} \/ attempt[t] = 3)
  /\ clearSession(t)
  /\ attempt' = [attempt EXCEPT ![t] = 0]
  /\ act' = [x \in Threads |-> IF x[1] = t /\ act[x].waiting
                               THEN Rest ELSE act[x]]
  /\ calls' = [x \in Calls |->
                 IF x = m \/ (x \in Threads /\ x[1] = t /\ act[x].waiting) THEN Idle ELSE calls[x]]
  /\ ServiceIdle
  /\ UNCHANGED <<open, acts>>

\* Any other error: the same token again, a second later.
RefreshRetries(t) ==
  LET m == <<t, "mutex">> IN
  /\ \E code \in {0, 500} : Hear(m, code)
  /\ attempt[t] < 3
  /\ attempt' = [attempt EXCEPT ![t] = @ + 1]
  /\ calls' = [calls EXCEPT ![m] = Request("refresh", Nobody, calls[m].token, 0)]
  /\ ServiceIdle
  /\ UNCHANGED <<stored, open, auth, act, acts>>

-----------------------------------------------------------------------------
(* Opening a tab: bootstrapSessionIfNeeded.                                *)

OpenTab(t) ==
  /\ t \notin open
  /\ open' = open \cup {t}
  /\ IF stored = None
     THEN Done(<<t, "boot">>) /\ UNCHANGED accountVars
     ELSE Step(<<t, "boot">>, "post") /\ Post(<<t, "boot">>, "refresh", Nobody, stored, 0)
  /\ UNCHANGED <<stored, auth, attempt, doubtful, acts, faults, events>>

BootRefreshed(t) ==
  LET x == <<t, "boot">> IN
  /\ act[x].step = "post"
  /\ \E code \in {0, 200, 401, 403, 429, 500} :
       /\ Hear(x, code)
       /\ IF code = 200
          THEN /\ applyAuthResponse(t, Nobody, calls[x].pair)
               /\ act' = [act EXCEPT ![x].step = "me", ![x].with = calls[x].pair]
          ELSE clearSession(t) /\ Done(x)
  /\ Hung(x)
  /\ UNCHANGED <<open, attempt, acts>>

\* The refresh that binds the token to the device stored in IndexedDB; it may fail.
BootBound(t) ==
  LET x == <<t, "boot">> IN
  /\ act[x].step = "bound"
  /\ \E code \in {0, 200, 401, 403, 429, 500} :
       /\ Hear(x, code)
       /\ IF code = 200 THEN applyAuthResponse(t, auth[t].user, calls[x].pair)
          ELSE UNCHANGED <<stored, auth>>
  /\ Done(x) /\ Hung(x)
  /\ UNCHANGED <<open, attempt, acts>>

-----------------------------------------------------------------------------
(* GET /users/me and other API requests, with the token of their sending.  *)

\* The middleware's answer; past the user's document it reads the configuration.
Served(x, code) ==
  /\ code = requireAuthenticatedUser(act[x].with)
  /\ code # 401
  /\ getEffectiveRuntimeConfig
  /\ UNCHANGED <<users, mail, required, tokenVars, limitVars, faults, events>>
Broken ==
  /\ faults < MaxFaults /\ faults' = faults + 1
  /\ UNCHANGED <<events, users, mail, tokenVars, limitVars, configVars>>

\* The boot has its user: done, or one more refresh to bind the token to a device.
BootUser(t) ==
  LET x == <<t, "boot">> IN
  /\ act[x].step = "me" /\ ~act[x].waiting
  /\ Served(x, 200)
  /\ auth' = [auth EXCEPT ![t].user = payload[act[x].with].user]
  /\ \/ Done(x) /\ UNCHANGED calls
     \/ /\ stored # None
        /\ Step(x, "bound")
        /\ calls' = [calls EXCEPT ![x] = Request("refresh", Nobody, stored, 0)]
  /\ UNCHANGED <<stored, open, attempt, doubtful, acts>>

\* Any other failure of GET /users/me ends the session of a boot.
BootRejected(t) ==
  LET x == <<t, "boot">> IN
  /\ act[x].step = "me" /\ ~act[x].waiting
  /\ Served(x, 403) \/ Broken
  /\ clearSession(t) /\ Done(x)
  /\ UNCHANGED <<calls, open, attempt, doubtful, acts>>

\* A page that signed in has its user, or shows an error and stays signed in
\* without one; any other API request just ends.
MeAnswer(x) ==
  LET t == x[1] IN
  /\ \/ x[2] = "signin" /\ act[x].step = "me"
     \/ x[2] = "api" /\ act[x].step = "sent"
  /\ ~act[x].waiting
  /\ \/ /\ Served(x, 200)
        /\ auth' = IF x[2] = "signin"
                   THEN [auth EXCEPT ![t].user = payload[act[x].with].user] ELSE auth
     \/ (Served(x, 403) \/ Broken) /\ UNCHANGED auth
  /\ Done(x)
  /\ UNCHANGED <<calls, stored, open, attempt, doubtful, acts>>

\* 401: the interceptor.  A boot whose request is rejected clears the session too.
Unauthorized(x) ==
  /\ act[x].step \in {"me", "sent"} /\ ~act[x].waiting
  /\ requireAuthenticatedUser(act[x].with) = 401
  /\ OnUnauthorized(x)
  /\ UNCHANGED <<open, doubtful, acts, faults, events>>

ApiCall(t) ==
  /\ Free(t, "api") /\ auth[t].access # None /\ Acts
  /\ act' = [act EXCEPT ![<<t, "api">>] =
               [Rest EXCEPT !.step = "sent", !.with = auth[t].access]]
  /\ UNCHANGED <<accountVars, stored, open, auth, attempt, doubtful, faults, events>>

-----------------------------------------------------------------------------
(* Signing in: LoginPage, RegisterPage, VerifyEmailPage, GuestEntryPage.   *)

SignIn(t, op, u, password) ==
  LET x == <<t, "signin">> IN
  /\ t \in Busy /\ Free(t, "signin") /\ Acts
  /\ Post(x, op, u, None, password)
  /\ act' = [act EXCEPT ![x] = [Rest EXCEPT !.step = "post", !.with = auth[t].access]]
  /\ UNCHANGED <<stored, open, auth, attempt, doubtful, faults, events>>

\* Who is not signed in with an account, a guest perhaps, types a password.
LoginPage(t) == \E u \in Registered, w \in Version :
  auth[t].user \notin Registered /\ SignIn(t, "login", u, w)

RegisterPage(t) == \E u \in Registered :
  auth[t].user \notin Registered /\ SignIn(t, "register", u, 0)

\* The link of the mail; guests are sent home.
VerifyEmailPage(t) == \E u \in Registered :
  /\ [kind |-> "verify", user |-> u] \in mail /\ auth[t].user \notin Guests
  /\ SignIn(t, "verify", u, 0)

\* Visitors who are signed in are sent home.
GuestEntryPage(t) == \E u \in Guests :
  auth[t].access = None /\ SignIn(t, "guest", u, 0)

\* The tokens are stored, if the answer has any; login and registration then
\* ask for the user.
SignedIn(t) ==
  LET x == <<t, "signin">>
      pair == calls[x].pair
      asks == calls[x].op \in {"login", "register"}
  IN
  /\ act[x].step = "post" /\ ~act[x].waiting
  /\ Hear(x, 200)
  /\ IF pair = None THEN Done(x) /\ UNCHANGED <<stored, auth>>
     ELSE /\ applyAuthResponse(t, IF asks THEN Nobody ELSE calls[x].user, pair)
          /\ IF asks THEN act' = [act EXCEPT ![x] = [Rest EXCEPT !.step = "me", !.with = pair]]
             ELSE Done(x)
  /\ Hung(x)
  /\ UNCHANGED <<open, attempt, acts>>

\* A 401 meets the interceptor although no session was needed; other errors
\* are shown.
SignInRejected(t) ==
  LET x == <<t, "signin">> IN
  /\ act[x].step = "post" /\ ~act[x].waiting
  /\ \E code \in {0, 401, 403, 409, 429, 500} :
       /\ Hear(x, code)
       /\ IF code = 401 THEN OnUnauthorized(x)
          ELSE Done(x) /\ Hung(x) /\ UNCHANGED <<stored, auth, attempt>>
  /\ UNCHANGED <<open, acts>>

-----------------------------------------------------------------------------
(* Signing out, and the refresh of ensureMessagingKeypair beside the mutex. *)

SignOut(t) ==
  LET x == <<t, "signout">> IN
  /\ t \in Busy /\ Free(t, "signout") /\ auth[t].access # None /\ Acts
  /\ IF stored = None
     THEN clearSession(t) /\ Done(x) /\ UNCHANGED accountVars
     ELSE Post(x, "logout", Nobody, stored, 0) /\ Step(x, "post") /\ UNCHANGED <<stored, auth>>
  /\ UNCHANGED <<open, attempt, doubtful, faults, events>>

\* Whatever the server answered, the local session is cleared.
SignedOutAt(t) ==
  LET x == <<t, "signout">> IN
  /\ act[x].step = "post"
  /\ \E code \in {0, 200, 500} : Hear(x, code)
  /\ clearSession(t) /\ Done(x) /\ Hung(x)
  /\ UNCHANGED <<open, attempt, acts>>

upgradeAccessTokenWithDeviceBinding(t) ==
  LET x == <<t, "upgrade">> IN
  /\ t \in Busy /\ Free(t, "upgrade") /\ auth[t].access # None /\ stored # None /\ Acts
  /\ Post(x, "refresh", Nobody, stored, 0) /\ Step(x, "post")
  /\ UNCHANGED <<stored, open, auth, attempt, doubtful, faults, events>>

\* Best effort: a failure changes nothing.
Upgraded(t) ==
  LET x == <<t, "upgrade">> IN
  /\ act[x].step = "post"
  /\ \E code \in {0, 200, 401, 403, 500} :
       /\ Hear(x, code)
       /\ IF code = 200 THEN applyAuthResponse(t, auth[t].user, calls[x].pair)
          ELSE UNCHANGED <<stored, auth>>
  /\ Done(x) /\ Hung(x)
  /\ UNCHANGED <<open, attempt, acts>>

-----------------------------------------------------------------------------
(* Requests from outside the browser, and the next-state relation.         *)

AskElsewhere(op, u) ==
  /\ Acts
  /\ op = "reset" => [kind |-> "reset", user |-> u] \in mail /\ users[u].version < MaxResets
  /\ Post(Elsewhere, op, u, None, 0)
  /\ UNCHANGED <<stored, open, auth, act, attempt, doubtful, faults, events>>

AnsweredElsewhere ==
  /\ calls[Elsewhere].step = "answered" /\ Hung(Elsewhere)
  /\ UNCHANGED tabVars

HandlerFails(c) ==
  /\ Fail(c) /\ faults < MaxFaults /\ faults' = faults + 1
  /\ UNCHANGED <<stored, open, auth, act, attempt, doubtful, acts, events>>

Happens ==
  /\ Environment /\ events < MaxEvents /\ events' = events + 1
  /\ UNCHANGED <<stored, open, auth, act, attempt, doubtful, acts, faults>>

Refresh(t) == RefreshSucceeds(t) \/ RefreshFails(t) \/ RefreshRetries(t)
Boot(t) == BootRefreshed(t) \/ BootBound(t) \/ BootUser(t) \/ BootRejected(t)
Continue(t) ==
  \/ SignedIn(t) \/ SignInRejected(t) \/ SignedOutAt(t) \/ Upgraded(t)
  \/ \E k \in Kinds : MeAnswer(<<t, k>>) \/ Unauthorized(<<t, k>>)

\* A handler runs on, and a tab takes up what it was answered.
Runs ==
  \/ \E c \in Calls : Handle(c) /\ UNCHANGED tabVars
  \/ \E t \in Tabs : Boot(t) \/ Refresh(t) \/ Continue(t)

Next ==
  \/ Runs
  \/ \E c \in Calls : HandlerFails(c)
  \/ Happens
  \/ \E t \in Tabs :
       \/ OpenTab(t) \/ ApiCall(t) \/ SignOut(t) \/ upgradeAccessTokenWithDeviceBinding(t)
       \/ LoginPage(t) \/ RegisterPage(t) \/ VerifyEmailPage(t) \/ GuestEntryPage(t)
  \/ \E op \in {"forgot", "resend", "reset"}, u \in Registered : AskElsewhere(op, u)
  \/ AnsweredElsewhere

Spec == Init /\ [][Next]_vars /\ WF_vars(Runs)

-----------------------------------------------------------------------------

\* Only who signed in with an account's current password, or by its e-mail
\* since, holds a refresh token that the service still accepts: a password
\* reset ends every session, and a refresh or sign-in that was under way while
\* the password changed does not carry an old one over (postRefresh checks
\* refreshTokenVersion and issues with the version it read).
OnlyCurrentPassword ==
  \A p \in redis : LET u == payload[p].user IN
    Exists(u) /\ payload[p].v = users[u].version => origin[p] = users[u].version

\* The refresh token a browser keeps is one the service knows, unless it ran
\* out, the account or its password went, a call that uses it is under way, or
\* the answer to such a call was lost: no order of bootstraps, single-flight
\* refreshes, device upgrades and sign-outs in several tabs leaves a revoked
\* token in localStorage.
StoredTokenUsable ==
  stored # None =>
    \/ stored \in redis \cup expired \cup doubtful
    \/ ~Exists(payload[stored].user)
    \/ payload[stored].v # users[payload[stored].user].version
    \/ \E c \in Calls : /\ calls[c].step # "idle" /\ calls[c].token = stored
                        /\ calls[c].op \in {"refresh", "logout"}

\* A counter of the rate limits that has counted a request will be dropped:
\* its key has an expiry, or the request that sets it is on its way, unless
\* that request failed between INCR and EXPIRE.
CounterArmed ==
  \A op \in LimitedOps : hits[op] > 0 =>
    \/ op \in armed \cup stuck
    \/ \E c \in Calls : calls[c].op = op /\ At(c, "arm")

\* A refresh in flight ends and resumes every request that waits for it, once
\* with an answer or a rejection, whatever fails meanwhile (refreshPromise is
\* reset and all its waiters go on); the bound on issued pairs aside.
AtRest == \A x \in Threads : act[x].step \in {"none", "done"}
ActivitiesEnd == ~AtRest ~> (AtRest \/ next > MaxPairs)
=============================================================================
