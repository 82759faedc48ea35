------------------------------ MODULE Accounts ------------------------------
(***************************************************************************)
(* The /auth handlers of the messaging service: registration, sign-in,     *)
(* guests, refresh with rotation, sign-out, e-mail verification and        *)
(* password reset, cut at their awaits; the refresh tokens in Redis, the   *)
(* fixed-window rate limit in front of the handlers, and the runtime       *)
(* configuration with its Redis cache.                                     *)
(*                                                                         *)
(* An access token and the refresh token issued with it are one pair,      *)
(* numbered in the order of issue.  A password is named by the number of   *)
(* resets before it, so that the password and refreshTokenVersion of an    *)
(* account, which one update writes together, are one number.              *)
(***************************************************************************)
EXTENDS Naturals

CONSTANTS
  Calls,       \* the requests that may be in progress at once
  Registered,  \* people with an e-mail address
  Guests,      \* names taken by guests
  Required,    \* EMAIL_VERIFICATION_REQUIRED of the environment
  MaxPairs,    \* bound: pairs of tokens ever issued
  MaxResets,   \* bound: password resets
  MaxHits      \* the cap of every rate limit

Nobody == "nobody"

ASSUME AccountsAssumption ==
  /\ MaxPairs \in Nat /\ MaxResets \in Nat /\ MaxHits \in Nat \ {0}
  /\ Required \in BOOLEAN
  /\ Registered \cap Guests = {} /\ Nobody \notin Registered \cup Guests

VARIABLES
  users,     \* the users collection: a document of each name, or Absent
  next,      \* the number of the next pair
  payload,   \* what Redis stored with each refresh token
  redis,     \* the refresh tokens whose key exists
  expired,   \* history: the pairs whose refresh token ran out
  access,    \* the pairs whose access token has not run out
  mail,      \* the links sent by e-mail
  hits,      \* the counter of each limited operation
  armed,     \* the counters whose key has an expiry
  stuck,     \* history: the counters left without one by a failure
  required,  \* emailVerificationRequired: system_config, or the environment
  cache,     \* the cached configuration in Redis
  calls,     \* the requests in progress
  origin     \* history: the password behind the sign-in a pair descends from

tokenVars == <<next, payload, redis, expired, access, origin>>
limitVars == <<hits, armed, stuck>>
configVars == <<required, cache>>
accountVars == <<users, mail, calls, tokenVars, limitVars, configVars>>

Users == Registered \cup Guests
Pairs == 1 .. MaxPairs
Version == 0 .. MaxResets
None == 0                       \* no pair
Absent == [status |-> "none", verified |-> FALSE, version |-> 0]
Document == [status: {"none", "live", "gone"}, verified: BOOLEAN, version: Version]

LimitedOps == {"register", "forgot", "verify", "resend", "guest"}
Ops == LimitedOps \cup {"login", "refresh", "logout", "reset"}
Steps == {"idle", "gate", "limit", "arm", "lookup", "load", "config", "write",
          "reload", "issue", "revoke", "answered"}

Codes == {0, 200, 401, 403, 409, 429, 500}

\* A call: what it was asked, where it is, the document it read, the pair it
\* issued, and the status it answers; 403 stands for every other refusal.
Call == [op: Ops, user: Users \cup {Nobody}, token: Pairs \cup {None},
         password: Version, step: Steps, doc: Document,
         pair: Pairs \cup {None}, code: Codes]

Idle == [op |-> "logout", user |-> Nobody, token |-> None, password |-> 0,
         step |-> "idle", doc |-> Absent, pair |-> None, code |-> 0]

Link == [kind: {"verify", "reset"}, user: Registered]

Exists(u) == users[u].status = "live"

AccountsTypeOK ==
  /\ users \in [Users -> Document]
  /\ next \in 1 .. MaxPairs + 1
  /\ payload \in [Pairs -> [user: Users \cup {Nobody}, v: Version]]
  /\ redis \subseteq Pairs /\ expired \subseteq Pairs /\ access \subseteq Pairs
  /\ mail \subseteq Link
  /\ hits \in [LimitedOps -> 0 .. MaxHits + 1]
  /\ armed \subseteq LimitedOps /\ stuck \subseteq LimitedOps
  /\ required \in BOOLEAN /\ cache \in {"none", "on", "off"}
  /\ calls \in [Calls -> Call]
  /\ origin \in [Pairs -> Version]

\* Some people have registered and verified their address before, and asked
\* for a link to reset their password.
AccountsInit ==
  /\ users \in [Users -> {Absent, [status |-> "live", verified |-> TRUE, version |-> 0]}]
  /\ \A u \in Guests : users[u] = Absent
  /\ mail = {[kind |-> "reset", user |-> u] : u \in {r \in Registered : Exists(r)}}
  /\ next = 1
  /\ payload = [p \in Pairs |-> [user |-> Nobody, v |-> 0]]
  /\ redis = {} /\ expired = {} /\ access = {}
  /\ hits = [o \in LimitedOps |-> 0] /\ armed = {} /\ stuck = {}
  /\ required = Required /\ cache = "none"
  /\ calls = [c \in Calls |-> Idle]
  /\ origin = [p \in Pairs |-> 0]

-----------------------------------------------------------------------------
(* Configuration: Redis first, then system_config, which fills the cache.  *)

EmailVerificationRequired == IF cache = "none" THEN required ELSE cache = "on"
getEffectiveRuntimeConfig ==
  cache' = IF cache = "none" THEN (IF required THEN "on" ELSE "off") ELSE cache

SeedConfig ==
  /\ required' = ~required
  /\ UNCHANGED <<users, mail, cache, calls, tokenVars, limitVars>>

CacheExpires ==
  /\ cache # "none" /\ cache' = "none"
  /\ UNCHANGED <<users, mail, required, calls, tokenVars, limitVars>>

-----------------------------------------------------------------------------
(* Steps of a call.                                                        *)

At(c, step) == calls[c].step = step
GoTo(c, step) == calls' = [calls EXCEPT ![c].step = step]
Answer(c, code) == calls' = [calls EXCEPT ![c].step = "answered", ![c].code = code]

\* The handler reads the document of its user and goes on.
Read(c, step) ==
  calls' = [calls EXCEPT ![c].step = step, ![c].doc = users[calls[c].user]]

\* Where a handler starts once its rate limit has let it pass.
Entry(op) == CASE op = "refresh" -> "lookup"
               [] op = "logout" -> "revoke"
               [] op \in {"register", "guest"} -> "config"
               [] OTHER -> "load"

\* A request as it reaches the service.
Request(op, user, token, password) ==
  [Idle EXCEPT !.op = op, !.user = user, !.token = token, !.password = password,
               !.step = IF op \in {"verify", "resend", "guest"} THEN "gate"
                        ELSE IF op \in LimitedOps THEN "limit" ELSE Entry(op)]

\* requireGuestSessionsEnabled: operators may have switched guests off.
requireGuestSessionsEnabled(c) ==
  /\ At(c, "gate") /\ calls[c].op = "guest"
  /\ getEffectiveRuntimeConfig
  /\ GoTo(c, "limit") \/ Answer(c, 403)
  /\ UNCHANGED <<users, mail, required, tokenVars, limitVars>>

\* requireEmailVerificationEnabled of verify and resend.
requireEmailVerificationEnabled(c) ==
  /\ At(c, "gate") /\ calls[c].op # "guest"
  /\ getEffectiveRuntimeConfig
  /\ IF EmailVerificationRequired THEN GoTo(c, "limit") ELSE Answer(c, 403)
  /\ UNCHANGED <<users, mail, required, tokenVars, limitVars>>

\* Mutant: the expiry is set by the second request of a window.
M_fixedWindowIncrement(c) ==
  LET op == calls[c].op IN
  /\ At(c, "limit") /\ hits[op] <= MaxHits
  /\ hits' = [hits EXCEPT ![op] = @ + 1]
  /\ IF hits[op] = 1 THEN GoTo(c, "arm") ELSE GoTo(c, Entry(op))
  /\ UNCHANGED <<users, mail, armed, stuck, tokenVars, configVars>>

\* fixedWindowIncrement: INCR, and the first request of a window has yet to
\* set the expiry.
fixedWindowIncrement(c) ==
  LET op == calls[c].op IN
  /\ At(c, "limit")
  /\ hits[op] <= MaxHits          \* counted no further than the cap needs
  /\ hits' = [hits EXCEPT ![op] = @ + 1]
  /\ IF hits[op] = 0 THEN GoTo(c, "arm")
     ELSE IF hits[op] + 1 > MaxHits THEN Answer(c, 429)
     ELSE GoTo(c, Entry(op))
  /\ UNCHANGED <<users, mail, armed, stuck, tokenVars, configVars>>

\* A counter at the bound stays there.
refuse(c) ==
  /\ At(c, "limit") /\ hits[calls[c].op] > MaxHits
  /\ Answer(c, 429)
  /\ UNCHANGED <<users, mail, tokenVars, limitVars, configVars>>

\* The EXPIRE of the first request of a window.
expireKey(c) ==
  /\ At(c, "arm")
  /\ armed' = armed \cup {calls[c].op}
  /\ GoTo(c, Entry(calls[c].op))
  /\ UNCHANGED <<users, mail, hits, stuck, tokenVars, configVars>>

\* Redis drops a counter whose window has passed.
WindowEnds(op) ==
  /\ op \in armed
  /\ armed' = armed \ {op}
  /\ hits' = [hits EXCEPT ![op] = 0]
  /\ UNCHANGED <<users, mail, stuck, calls, tokenVars, configVars>>

-----------------------------------------------------------------------------
(* Handlers.                                                               *)

verifyPassword(u, password) == users[u].version = password

\* The mails carry a signed link; SendGrid may fail.
sendVerificationEmail(u) == mail' \in {mail, mail \cup {[kind |-> "verify", user |-> u]}}
sendPasswordResetEmail(u) == mail' \in {mail, mail \cup {[kind |-> "reset", user |-> u]}}

\* postRegister and postGuest read the configuration before they insert.  Unless
\* verification is required an account counts as verified; guests always do.
readConfig(c) ==
  /\ At(c, "config") /\ calls[c].op \in {"register", "guest"}
  /\ getEffectiveRuntimeConfig
  /\ calls' = [calls EXCEPT ![c].step = "write",
       ![c].doc = [Absent EXCEPT !.status = "live",
                     !.verified = calls[c].op = "guest" \/ ~EmailVerificationRequired]]
  /\ UNCHANGED <<users, mail, required, tokenVars, limitVars>>

\* createUser and createGuestUser: the unique indexes decide.  An account that
\* is not verified is sent a link, which may fail without being reported.
\* A name stands for one row: who takes it after the row expired is another guest.
createUser(c) ==
  LET u == calls[c].user IN
  /\ At(c, "write") /\ calls[c].op \in {"register", "guest"}
  /\ IF users[u].status # "none"
     THEN Answer(c, 409) /\ UNCHANGED <<users, mail>>
     ELSE /\ users' = [users EXCEPT ![u] = calls[c].doc]
          /\ IF calls[c].doc.verified
             THEN GoTo(c, "issue") /\ UNCHANGED mail
             ELSE sendVerificationEmail(u) /\ Answer(c, 200)
  /\ UNCHANGED <<tokenVars, limitVars, configVars>>

\* The TTL index on guestDataExpiresAt removes the row of a guest.
GuestExpires(u) ==
  /\ Exists(u)
  /\ users' = [users EXCEPT ![u].status = "gone"]
  /\ UNCHANGED <<mail, calls, tokenVars, limitVars, configVars>>

\* postLogin reads the document, then verifies the password against it.
findUserByEmail(c) ==
  LET u == calls[c].user IN
  /\ At(c, "load") /\ calls[c].op = "login"
  /\ IF ~Exists(u) \/ ~verifyPassword(u, calls[c].password) THEN Answer(c, 401)
     ELSE IF ~users[u].verified THEN Answer(c, 403)
     ELSE Read(c, "issue")
  /\ UNCHANGED <<users, mail, tokenVars, limitVars, configVars>>

\* getRefreshPayload of postRefresh.
getRefreshPayload(c) ==
  /\ At(c, "lookup")
  /\ IF calls[c].token \in redis
     THEN calls' = [calls EXCEPT ![c].step = "load",
                                 ![c].user = payload[calls[c].token].user]
     ELSE Answer(c, 401)
  /\ UNCHANGED <<users, mail, tokenVars, limitVars, configVars>>

\* Mutant: a token of an older version passes.
M_SameVersion(c) == users[calls[c].user].version >= payload[calls[c].token].v

\* A refresh is good if the user exists and the token is of the current version.
SameVersion(c) == users[calls[c].user].version = payload[calls[c].token].v

\* findUserById and the checks of postRefresh; a token that failed them is revoked.
loadForRefresh(c) ==
  /\ At(c, "load") /\ calls[c].op = "refresh"
  /\ Read(c, IF Exists(calls[c].user) /\ SameVersion(c) THEN "config" ELSE "revoke")
  /\ UNCHANGED <<users, mail, tokenVars, limitVars, configVars>>

\* The configuration is awaited; it is compared with the document read before.
checkConfig(c) ==
  /\ At(c, "config") /\ calls[c].op = "refresh"
  /\ getEffectiveRuntimeConfig
  /\ IF EmailVerificationRequired /\ ~calls[c].doc.verified
     THEN Answer(c, 403) ELSE GoTo(c, "issue")
  /\ UNCHANGED <<users, mail, required, tokenVars, limitVars>>

\* postVerifyEmail: an unverified account is marked and read again.
loadForVerify(c) ==
  LET u == calls[c].user IN
  /\ At(c, "load") /\ calls[c].op = "verify"
  /\ IF Exists(u) THEN Read(c, IF users[u].verified THEN "issue" ELSE "write")
     ELSE Answer(c, 403)
  /\ UNCHANGED <<users, mail, tokenVars, limitVars, configVars>>

setUserEmailVerified(c) ==
  /\ At(c, "write") /\ calls[c].op = "verify"
  /\ users' = [users EXCEPT ![calls[c].user].verified = TRUE]
  /\ GoTo(c, "reload")
  /\ UNCHANGED <<mail, tokenVars, limitVars, configVars>>

reloadVerified(c) ==
  /\ At(c, "reload") /\ calls[c].op = "verify"
  /\ Read(c, "issue")
  /\ UNCHANGED <<users, mail, tokenVars, limitVars, configVars>>

\* postForgotPassword and postResendVerification answer alike whether or not
\* the account exists, or is verified already.
postForgotPassword(c) ==
  LET u == calls[c].user IN
  /\ At(c, "load") /\ calls[c].op = "forgot"
  /\ IF Exists(u) THEN sendPasswordResetEmail(u) ELSE UNCHANGED mail
  /\ Answer(c, 200)
  /\ UNCHANGED <<users, tokenVars, limitVars, configVars>>

postResendVerification(c) ==
  LET u == calls[c].user IN
  /\ At(c, "load") /\ calls[c].op = "resend"
  /\ IF Exists(u) /\ ~users[u].verified THEN sendVerificationEmail(u) ELSE UNCHANGED mail
  /\ Answer(c, 200)
  /\ UNCHANGED <<users, tokenVars, limitVars, configVars>>

\* postResetPassword: checks, then one update of password and version.
loadForReset(c) ==
  /\ At(c, "load") /\ calls[c].op = "reset"
  /\ IF Exists(calls[c].user) THEN GoTo(c, "write") ELSE Answer(c, 403)
  /\ UNCHANGED <<users, mail, tokenVars, limitVars, configVars>>

setUserPasswordAndBumpVersion(c) ==
  LET u == calls[c].user IN
  /\ At(c, "write") /\ calls[c].op = "reset"
  /\ users[u].version < MaxResets
  /\ users' = [users EXCEPT ![u].version = @ + 1]
  /\ Answer(c, 200)
  /\ UNCHANGED <<mail, tokenVars, limitVars, configVars>>

-----------------------------------------------------------------------------
(* Tokens.                                                                 *)

\* The password a new pair descends from: the one behind the refreshed pair,
\* the one typed, or for the other ways to sign in that of the document read.
Credential(c) == CASE calls[c].op = "refresh" -> origin[calls[c].token]
                   [] calls[c].op = "login" -> calls[c].password
                   [] OTHER -> calls[c].doc.version

\* issueAuthTokens, with the version of the document the handler read; the
\* answer follows, or for a refresh the end of the old token.
issueAuthTokens(c) ==
  /\ At(c, "issue")
  /\ next <= MaxPairs
  /\ next' = next + 1
  /\ payload' = [payload EXCEPT ![next] = [user |-> calls[c].user, v |-> calls[c].doc.version]]
  /\ redis' = redis \cup {next}
  /\ access' = access \cup {next}
  /\ origin' = [origin EXCEPT ![next] = Credential(c)]
  /\ calls' = [calls EXCEPT
       ![c].pair = next,
       ![c].step = IF calls[c].op = "refresh" THEN "revoke" ELSE "answered",
       ![c].code = IF calls[c].op = "refresh" THEN 0 ELSE 200]
  /\ UNCHANGED <<users, expired, mail, limitVars, configVars>>

\* revokeRefreshToken: the last step of a refresh, good or refused, and all of
\* postLogout.
revokeRefreshToken(c) ==
  /\ At(c, "revoke")
  /\ redis' = redis \ {calls[c].token}
  /\ Answer(c, IF calls[c].op = "refresh" /\ calls[c].pair = None THEN 401 ELSE 200)
  /\ UNCHANGED <<users, next, payload, expired, access, mail, origin,
                 limitVars, configVars>>

\* The time to live of a refresh token, and of an access token.
RefreshTokenExpires(p) ==
  /\ p \in redis
  /\ redis' = redis \ {p} /\ expired' = expired \cup {p}
  /\ UNCHANGED <<users, next, payload, access, mail, calls, origin, limitVars,
                 configVars>>

AccessTokenExpires(p) ==
  /\ p \in access
  /\ access' = access \ {p}
  /\ UNCHANGED <<users, next, payload, redis, expired, mail, calls, origin,
                 limitVars, configVars>>

\* MongoDB, Redis or the process fails at any await: an error answer.
Fail(c) ==
  /\ calls[c].step \notin {"idle", "answered"}
  /\ calls' = [calls EXCEPT ![c].step = "answered", ![c].code = 500, ![c].pair = None]
  /\ stuck' = IF At(c, "arm") THEN stuck \cup {calls[c].op} ELSE stuck
  /\ UNCHANGED <<users, mail, hits, armed, tokenVars, configVars>>

\* The access token is signed and has not run out.
verifyAccessTokenJwt(p) == p \in access

\* requireAuthenticatedUser: the status a request with this access token gets.
requireAuthenticatedUser(p) ==
  IF ~verifyAccessTokenJwt(p) \/ ~Exists(payload[p].user) THEN 401
  ELSE IF EmailVerificationRequired /\ ~users[payload[p].user].verified THEN 403
  ELSE 200

-----------------------------------------------------------------------------

\* One step of the handler of a call, failures aside.
Handle(c) ==
  \/ requireGuestSessionsEnabled(c) \/ requireEmailVerificationEnabled(c)
  \/ fixedWindowIncrement(c) \/ refuse(c) \/ expireKey(c)
  \/ readConfig(c) \/ createUser(c) \/ findUserByEmail(c)
  \/ getRefreshPayload(c) \/ loadForRefresh(c) \/ checkConfig(c)
  \/ loadForVerify(c) \/ setUserEmailVerified(c) \/ reloadVerified(c)
  \/ postForgotPassword(c) \/ postResendVerification(c) \/ loadForReset(c) \/ setUserPasswordAndBumpVersion(c)
  \/ issueAuthTokens(c) \/ revokeRefreshToken(c)

\* What time and operators do.
Environment ==
  \/ SeedConfig \/ CacheExpires
  \/ \E op \in LimitedOps : WindowEnds(op)
  \/ \E u \in Guests : GuestExpires(u)
  \/ \E p \in Pairs : RefreshTokenExpires(p) \/ AccessTokenExpires(p)
=============================================================================
