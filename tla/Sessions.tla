------------------------------- MODULE Sessions --------------------------------
(***************************************************************************)
(* Logging in, the authenticate middleware and logging out: login of       *)
(* src/services/auth.service.js, src/middleware/auth.js and the logout     *)
(* route of src/routes/auth.routes.js, with the blacklist they keep in     *)
(* Redis.  A request looks its token up in the blacklist, verifies it,     *)
(* reads the user, and only then reaches its handler; other requests, the  *)
(* clock, Redis and whoever edits users.is_active run in between.          *)
(*                                                                         *)
(* A token is the JSON web token itself: its user and the second it was    *)
(* issued in, which are all that jwt.sign is given to sign.                *)
(***************************************************************************)
EXTENDS Naturals

CONSTANTS
  User,
  Request,
  TokenLife,     \* JWT_EXPIRES_IN, in units of the clock
  BlacklistTTL,  \* how long the blacklist remembers a token
  MaxNow,        \* bound on the clock
  Unlucky        \* users whose entries Redis may lose, or fail to take or to give

ASSUME SessionsAssumption ==
  /\ TokenLife \in Nat \ {0} /\ BlacklistTTL \in Nat /\ MaxNow \in Nat
  /\ TokenLife <= BlacklistTTL
  /\ Unlucky \subseteq User

VARIABLES
  now,
  active,     \* users with is_active
  issued,     \* tokens signed so far
  blacklist,  \* when each token's entry in Redis expires, 0 without entry
  pc,         \* where each request is
  call,       \* what each request is, and with which token
  reply,      \* what each request was answered
  bars,       \* history: what spoke against the token when the request began
  loggedOut   \* history: tokens whose logout was answered

vars == <<now, active, issued, blacklist, pc, call, reply, bars, loggedOut>>

Time == 0 .. MaxNow

Token == User \X Time

Call == [kind : {"login", "serve", "logout"}, user : User, since : Time]

Stage == {"new", "compare", "lookUp", "verify", "findUser", "handle", "answer", "done"}

TypeOK ==
  /\ now \in Time
  /\ active \subseteq User
  /\ issued \subseteq Token
  /\ blacklist \in [Token -> Nat]
  /\ pc \in [Request -> Stage]
  /\ call \in [Request -> Call]
  /\ reply \in [Request -> {"none", "200", "401", "403"}]
  /\ bars \in [Request -> SUBSET {"expired", "inactive", "loggedOut"}]
  /\ loggedOut \subseteq Token

Init ==
  /\ now = 0
  /\ active = User
  /\ issued = {}
  /\ blacklist = [t \in Token |-> 0]
  /\ pc = [r \in Request |-> "new"]
  /\ \E u \in User : call = [r \in Request |-> [kind |-> "login", user |-> u, since |-> 0]]
  /\ reply = [r \in Request |-> "none"]
  /\ bars = [r \in Request |-> {}]
  /\ loggedOut = {}

TokenOf(r) == <<call[r].user, call[r].since>>

Expired(t) == now >= t[2] + TokenLife

Blacklisted(t) == blacklist[t] > now

GoTo(r, stage) == pc' = [pc EXCEPT ![r] = stage] /\ UNCHANGED reply

Answer(r, code) ==
  /\ pc' = [pc EXCEPT ![r] = "done"]
  /\ reply' = [reply EXCEPT ![r] = code]

(***************************************************************************)
(* POST /auth/login                                                        *)
(***************************************************************************)

\* The user is read, with is_active as it is now.
Login(r, u) ==
  /\ pc[r] = "new"
  /\ call' = [call EXCEPT ![r] = [kind |-> "login", user |-> u, since |-> now]]
  /\ bars' = [bars EXCEPT ![r] = {}]
  /\ \/ u \in active /\ GoTo(r, "compare")
     \/ u \notin active /\ Answer(r, "403")
  /\ UNCHANGED <<now, active, issued, blacklist, loggedOut>>

\* bcrypt.compare agrees, the token is signed.
Issue(r) ==
  /\ pc[r] = "compare"
  /\ issued' = issued \cup {<<call[r].user, now>>}
  /\ Answer(r, "200")
  /\ UNCHANGED <<now, active, blacklist, call, bars, loggedOut>>

WrongPassword(r) ==
  /\ pc[r] = "compare"
  /\ Answer(r, "401")
  /\ UNCHANGED <<now, active, issued, blacklist, call, bars, loggedOut>>

(***************************************************************************)
(* authenticate                                                            *)
(***************************************************************************)

BarsOf(t) ==
  (IF Expired(t) THEN {"expired"} ELSE {})
  \cup (IF t[1] \notin active THEN {"inactive"} ELSE {})
  \cup (IF t \in loggedOut THEN {"loggedOut"} ELSE {})

Start(r, kind, t) ==
  /\ pc[r] = "new"
  /\ call' = [call EXCEPT ![r] = [kind |-> kind, user |-> t[1], since |-> t[2]]]
  /\ bars' = [bars EXCEPT ![r] = BarsOf(t)]
  /\ GoTo(r, "lookUp")
  /\ UNCHANGED <<now, active, issued, blacklist, loggedOut>>

\* Mutant of LookUp: the blacklist is kept by user.
LookUpUser(r) ==
  /\ pc[r] = "lookUp"
  /\ \/ (\E s \in Time : Blacklisted(<<call[r].user, s>>)) /\ Answer(r, "401")
     \/ (\A s \in Time : ~ Blacklisted(<<call[r].user, s>>)) /\ GoTo(r, "verify")
  /\ UNCHANGED <<now, active, issued, blacklist, call, bars, loggedOut>>

\* redis.get answers null, too, when it fails.
LookUp(r) ==
  /\ pc[r] = "lookUp"
  /\ \/ Blacklisted(TokenOf(r)) /\ Answer(r, "401")
     \/ (call[r].user \in Unlucky \/ ~ Blacklisted(TokenOf(r))) /\ GoTo(r, "verify")
  /\ UNCHANGED <<now, active, issued, blacklist, call, bars, loggedOut>>

\* jwt.verify; errorHandler answers TokenExpiredError with 401.
Verify(r) ==
  /\ pc[r] = "verify"
  /\ \/ Expired(TokenOf(r)) /\ Answer(r, "401")
     \/ ~ Expired(TokenOf(r)) /\ GoTo(r, "findUser")
  /\ UNCHANGED <<now, active, issued, blacklist, call, bars, loggedOut>>

\* Mutant of FindUser: is_active is not looked at.
FindUserOnly(r) ==
  /\ pc[r] = "findUser"
  /\ GoTo(r, "handle")
  /\ UNCHANGED <<now, active, issued, blacklist, call, bars, loggedOut>>

FindUser(r) ==
  /\ pc[r] = "findUser"
  /\ \/ call[r].user \notin active /\ Answer(r, "403")
     \/ call[r].user \in active /\ GoTo(r, "handle")
  /\ UNCHANGED <<now, active, issued, blacklist, call, bars, loggedOut>>

(***************************************************************************)
(* The handlers                                                            *)
(***************************************************************************)

\* Any handler but the logout's.
Serve(r) ==
  /\ pc[r] = "handle" /\ call[r].kind = "serve"
  /\ Answer(r, "200")
  /\ UNCHANGED <<now, active, issued, blacklist, call, bars, loggedOut>>

\* Mutant of Revoke: the entry lives one unit shorter than a token.
RevokeBriefly(r) ==
  /\ pc[r] = "handle" /\ call[r].kind = "logout"
  /\ blacklist' = [blacklist EXCEPT ![TokenOf(r)] = now + TokenLife - 1]
  /\ GoTo(r, "answer")
  /\ UNCHANGED <<now, active, issued, call, bars, loggedOut>>

\* redis.set returns, too, when it fails.
Revoke(r) ==
  /\ pc[r] = "handle" /\ call[r].kind = "logout"
  /\ \/ blacklist' = [blacklist EXCEPT ![TokenOf(r)] = now + BlacklistTTL]
     \/ call[r].user \in Unlucky /\ UNCHANGED blacklist
  /\ GoTo(r, "answer")
  /\ UNCHANGED <<now, active, issued, call, bars, loggedOut>>

\* "Logged out successfully"
LoggedOut(r) ==
  /\ pc[r] = "answer"
  /\ loggedOut' = loggedOut \cup {TokenOf(r)}
  /\ Answer(r, "200")
  /\ UNCHANGED <<now, active, issued, blacklist, call, bars>>

(***************************************************************************)
(* Around them                                                             *)
(***************************************************************************)

Tick ==
  /\ now < MaxNow
  /\ now' = now + 1
  /\ UNCHANGED <<active, issued, blacklist, pc, call, reply, bars, loggedOut>>

\* Nothing in the code writes is_active: the operator does, in the database.
Deactivate(u) ==
  /\ u \in active
  /\ active' = active \ {u}
  /\ UNCHANGED <<now, issued, blacklist, pc, call, reply, bars, loggedOut>>

\* Redis is restarted, or evicts the entry.
LoseEntry(t) ==
  /\ t[1] \in Unlucky /\ Blacklisted(t)
  /\ blacklist' = [blacklist EXCEPT ![t] = 0]
  /\ UNCHANGED <<now, active, issued, pc, call, reply, bars, loggedOut>>

Step(r) ==
  \/ \E u \in User : Login(r, u)
  \/ \E t \in issued : Start(r, "serve", t) \/ Start(r, "logout", t)
  \/ Issue(r) \/ WrongPassword(r)
  \/ LookUp(r) \/ Verify(r) \/ FindUser(r)
  \/ Serve(r) \/ Revoke(r) \/ LoggedOut(r)

Next ==
  \/ \E r \in Request : Step(r)
  \/ Tick
  \/ \E u \in User : Deactivate(u)
  \/ \E t \in Token : LoseEntry(t)

Spec == Init /\ [][Next]_vars

(***************************************************************************)
(* Properties                                                              *)
(***************************************************************************)

\* The request has passed authenticate.
Admitted(r) ==
  /\ call[r].kind # "login"
  /\ \/ pc[r] \in {"handle", "answer"}
     \/ pc[r] = "done" /\ reply[r] = "200"

\* Whatever Redis does, a request that begins after its token expired or its user
\* was deactivated reaches no handler, though a login under way at the deactivation
\* still signs a token.
StaleStayOut == \A r \in Request : Admitted(r) => bars[r] \subseteq {"loggedOut"}

\* A request that begins after the logout of its token was answered reaches no handler:
\* the entry outlives the token it bars, unless Redis loses it.
LoggedOutStayOut ==
  \A r \in Request :
    Admitted(r) => call[r].user \in Unlucky \/ "loggedOut" \notin bars[r]

\* Nobody is refused for what happened to another token or another user: a 401 is
\* for a token that expired or that a logout has reached, a 403 for its own user.
RefusalsDeserved ==
  \A r \in Request :
    /\ reply[r] = "401" /\ call[r].kind # "login" =>
         \/ Expired(TokenOf(r)) \/ TokenOf(r) \in loggedOut
         \/ \E q \in Request : pc[q] = "answer" /\ TokenOf(q) = TokenOf(r)
    /\ reply[r] = "403" => call[r].user \notin active

\* "Please login again" (src/middleware/auth.js:22), "401 means 'authenticate again'"
\* (docs/PHASE-6.md:63): a login gives a token that is not refused from the start.
\* It may: a login in the second the revoked token was issued in gives it again.
LoginHelps ==
  [][\A r \in Request : Issue(r) => ~ Blacklisted(<<call[r].user, now>>)]_vars

(***************************************************************************)
(* Why these hold                                                          *)
(***************************************************************************)

\* A token that was logged out is in the blacklist until it expires, where Redis keeps
\* what it is given.
EntriesOutliveTokens ==
  \A t \in loggedOut : t[1] \in Unlucky \/ blacklist[t] >= t[2] + TokenLife

\* The same of a logout that is about to be answered.
RevokedBeforeAnswer ==
  \A r \in Request : pc[r] = "answer" =>
    /\ call[r].kind = "logout"
    /\ call[r].user \in Unlucky \/ blacklist[TokenOf(r)] >= call[r].since + TokenLife

\* Only a logout makes an entry.
EntriesAreLogouts ==
  \A t \in Token : blacklist[t] # 0 =>
    \/ t \in loggedOut
    \/ \E q \in Request : pc[q] = "answer" /\ TokenOf(q) = t

\* What spoke against a token at the start still does, and each stage knows more.
BarsStand ==
  \A r \in Request :
    /\ "expired" \in bars[r] => Expired(TokenOf(r))
    /\ "inactive" \in bars[r] => call[r].user \notin active
    /\ "loggedOut" \in bars[r] => TokenOf(r) \in loggedOut

StagesKnow ==
  \A r \in Request :
    /\ pc[r] = "verify" =>
         call[r].user \in Unlucky \/ "loggedOut" \notin bars[r] \/ Expired(TokenOf(r))
    /\ pc[r] = "findUser" =>
         "expired" \notin bars[r] /\ (call[r].user \in Unlucky \/ "loggedOut" \notin bars[r])
    /\ pc[r] = "new" => reply[r] = "none"
    /\ pc[r] = "compare" => call[r].kind = "login"

TokensArePast ==
  /\ \A t \in issued : t[2] <= now
  /\ \A r \in Request : call[r].since <= now

SessionsInv ==
  /\ TypeOK
  /\ EntriesOutliveTokens /\ RevokedBeforeAnswer /\ EntriesAreLogouts
  /\ BarsStand /\ StagesKnow /\ TokensArePast
  /\ StaleStayOut /\ RefusalsDeserved
  /\ LoggedOutStayOut
==============================================================================
