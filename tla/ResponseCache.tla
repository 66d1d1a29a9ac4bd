----------------------------- MODULE ResponseCache -----------------------------
(***************************************************************************)
(* The response cache (src/middleware/cache.js) in front of                *)
(* GET /accounts/me and GET /transactions/history, and the payments that   *)
(* make its copies old: a transfer leaves them, a top-up deletes two of    *)
(* them (src/services/account.service.js).                                 *)
(*                                                                         *)
(* What a user's account and history say is abstracted to the number of    *)
(* payments they include.  A request that misses looks up, queries and     *)
(* stores in three steps, with payments and other requests between them.   *)
(* Time is counted in ticks, relative to the moment: a copy has so long to *)
(* live, and what is in it has been out of date for so long.               *)
(***************************************************************************)
EXTENDS Integers, Sequences

CONSTANTS
  User,
  Resource,     \* the cached URLs of a user
  TTL,          \* ttlSeconds of each resource's route
  BustedByTopUp,\* the resources topUp deletes, in its order
  Fetch,        \* requests under way at once
  Nothing,
  MaxLatency,   \* the longest a request is under way
  Faults,       \* whether Redis fails or evicts, and servers die
  MaxPayments,  \* bound: payments of one user
  StaleCap      \* bound: staleness is counted up to here

ASSUME CacheAssumption ==
  /\ TTL \in [Resource -> Nat \ {0}]
  /\ BustedByTopUp \in Seq(Resource)
  /\ MaxLatency \in Nat /\ Faults \in BOOLEAN /\ MaxPayments \in Nat

ASSUME StaleCapAssumption ==
  StaleCap \in Nat /\ \A resource \in Resource : TTL[resource] + 2 * MaxLatency <= StaleCap

VARIABLES
  payments,  \* database: committed payments of each user
  copies,    \* Redis: the cached responses
  fetch,     \* GET requests under way
  topUp      \* each user's top-up: which copy it deletes next, and its payment

vars == <<payments, copies, fetch, topUp>>

Key == User \X Resource

\* cache:<originalUrl>:<user>
KeyOf(u, resource) == <<u, resource>>

\* A response: whose it is, the payments in it, and for how long it is out of date.
Body == [of : User, payments : Nat, stale : Nat]

Copy == [body : Body, left : Nat \ {0}]

Get == [stage : {"lookUp", "query", "store", "answered"}, user : User,
        resource : Resource, body : Body, waited : Nat]

ASSUME NothingAssumption == Nothing \notin Get \cup Copy

Responding == Len(BustedByTopUp) + 1

NoTopUp == [step |-> 0, payment |-> 0]

TypeOK ==
  /\ payments \in [User -> Nat]
  /\ copies \in [Key -> Copy \cup {Nothing}]
  /\ fetch \in [Fetch -> Get \cup {Nothing}]
  /\ topUp \in [User -> [step : 0 .. Responding, payment : Nat]]

Init ==
  /\ payments = [u \in User |-> 0]
  /\ copies = [k \in Key |-> Nothing]
  /\ fetch = [f \in Fetch |-> Nothing]
  /\ topUp = [u \in User |-> NoTopUp]

(***************************************************************************)
(* GET requests                                                            *)
(***************************************************************************)

Ask(f, u, resource) ==
  /\ fetch[f] = Nothing
  /\ fetch' = [fetch EXCEPT ![f] =
       [stage |-> "lookUp", user |-> u, resource |-> resource, waited |-> 0,
        body |-> [of |-> u, payments |-> 0, stale |-> 0]]]
  /\ UNCHANGED <<payments, copies, topUp>>

Is(f, stage) == fetch[f] # Nothing /\ fetch[f].stage = stage

CopyFor(f) == KeyOf(fetch[f].user, fetch[f].resource)

\* Mutant of Hit: the copy's time begins anew with every hit.
HitRenews(f) ==
  /\ Is(f, "lookUp") /\ copies[CopyFor(f)] # Nothing
  /\ fetch' = [fetch EXCEPT ![f].stage = "answered", ![f].body = copies[CopyFor(f)].body]
  /\ copies' = [copies EXCEPT ![CopyFor(f)].left = TTL[fetch[f].resource]]
  /\ UNCHANGED <<payments, topUp>>

Hit(f) ==
  /\ Is(f, "lookUp") /\ copies[CopyFor(f)] # Nothing
  /\ fetch' = [fetch EXCEPT ![f].stage = "answered", ![f].body = copies[CopyFor(f)].body]
  /\ UNCHANGED <<payments, copies, topUp>>

\* Nothing is found; an error of redis.get looks the same.
Miss(f) ==
  /\ Is(f, "lookUp") /\ (copies[CopyFor(f)] = Nothing \/ Faults)
  /\ fetch' = [fetch EXCEPT ![f].stage = "query"]
  /\ UNCHANGED <<payments, copies, topUp>>

\* The handler reads the database.
Query(f) ==
  /\ Is(f, "query")
  /\ LET u == fetch[f].user IN
     fetch' = [fetch EXCEPT ![f].stage = "store",
                            ![f].body = [of |-> u, payments |-> payments[u], stale |-> 0]]
  /\ UNCHANGED <<payments, copies, topUp>>

\* res.json, intercepted: the response is stored, then sent.
StoreCopy(f) ==
  /\ Is(f, "store")
  /\ fetch' = [fetch EXCEPT ![f].stage = "answered"]
  /\ \/ copies' = [copies EXCEPT ![CopyFor(f)] =
                     [body |-> fetch[f].body, left |-> TTL[fetch[f].resource]]]
     \/ Faults /\ copies' = copies
  /\ UNCHANGED <<payments, topUp>>

\* The client hears the answer, or is gone.
Hear(f) ==
  /\ Is(f, "answered")
  /\ fetch' = [fetch EXCEPT ![f] = Nothing]
  /\ UNCHANGED <<payments, copies, topUp>>

(***************************************************************************)
(* Payments                                                                *)
(***************************************************************************)

Paid(u) ==
  /\ payments[u] < MaxPayments
  /\ payments' = [payments EXCEPT ![u] = @ + 1]

\* A transfer to or from the user commits.  No copy is deleted.
TransferCommits(u) == Paid(u) /\ UNCHANGED <<copies, fetch, topUp>>

TopUpCommits(u) ==
  /\ topUp[u].step = 0
  /\ Paid(u)
  /\ topUp' = [topUp EXCEPT ![u] = [step |-> 1, payment |-> payments[u] + 1]]
  /\ UNCHANGED <<copies, fetch>>

\* redis.del of the next copy; an error is swallowed.
Bust(u) ==
  /\ topUp[u].step \in 1 .. Len(BustedByTopUp)
  /\ topUp' = [topUp EXCEPT ![u].step = @ + 1]
  /\ \/ copies' = [copies EXCEPT ![KeyOf(u, BustedByTopUp[topUp[u].step])] = Nothing]
     \/ Faults /\ copies' = copies
  /\ UNCHANGED <<payments, fetch>>

TopUpAnswers(u) ==
  /\ topUp[u].step = Responding
  /\ topUp' = [topUp EXCEPT ![u] = NoTopUp]
  /\ UNCHANGED <<payments, copies, fetch>>

(***************************************************************************)
(* Time and faults                                                         *)
(***************************************************************************)

Aged(body) ==
  IF body.payments < payments[body.of] /\ body.stale < StaleCap
  THEN [body EXCEPT !.stale = @ + 1]
  ELSE body

AgedGet(get) ==
  IF get.stage \in {"lookUp", "query"} THEN [get EXCEPT !.waited = @ + 1]
  ELSE [get EXCEPT !.waited = @ + 1, !.body = Aged(@)]

Tick ==
  /\ \A f \in Fetch : fetch[f] # Nothing => fetch[f].waited < MaxLatency
  /\ fetch' = [f \in Fetch |->
       IF fetch[f] = Nothing THEN Nothing ELSE AgedGet(fetch[f])]
  /\ copies' = [k \in Key |->
       IF copies[k] = Nothing \/ copies[k].left = 1 THEN Nothing
       ELSE [copies[k] EXCEPT !.body = Aged(@), !.left = @ - 1]]
  /\ UNCHANGED <<payments, topUp>>

Evict(k) ==
  /\ Faults /\ copies[k] # Nothing
  /\ copies' = [copies EXCEPT ![k] = Nothing]
  /\ UNCHANGED <<payments, fetch, topUp>>

\* A server dies with the requests it is serving.
Crash(F, U) ==
  /\ Faults
  /\ fetch' = [f \in Fetch |-> IF f \in F THEN Nothing ELSE fetch[f]]
  /\ topUp' = [u \in User |-> IF u \in U THEN NoTopUp ELSE topUp[u]]
  /\ UNCHANGED <<payments, copies>>

GetStep(f) == Hit(f) \/ Miss(f) \/ Query(f) \/ StoreCopy(f)

Next ==
  \/ \E f \in Fetch :
       \/ \E u \in User, resource \in Resource : Ask(f, u, resource)
       \/ GetStep(f) \/ Hear(f)
  \/ \E u \in User : TransferCommits(u) \/ TopUpCommits(u) \/ Bust(u) \/ TopUpAnswers(u)
  \/ Tick
  \/ \E k \in Key : Evict(k)
  \/ \E F \in SUBSET Fetch, U \in SUBSET User : Crash(F, U)

Spec == Init /\ [][Next]_vars

(***************************************************************************)
(* Properties                                                              *)
(***************************************************************************)

\* No answer leaves out a payment that was committed longer ago than the lifetime of
\* a copy and two requests: the one that filled the cache and the one that hit it.
StalenessBounded ==
  \A f \in Fetch :
    Is(f, "answered") => fetch[f].body.stale < TTL[fetch[f].resource] + 2 * MaxLatency

\* "user A never sees user B's cached data" (src/middleware/cache.js:11).
OwnAnswersOnly == \A f \in Fetch : Is(f, "answered") => fetch[f].body.of = fetch[f].user

\* src/services/account.service.js:132, "Bust cache so balance updates immediately":
\* when a top-up answers, none of the copies it deletes is there without it.
TopUpShows ==
  \A u \in User : \A i \in DOMAIN BustedByTopUp :
    LET copy == copies[KeyOf(u, BustedByTopUp[i])] IN
    topUp[u].step = Responding /\ copy # Nothing => copy.body.payments >= topUp[u].payment

(***************************************************************************)
(* Why staleness is bounded                                                *)
(***************************************************************************)

\* A fresh answer is no older than its request, a copy no older than the request
\* that stored it and the time it has lived since.
AgesBounded ==
  /\ \A f \in Fetch : fetch[f] # Nothing => fetch[f].waited <= MaxLatency
  /\ \A f \in Fetch :
       fetch[f] # Nothing /\ fetch[f].stage # "answered" =>
         fetch[f].body.stale <= fetch[f].waited
  /\ \A f \in Fetch :
       Is(f, "answered") =>
         fetch[f].body.stale < TTL[fetch[f].resource] + MaxLatency + fetch[f].waited
  /\ \A k \in Key :
       copies[k] # Nothing => copies[k].body.stale + copies[k].left <= TTL[k[2]] + MaxLatency

BodiesOwn ==
  /\ \A f \in Fetch : fetch[f] # Nothing => fetch[f].body.of = fetch[f].user
  /\ \A k \in Key : copies[k] # Nothing => copies[k].body.of = k[1]

CacheInv == TypeOK /\ AgesBounded /\ BodiesOwn
==============================================================================
