------------------------------ MODULE Idempotency ------------------------------
(***************************************************************************)
(* POST /transactions/send from idempotencyCheck                           *)
(* (src/middleware/idempotency.js) to the answer the client hears, on top  *)
(* of Transfers.  The middleware looks the key up in Redis, replays what   *)
(* it finds, and otherwise stores the response of a success before it is   *)
(* sent.                                                                   *)
(*                                                                         *)
(* Redis and the database are two stores with a gap between them: a        *)
(* payment is committed before its response is stored, and Redis may       *)
(* refuse a command (src/config/redis.js turns the error into null), drop  *)
(* the entry when its 24 hours are over or evict it.  Clients repeat a     *)
(* request whenever they like, also while the first one is under way, and  *)
(* may lose any answer.                                                    *)
(***************************************************************************)
EXTENDS Transfers

CONSTANT UnusableKey   \* keys the middleware refuses: absent, over 255 characters

ASSUME EndpointAssumption == UnusableKey \subseteq Key

VARIABLES
  stage,    \* how far each request has come through the middleware
  stored,   \* Redis: the request whose response is stored under a key
  reply     \* what the client has heard, and of which request's transaction

endpointVars == <<stage, stored, reply>>

\* "none" and "lost" replies speak of no transaction, like errors.
Reply == [status : Status, tx : Request \cup {NoRequest}]

\* idempotency:<user>:<key>
RedisKey == (Account \cup {NoAccount}) \X Key

\* Mutant of RedisKeyOf: the entry is not namespaced by user.
RedisKeyShared(r) == <<NoAccount, call[r].key>>

RedisKeyOf(r) == <<call[r].user, call[r].key>>

EndpointTypeOK ==
  /\ stage \in [Request -> {"lookUp", "service", "stored", "replied"}]
  /\ stored \in [RedisKey -> Request \cup {NoRequest}]
  /\ reply \in [Request -> Reply]

\* A top-up has no idempotency middleware.
EndpointInit ==
  /\ Init
  /\ stage = [r \in Request |-> IF Sends(r) THEN "lookUp" ELSE "service"]
  /\ stored = [k \in RedisKey |-> NoRequest]
  /\ reply = [r \in Request |-> [status |-> "none", tx |-> NoRequest]]

\* The answer is sent; the client hears it or the connection is gone.
SendReply(r, code, tx) ==
  /\ stage' = [stage EXCEPT ![r] = "replied"]
  /\ \/ reply' = [reply EXCEPT ![r] = [status |-> code, tx |-> tx]]
     \/ reply' = [reply EXCEPT ![r] = [status |-> "lost", tx |-> NoRequest]]

RefuseKey(r) ==
  /\ stage[r] = "lookUp" /\ call[r].key \in UnusableKey
  /\ SendReply(r, "400", NoRequest)
  /\ UNCHANGED <<vars, stored>>

\* redis.get finds an entry: its status code, always 201, and its body are sent.
Replay(r) ==
  /\ stage[r] = "lookUp" /\ call[r].key \notin UnusableKey
  /\ stored[RedisKeyOf(r)] # NoRequest
  /\ SendReply(r, "201", stored[RedisKeyOf(r)])
  /\ UNCHANGED <<vars, stored>>

PassOn(r) ==
  /\ stage' = [stage EXCEPT ![r] = "service"]
  /\ UNCHANGED <<vars, stored, reply>>

FirstTime(r) ==
  /\ stage[r] = "lookUp" /\ call[r].key \notin UnusableKey
  /\ stored[RedisKeyOf(r)] = NoRequest
  /\ PassOn(r)

\* Redis answers with an error, which looks like a key never seen.
LookUpFails(r) ==
  /\ stage[r] = "lookUp" /\ call[r].key \notin UnusableKey
  /\ PassOn(r)

\* Mutant of Store: the response is stored when it is ready, before the commit.
StoreBeforeCommit(r) ==
  /\ stage[r] = "service" /\ Sends(r) /\ pc[r] = "commit"
  /\ stage' = [stage EXCEPT ![r] = "stored"]
  /\ stored' = [stored EXCEPT ![RedisKeyOf(r)] = r]
  /\ UNCHANGED <<vars, reply>>

\* The controller calls res.json, intercepted: the response is stored first.
Store(r) ==
  /\ stage[r] = "service" /\ Sends(r) /\ pc[r] = "respond"
  /\ stage' = [stage EXCEPT ![r] = "stored"]
  /\ stored' = [stored EXCEPT ![RedisKeyOf(r)] = r]
  /\ UNCHANGED <<vars, reply>>

\* Redis does not take it; the error is logged and the response sent all the same.
StoreFails(r) ==
  /\ stage[r] = "service" /\ Sends(r) /\ pc[r] = "respond"
  /\ stage' = [stage EXCEPT ![r] = "stored"]
  /\ UNCHANGED <<vars, stored, reply>>

\* A step of the service, or of what befalls it; the response of a transfer waits
\* for redis.set.
ServiceStep(r) ==
  /\ stage[r] \in {"service", "stored"}
  /\ Sends(r) /\ pc[r] = "respond" => stage[r] = "stored"
  /\ Step(r) \/ DeadlockVictim(r) \/ TransactionTimesOut(r) \/ CommitUnheard(r)
  /\ UNCHANGED endpointVars

ServerDies(R) == Crash(R) /\ UNCHANGED endpointVars

\* What the service answered travels to the client.
Deliver(r) ==
  /\ stage[r] \in {"service", "stored"} /\ status[r] # "none"
  /\ SendReply(r, status[r], IF status[r] \in {"200", "201"} THEN r ELSE NoRequest)
  /\ UNCHANGED <<vars, stored>>

\* The entry's time is over, or Redis needs the room.
Forget(k) ==
  /\ stored[k] # NoRequest
  /\ stored' = [stored EXCEPT ![k] = NoRequest]
  /\ UNCHANGED <<vars, stage, reply>>

EndpointNext ==
  \/ \E r \in Request :
       \/ RefuseKey(r) \/ Replay(r) \/ FirstTime(r) \/ LookUpFails(r)
       \/ ServiceStep(r) \/ Store(r) \/ StoreFails(r) \/ Deliver(r)
  \/ \E R \in (SUBSET Request) \ {{}} : ServerDies(R)
  \/ \E k \in RedisKey : Forget(k)

EndpointSpec == EndpointInit /\ [][EndpointNext]_<<vars, endpointVars>>

(***************************************************************************)
(* Properties                                                              *)
(***************************************************************************)

SameOrder(r, s) == call[r].user = call[s].user /\ call[r].key = call[s].key

\* However often, however early a payment is asked for again, and whatever Redis
\* forgets, one key of one user pays once.
KeyPaysOnce == \A r, s \in Paid : SameOrder(r, s) => r = s

\* A success the client hears, fresh or replayed, is of a payment that has happened
\* and that the same user asked for under the same key.
RepliesAreTrue ==
  \A r \in Request :
    reply[r].status \in {"200", "201"} =>
      reply[r].tx \in Paid /\ SameOrder(reply[r].tx, r)

\* All successes heard for one key are of one transaction, the original one.
RepliesAgree ==
  \A r, s \in Request :
    SameOrder(r, s) /\ reply[r].status = "201" /\ reply[s].status = "201" =>
      reply[r].tx = reply[s].tx

\* A conflict is only answered to a key that has paid: never because another
\* request with the key was under way, which may yet fail.
ConflictMeansPaid ==
  \A r \in Request : reply[r].status = "409" => KeyCommitted(call[r].key)

\* docs/PHASE-6.md:112, "the second request returns the original response": a
\* request that is answered at all is answered like the one that paid its key.
RetryGetsOriginal ==
  \A r, s \in Request :
    call[r] = call[s] /\ reply[r].status = "201"
      => reply[s].status \in {"none", "lost"} \/ reply[s] = reply[r]

\* docs/PHASE-6.md:121, "Keys are scoped per user": no user's key gets in the way of
\* another user's.
KeysScopedPerUser ==
  \A r \in Request :
    reply[r].status = "409" => \E s \in Paid : SameOrder(r, s)

\* Why replies are true: what Redis holds is the response of a payment of its key,
\* and a 409 on its way to the client is about a committed key.
StoredResponsesTrue ==
  \A k \in RedisKey :
    stored[k] # NoRequest => stored[k] \in Paid /\ RedisKeyOf(stored[k]) = k

ConflictsTrue == \A r \in Request : status[r] = "409" => KeyCommitted(call[r].key)

\* The inductive invariant behind the four properties, given Transfers' own.
ReplayInv ==
  /\ EndpointTypeOK
  /\ StoredResponsesTrue /\ ConflictsTrue
  /\ RepliesAreTrue /\ ConflictMeansPaid
==============================================================================
