------------------------------ MODULE RateLimiter ------------------------------
(***************************************************************************)
(* One counter of RedisRateLimitStore (src/middleware/rateLimiter.js): the *)
(* requests of one client under one limiter.  increment reads the counter  *)
(* and writes it back, two commands to Redis with other requests' commands *)
(* between them, on one server or on several.                              *)
(*                                                                         *)
(* Time is counted in half seconds: Date.now() is finer than the seconds   *)
(* of a Redis TTL, and Math.ceil between the two matters.  The wrapper of  *)
(* src/config/redis.js turns every error into null, so that a failed get   *)
(* looks like an absent counter and a failed set like a successful one.    *)
(***************************************************************************)
EXTENDS Integers, FiniteSets

CONSTANTS
  Request,
  Absent,      \* what redis.get answers when there is no counter
  Max,         \* options.max
  Window,      \* options.windowMs, in half seconds
  MaxLatency,  \* the longest a command to Redis and the code around it take
  MaxOpen,     \* how many requests the client has under way at once
  RedisFails,  \* whether Redis may fail or evict
  Horizon      \* bound: the last moment of the model

ASSUME LimiterAssumption ==
  /\ Max \in Nat /\ Window \in Nat \ {0} /\ MaxLatency \in Nat
  /\ RedisFails \in BOOLEAN /\ Horizon \in Nat

VARIABLES
  now,
  counter,  \* Redis: the counter under the client's key
  open,     \* requests that have read the counter and not yet written it
  seen,     \* what an open request has read, and when
  told      \* what increment returned for a request, with the time it was counted at

vars == <<now, counter, open, seen, told>>

Counter == [hits : Nat \ {0}, reset : Nat]
Stored == [hits : Nat \ {0}, reset : Nat, expires : Nat]
Told == [hits : Nat \ {0}, reset : Nat, at : Nat]

ASSUME AbsentAssumption == Absent \notin Told

Second == 2

CeilSeconds(t) == (t + Second - 1) \div Second

TypeOK ==
  /\ now \in Nat
  /\ counter \in Stored \cup {Absent}
  /\ open \subseteq Request
  /\ seen \in [Request -> [value : Counter \cup {Absent}, at : Nat]]
  /\ told \in [Request -> Told \cup {Absent}]

Init ==
  /\ now = 0
  /\ counter = Absent
  /\ open = {}
  /\ seen = [r \in Request |-> [value |-> Absent, at |-> 0]]
  /\ told = [r \in Request |-> Absent]

Value(c) == IF c = Absent THEN Absent ELSE [hits |-> c.hits, reset |-> c.reset]

\* redis.get, whose error is null to the caller.
Read(r) ==
  /\ r \notin open /\ told[r] = Absent
  /\ Cardinality(open) < MaxOpen
  /\ open' = open \cup {r}
  /\ \E value \in {Value(counter)} \cup (IF RedisFails THEN {Absent} ELSE {}) :
       seen' = [seen EXCEPT ![r] = [value |-> value, at |-> now]]
  /\ UNCHANGED <<now, counter, told>>

\* redis.set with ex, in seconds; an error is swallowed.
SetCounter(c, seconds) ==
  \/ counter' = [hits |-> c.hits, reset |-> c.reset, expires |-> now + seconds * Second]
  \/ RedisFails /\ counter' = counter

Return(r, c, at) ==
  /\ open' = open \ {r}
  /\ told' = [told EXCEPT ![r] = [hits |-> c.hits, reset |-> c.reset, at |-> at]]
  /\ UNCHANGED <<now, seen>>

\* No counter was found: a new window opens.
OpenWindow(r, at) ==
  LET c == [hits |-> 1, reset |-> at + Window] IN
  /\ seen[r].value = Absent
  /\ SetCounter(c, CeilSeconds(Window))
  /\ Return(r, c, at)

\* Mutant of CountHit: two limiters share a prefix and each counts the request.
CountHitTwice(r, at) ==
  LET c == [seen[r].value EXCEPT !.hits = @ + 2]
      ttl == CeilSeconds(c.reset - at)
  IN
  /\ seen[r].value # Absent
  /\ IF ttl > 0 THEN SetCounter(c, ttl) ELSE counter' = counter
  /\ Return(r, c, at)

\* Mutant of CountHit: every hit lets the counter live for a whole window again.
CountHitRenewed(r, at) ==
  LET c == [seen[r].value EXCEPT !.hits = @ + 1] IN
  /\ seen[r].value # Absent
  /\ SetCounter(c, CeilSeconds(Window))
  /\ Return(r, c, at)

\* A counter was found: it is written back plus one for what is left of its
\* window, and not at all when nothing is left.
CountHit(r, at) ==
  LET c == [seen[r].value EXCEPT !.hits = @ + 1]
      ttl == CeilSeconds(c.reset - at)
  IN
  /\ seen[r].value # Absent
  /\ IF ttl > 0 THEN SetCounter(c, ttl) ELSE counter' = counter
  /\ Return(r, c, at)

\* increment goes on with the answer of redis.get; Date.now() is called some time
\* after Redis has read and before it writes.
Increment(r) ==
  /\ r \in open
  /\ \E at \in seen[r].at .. now : OpenWindow(r, at) \/ CountHit(r, at)

\* Time goes on, never past a command that must be over by now, and Redis drops the
\* counter when its TTL is over.
Tick ==
  /\ now < Horizon
  /\ \A r \in open : now - seen[r].at < MaxLatency
  /\ now' = now + 1
  /\ counter' = IF counter # Absent /\ counter.expires <= now' THEN Absent ELSE counter
  /\ UNCHANGED <<open, seen, told>>

Evict ==
  /\ RedisFails /\ counter # Absent
  /\ counter' = Absent
  /\ UNCHANGED <<now, open, seen, told>>

Next ==
  \/ \E r \in Request : Read(r) \/ Increment(r)
  \/ Tick \/ Evict

Spec == Init /\ [][Next]_vars

(***************************************************************************)
(* Properties                                                              *)
(***************************************************************************)

\* express-rate-limit admits totalHits up to the limit and calls handler beyond.
Counted == {r \in Request : told[r] # Absent}
Refused == {r \in Counted : told[r].hits > Max}
Admitted == Counted \ Refused

\* Nobody is refused before the limit is used up: whatever Redis loses and however
\* requests overlap, Max other requests of the same window were admitted.
RefusalsDeserved ==
  \A r \in Refused : \A i \in 1 .. Max :
    \E s \in Admitted : told[s].hits = i /\ told[s].reset = told[r].reset

\* A window does not outlive its reset time by more than the rounding of its TTL and
\* the latency of Redis, so nobody is refused for longer.
WindowsEnd ==
  \A r \in Counted : told[r].at < told[r].reset + Second + 2 * MaxLatency

\* README.md:126, "All counters are stored in Redis so they remain accurate across
\* multiple server instances": no two requests are the same hit of a window.
CountersAccurate ==
  \A r, s \in Counted :
    /\ told[r].hits = told[s].hits /\ told[r].reset = told[s].reset
    /\ told[r].at < told[r].reset /\ told[s].at < told[s].reset
    => r = s

\* src/middleware/rateLimiter.js:106, "100 requests per 15 minutes": a window
\* admits no more than the limit.
LimitHolds ==
  \A r \in Counted : Cardinality({s \in Admitted : told[s].reset = told[r].reset}) <= Max

(***************************************************************************)
(* Why refusals are deserved and windows end                               *)
(***************************************************************************)

\* Every hit of a window before this one was some request's.
Vouched(hits, reset) ==
  \A i \in 1 .. hits :
    \E s \in Request :
      told[s] # Absent /\ told[s].hits = i /\ told[s].reset = reset

CountsAreVouched ==
  /\ \A r \in open : told[r] = Absent
  /\ counter # Absent => Vouched(counter.hits, counter.reset)
  /\ \A r \in open : seen[r].value # Absent => Vouched(seen[r].value.hits, seen[r].value.reset)
  /\ \A r \in Request : told[r] # Absent => Vouched(told[r].hits, told[r].reset)

\* Nothing outlives its window by more than rounding and latency.
TimesAreBounded ==
  /\ counter # Absent => now < counter.expires
  /\ counter # Absent => counter.expires < counter.reset + Second + MaxLatency
  /\ \A r \in open : seen[r].at <= now /\ now <= seen[r].at + MaxLatency
  /\ \A r \in open : seen[r].value # Absent =>
       seen[r].at < seen[r].value.reset + Second + MaxLatency

LimiterInv ==
  /\ TypeOK /\ CountsAreVouched /\ TimesAreBounded
  /\ WindowsEnd
==============================================================================
