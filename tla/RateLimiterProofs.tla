--------------------------- MODULE RateLimiterProofs ---------------------------
(***************************************************************************)
(* Proofs about the rate limiter, for any limit, window and latency, any   *)
(* number of overlapping requests, and a Redis that fails and forgets as   *)
(* it likes.                                                               *)
(*                                                                         *)
(* LimiterInv is inductive.  Its two halves are independent arguments: a   *)
(* counter only ever grows by one from a value some request was told, and  *)
(* what has been told is never taken back; and a counter is written with a *)
(* TTL that ends less than a second after its reset time, by a command     *)
(* that takes no longer than MaxLatency.                                   *)
(***************************************************************************)
EXTENDS RateLimiter, TLAPS

\* A TTL in whole seconds covers what is left of the window and less than a second more.
LEMMA RoundingUp ==
  ASSUME NEW t \in Int
  PROVE  /\ CeilSeconds(t) \in Int
         /\ t <= CeilSeconds(t) * Second /\ CeilSeconds(t) * Second < t + Second
BY DEF CeilSeconds, Second

\* What increment does: it counts the request as one more hit of the window it has
\* read, or as the first of a new one.
LEMMA IncrementFacts ==
  ASSUME LimiterInv, NEW r \in Request, Increment(r)
  PROVE  \E c \in Counter, at \in Nat :
           /\ Return(r, c, at)
           /\ seen[r].at <= at /\ at <= now
           /\ \/ c.hits = 1 /\ c.reset = at + Window
              \/ /\ seen[r].value # Absent
                 /\ c.hits = seen[r].value.hits + 1 /\ c.reset = seen[r].value.reset
           /\ \/ counter' = counter
              \/ \E seconds \in Int :
                   /\ seconds > 0
                   /\ counter' = [hits |-> c.hits, reset |-> c.reset,
                                  expires |-> now + seconds * Second]
                   /\ seconds * Second < c.reset - at + Second
<1>. USE LimiterAssumption
<1>1. PICK at \in seen[r].at .. now : OpenWindow(r, at) \/ CountHit(r, at)
  BY DEF Increment
<1>2. at \in Nat /\ seen[r].at <= at /\ at <= now /\ now \in Nat
  BY <1>1 DEF LimiterInv, TypeOK
<1>3. CASE OpenWindow(r, at)
  <2>1. PICK c : c = [hits |-> 1, reset |-> at + Window]
    OBVIOUS
  <2>2. c \in Counter /\ c.hits = 1 /\ c.reset = at + Window
    BY <1>2, <2>1 DEF Counter
  <2>3. PICK seconds : seconds = CeilSeconds(Window)
    OBVIOUS
  <2>4. seconds \in Int /\ seconds > 0 /\ seconds * Second < c.reset - at + Second
    <3>1. /\ Window \in Int /\ Window > 0 /\ seconds \in Int
          /\ Window <= seconds * Second /\ seconds * Second < Window + Second
      BY RoundingUp, <2>3
    <3>2. c.reset - at = Window
      BY <2>2, <1>2
    <3>. QED
      BY <3>1, <3>2 DEF Second
  <2>5. Return(r, c, at) /\ SetCounter(c, seconds)
    BY <1>3, <2>1, <2>3 DEF OpenWindow
  <2>. QED
    BY <1>2, <2>2, <2>4, <2>5 DEF SetCounter
<1>4. CASE CountHit(r, at)
  <2>0. seen[r].value # Absent /\ seen[r].value \in Counter
    BY <1>4 DEF CountHit, LimiterInv, TypeOK
  <2>1. PICK c : c = [seen[r].value EXCEPT !.hits = @ + 1]
    OBVIOUS
  <2>2. c \in Counter /\ c.hits = seen[r].value.hits + 1 /\ c.reset = seen[r].value.reset
    BY <2>0, <2>1 DEF Counter
  <2>3. PICK seconds : seconds = CeilSeconds(c.reset - at)
    OBVIOUS
  <2>4. seconds \in Int /\ seconds * Second < c.reset - at + Second
    <3>1. c.reset - at \in Int
      BY <2>2, <1>2 DEF Counter
    <3>. QED
      BY <3>1, <2>3, RoundingUp
  <2>5. /\ Return(r, c, at)
        /\ IF seconds > 0 THEN SetCounter(c, seconds) ELSE counter' = counter
    BY <1>4, <2>1, <2>3 DEF CountHit
  <2>6. \/ counter' = counter
        \/ /\ seconds > 0
           /\ counter' = [hits |-> c.hits, reset |-> c.reset,
                          expires |-> now + seconds * Second]
    BY <2>5 DEF SetCounter
  <2>. QED
    BY <1>2, <2>0, <2>2, <2>4, <2>5, <2>6
<1>. QED
  BY <1>1, <1>3, <1>4

\* Counting a request keeps everything that was vouched for, and vouches for the
\* request itself.
LEMMA VouchingGrows ==
  ASSUME TypeOK, NEW r \in Request, told[r] = Absent, NEW c \in Counter, NEW at \in Nat,
         told' = [told EXCEPT ![r] = [hits |-> c.hits, reset |-> c.reset, at |-> at]]
  PROVE  /\ \A hits \in Nat, reset \in Nat : Vouched(hits, reset) => Vouched(hits, reset)'
         /\ c.hits = 1 \/ Vouched(c.hits - 1, c.reset) => Vouched(c.hits, c.reset)'
<1>1. PICK t : t = [hits |-> c.hits, reset |-> c.reset, at |-> at]
  OBVIOUS
<1>2. t \in Told /\ t # Absent /\ t.hits = c.hits /\ t.reset = c.reset
  BY <1>1, AbsentAssumption DEF Told, Counter
<1>3. told'[r] = t /\ \A s \in Request : s # r => told'[s] = told[s]
  BY <1>1 DEF TypeOK
<1>4. ASSUME NEW hits \in Nat, NEW reset \in Nat, Vouched(hits, reset)
      PROVE  Vouched(hits, reset)'
  BY <1>3, <1>4 DEF Vouched
<1>5. ASSUME c.hits = 1 \/ Vouched(c.hits - 1, c.reset) PROVE Vouched(c.hits, c.reset)'
  <2>. SUFFICES ASSUME NEW i \in 1 .. c.hits
                PROVE  \E s \in Request :
                         told'[s] # Absent /\ told'[s].hits = i /\ told'[s].reset = c.reset
    BY DEF Vouched
  <2>1. CASE i = c.hits
    BY <2>1, <1>2, <1>3
  <2>2. CASE i # c.hits
    <3>1. i \in 1 .. c.hits - 1 /\ c.hits # 1
      BY <2>2 DEF Counter
    <3>2. PICK s \in Request :
            told[s] # Absent /\ told[s].hits = i /\ told[s].reset = c.reset
      BY <3>1, <1>5 DEF Vouched
    <3>. QED
      BY <3>2, <1>3
  <2>. QED
    BY <2>1, <2>2
<1>. QED
  BY <1>4, <1>5

\* No counter, no request: nothing to vouch for, nothing to bound.
LEMMA InitLimiter == Init => LimiterInv
BY DEF Init, LimiterInv, TypeOK, CountsAreVouched, TimesAreBounded, WindowsEnd, Counted

LEMMA ReadKeeps ==
  ASSUME LimiterInv, NEW r \in Request, Read(r)
  PROVE  LimiterInv'
<1>. USE LimiterAssumption DEF LimiterInv
<1>1. PICK value : /\ value \in {Value(counter), Absent}
                   /\ seen' = [seen EXCEPT ![r] = [value |-> value, at |-> now]]
  BY DEF Read
<1>2. PICK s : s = [value |-> value, at |-> now]
  OBVIOUS
<1>3. /\ value = Absent \/
           /\ counter # Absent /\ value \in Counter
           /\ value.hits = counter.hits /\ value.reset = counter.reset
      /\ s.value = value /\ s.at = now /\ s \in [value : Counter \cup {Absent}, at : Nat]
  BY <1>1, <1>2 DEF Value, TypeOK, Counter, Stored
<1>4. /\ open' = open \cup {r} /\ told[r] = Absent
      /\ seen'[r] = s /\ \A q \in Request : q # r => seen'[q] = seen[q]
      /\ UNCHANGED <<now, counter, told>>
  BY <1>1, <1>2 DEF Read, TypeOK
<1>5. TypeOK'
  BY <1>1, <1>2, <1>3, <1>4 DEF TypeOK
<1>6. CountsAreVouched'
  BY <1>3, <1>4 DEF CountsAreVouched, Vouched, TypeOK
<1>7. TimesAreBounded'
  <2>1. now \in Nat /\ (counter # Absent => counter.expires \in Nat /\ counter.reset \in Nat)
    BY DEF TypeOK, Stored
  <2>2. value # Absent => now < value.reset + Second + MaxLatency
    BY <2>1, <1>3 DEF TimesAreBounded, Second
  <2>3. ASSUME NEW q \in open'
        PROVE  /\ seen'[q].at <= now /\ now <= seen'[q].at + MaxLatency
               /\ seen'[q].value # Absent =>
                    seen'[q].at < seen'[q].value.reset + Second + MaxLatency
    BY <1>3, <1>4, <2>1, <2>2 DEF TimesAreBounded, TypeOK
  <2>. QED
    BY <2>3, <1>4 DEF TimesAreBounded
<1>8. WindowsEnd'
  BY <1>4 DEF WindowsEnd, Counted
<1>. QED
  BY <1>5, <1>6, <1>7, <1>8

LEMMA IncrementKeeps ==
  ASSUME LimiterInv, NEW r \in Request, Increment(r)
  PROVE  LimiterInv'
<1>. USE LimiterAssumption DEF LimiterInv
<1>1. PICK c \in Counter, at \in Nat :
        /\ Return(r, c, at)
        /\ seen[r].at <= at /\ at <= now
        /\ \/ c.hits = 1 /\ c.reset = at + Window
           \/ /\ seen[r].value # Absent
              /\ c.hits = seen[r].value.hits + 1 /\ c.reset = seen[r].value.reset
        /\ \/ counter' = counter
           \/ \E seconds \in Int :
                /\ seconds > 0
                /\ counter' = [hits |-> c.hits, reset |-> c.reset,
                               expires |-> now + seconds * Second]
                /\ seconds * Second < c.reset - at + Second
  BY IncrementFacts
<1>2. PICK t : t = [hits |-> c.hits, reset |-> c.reset, at |-> at]
  OBVIOUS
<1>3. /\ t \in Told /\ t # Absent /\ t.hits = c.hits /\ t.reset = c.reset /\ t.at = at
      /\ c.hits \in Nat \ {0} /\ c.reset \in Nat
  BY <1>2, AbsentAssumption DEF Told, Counter
<1>4. /\ r \in open /\ told[r] = Absent
      /\ open' = open \ {r} /\ UNCHANGED <<now, seen>>
      /\ told' = [told EXCEPT ![r] = [hits |-> c.hits, reset |-> c.reset, at |-> at]]
      /\ told'[r] = t /\ \A q \in Request : q # r => told'[q] = told[q]
  BY <1>1, <1>2 DEF Return, Increment, TypeOK, CountsAreVouched
<1>5. counter' = counter \/
        /\ counter' \in Stored
        /\ counter'.hits = c.hits /\ counter'.reset = c.reset
        /\ now < counter'.expires /\ counter'.expires < c.reset + Second + MaxLatency
  <2>. SUFFICES ASSUME counter' # counter
                PROVE  /\ counter' \in Stored
                       /\ counter'.hits = c.hits /\ counter'.reset = c.reset
                       /\ now < counter'.expires
                       /\ counter'.expires < c.reset + Second + MaxLatency
    OBVIOUS
  <2>1. PICK seconds \in Int :
          /\ seconds > 0
          /\ counter' = [hits |-> c.hits, reset |-> c.reset,
                         expires |-> now + seconds * Second]
          /\ seconds * Second < c.reset - at + Second
    BY <1>1
  <2>2. PICK e : e = now + seconds * Second
    OBVIOUS
  <2>3. e \in Nat /\ now < e /\ e < c.reset + Second + MaxLatency
    <3>1. now \in Nat /\ seen[r].at \in Nat /\ now <= seen[r].at + MaxLatency
      BY <1>4 DEF TypeOK, TimesAreBounded
    <3>. QED
      BY <2>1, <2>2, <3>1, <1>1, <1>3 DEF Second
  <2>. QED
    BY <2>1, <2>2, <2>3, <1>3 DEF Stored
<1>6. TypeOK'
  BY <1>3, <1>4, <1>5 DEF TypeOK
<1>7. /\ \A hits \in Nat, reset \in Nat : Vouched(hits, reset) => Vouched(hits, reset)'
      /\ Vouched(c.hits, c.reset)'
  <2>1. c.hits = 1 \/ Vouched(c.hits - 1, c.reset)
    BY <1>1, <1>4, <1>3 DEF CountsAreVouched, TypeOK, Counter
  <2>. QED
    BY <2>1, <1>4, VouchingGrows
<1>8. CountsAreVouched'
  <2>1. ASSUME counter' # Absent PROVE Vouched(counter.hits, counter.reset)'
    <3>1. CASE counter' = counter
      <4>1. counter.hits \in Nat /\ counter.reset \in Nat /\ Vouched(counter.hits, counter.reset)
        BY <2>1, <3>1 DEF CountsAreVouched, TypeOK, Stored
      <4>. QED
        BY <3>1, <4>1, <1>7 DEF Vouched
    <3>2. CASE counter' # counter
      BY <3>2, <1>5, <1>7 DEF Vouched
    <3>. QED
      BY <3>1, <3>2
  <2>2. ASSUME NEW q \in open, q # r, seen[q].value # Absent
        PROVE  Vouched(seen[q].value.hits, seen[q].value.reset)'
    <3>1. /\ seen'[q] = seen[q]
          /\ seen[q].value.hits \in Nat /\ seen[q].value.reset \in Nat
          /\ Vouched(seen[q].value.hits, seen[q].value.reset)
      BY <2>2, <1>4 DEF CountsAreVouched, TypeOK, Counter
    <3>. QED
      BY <3>1, <1>7 DEF Vouched
  <2>3. ASSUME NEW q \in Request, told'[q] # Absent
        PROVE  Vouched(told[q].hits, told[q].reset)'
    <3>1. CASE q = r
      BY <3>1, <1>3, <1>4, <1>7 DEF Vouched
    <3>2. CASE q # r
      <4>1. /\ told'[q] = told[q] /\ told[q].hits \in Nat /\ told[q].reset \in Nat
            /\ Vouched(told[q].hits, told[q].reset)
        BY <2>3, <3>2, <1>4 DEF CountsAreVouched, TypeOK, Told
      <4>. QED
        BY <4>1, <1>7 DEF Vouched
    <3>. QED
      BY <3>1, <3>2
  <2>4. \A q \in open' : q \in open /\ q # r /\ seen' = seen /\ told'[q] = Absent
    BY <1>4 DEF CountsAreVouched, TypeOK
  <2>. QED
    BY <2>1, <2>2, <2>3, <2>4 DEF CountsAreVouched
<1>9. TimesAreBounded'
  BY <1>4, <1>5 DEF TimesAreBounded
<1>10. WindowsEnd'
  <2>1. at < c.reset + Second + 2 * MaxLatency
    <3>1. /\ now \in Nat /\ seen[r].at \in Nat /\ now <= seen[r].at + MaxLatency
          /\ seen[r].value # Absent =>
               /\ seen[r].value \in Counter
               /\ seen[r].at < seen[r].value.reset + Second + MaxLatency
      BY <1>4 DEF TypeOK, TimesAreBounded
    <3>. QED
      BY <3>1, <1>1, <1>3 DEF Second
  <2>. QED
    BY <2>1, <1>3, <1>4 DEF WindowsEnd, Counted
<1>. QED
  BY <1>6, <1>8, <1>9, <1>10

LEMMA TickKeeps == LimiterInv /\ Tick => LimiterInv'
<1>. SUFFICES ASSUME LimiterInv, Tick PROVE LimiterInv'
  OBVIOUS
<1>. USE LimiterAssumption DEF LimiterInv
<1>1. /\ now' = now + 1 /\ now \in Nat
      /\ UNCHANGED <<open, seen, told>>
      /\ \A r \in open : now - seen[r].at < MaxLatency
      /\ counter' # Absent => counter' = counter /\ counter # Absent /\ now + 1 < counter.expires
  <2>1. counter # Absent => counter.expires \in Nat
    BY DEF TypeOK, Stored
  <2>. QED
    BY <2>1 DEF Tick, TypeOK
<1>2. TypeOK'
  BY <1>1 DEF TypeOK
<1>3. CountsAreVouched'
  BY <1>1 DEF CountsAreVouched, Vouched
<1>4. TimesAreBounded'
  BY <1>1 DEF TimesAreBounded, TypeOK, Stored
<1>5. WindowsEnd'
  BY <1>1 DEF WindowsEnd, Counted
<1>. QED
  BY <1>2, <1>3, <1>4, <1>5

\* Every step keeps the invariant.
LEMMA NextLimiter == LimiterInv /\ [Next]_vars => LimiterInv'
<1>. SUFFICES ASSUME LimiterInv, [Next]_vars PROVE LimiterInv'
  OBVIOUS
<1>1. CASE Evict
  BY <1>1 DEF Evict, LimiterInv, TypeOK, CountsAreVouched, Vouched, TimesAreBounded,
              WindowsEnd, Counted
<1>2. CASE UNCHANGED vars
  BY <1>2 DEF vars, LimiterInv, TypeOK, CountsAreVouched, Vouched, TimesAreBounded,
              WindowsEnd, Counted
<1>. QED
  BY <1>1, <1>2, ReadKeeps, IncrementKeeps, TickKeeps DEF Next

\* Whatever interleaves and whatever Redis does, counts are vouched for and times
\* are bounded.
THEOREM LimiterInvariant == Spec => []LimiterInv
BY InitLimiter, NextLimiter, PTL DEF Spec

LEMMA VouchedRefusals == LimiterInv => RefusalsDeserved
<1>. SUFFICES ASSUME LimiterInv, NEW r \in Refused, NEW i \in 1 .. Max
              PROVE  \E s \in Admitted : told[s].hits = i /\ told[s].reset = told[r].reset
  BY DEF RefusalsDeserved
<1>1. r \in Request /\ told[r] # Absent /\ i \in 1 .. told[r].hits
  BY LimiterAssumption DEF Refused, Counted, LimiterInv, TypeOK, Told
<1>2. PICK s \in Request :
        told[s] # Absent /\ told[s].hits = i /\ told[s].reset = told[r].reset
  BY <1>1 DEF LimiterInv, CountsAreVouched, Vouched
<1>. QED
  BY <1>2, LimiterAssumption DEF Admitted, Refused, Counted

\* Nobody is refused before the limit is used up, under any interleaving and failure.
THEOREM NoUndeservedRefusal == Spec => []RefusalsDeserved
BY LimiterInvariant, VouchedRefusals, PTL

\* Nobody is held to a window longer than its reset time, rounding and latency allow.
THEOREM NoWindowOutlivesItsReset == Spec => []WindowsEnd
<1>1. LimiterInv => WindowsEnd
  BY DEF LimiterInv
<1>. QED
  BY <1>1, LimiterInvariant, PTL
==============================================================================
