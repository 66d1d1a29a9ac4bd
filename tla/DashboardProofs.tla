--------------------------- MODULE DashboardProofs ----------------------------
(***************************************************************************)
(* Proofs about what the dashboard shows: the response cache, the page on  *)
(* top of it, and the form that sends money.                               *)
(*                                                                         *)
(* Cache, for any users, resources, lifetimes and latency, any number of   *)
(* requests under way, and a Redis that fails: CacheInv is inductive.      *)
(* What a request has read is out of date for no longer than the request   *)
(* is under way, a copy's age and the time it has left add up to no more   *)
(* than its lifetime and one request, and a tick moves all of them         *)
(* together.                                                               *)
(*                                                                         *)
(* Dashboard: every step of the page is one of the cache or leaves the     *)
(* cache alone, so all that holds of the cache holds below the page.       *)
(* DashboardInv adds that the answers the page awaits are under way, which *)
(* is why the list's spinner always has a reason.                          *)
(*                                                                         *)
(* Send form, for any number of forms and calls: FormInv is inductive.     *)
(***************************************************************************)
EXTENDS Dashboard, SendForm, TLAPS

(***************************************************************************)
(* The response cache                                                      *)
(***************************************************************************)

\* The invariant of one request.
GetOK(g) ==
  /\ g \in Get
  /\ g.waited <= MaxLatency
  /\ g.stage # "answered" => g.body.stale <= g.waited
  /\ g.stage = "answered" => g.body.stale < TTL[g.resource] + MaxLatency + g.waited
  /\ g.body.of = g.user

\* The invariant of one copy.
CopyOK(k, c) ==
  /\ c \in Copy
  /\ c.body.stale + c.left <= TTL[k[2]] + MaxLatency
  /\ c.body.of = k[1]

\* CacheInv, request by request and copy by copy.
LEMMA Pointwise ==
  ASSUME CacheInv
  PROVE  /\ \A f \in Fetch : fetch[f] = Nothing \/ GetOK(fetch[f])
         /\ \A k \in Key : copies[k] = Nothing \/ CopyOK(k, copies[k])
BY DEF CacheInv, TypeOK, AgesBounded, BodiesOwn, GetOK, CopyOK, Is

\* And back, for the state after a step.
LEMMA FromPointwise ==
  ASSUME (payments \in [User -> Nat])',
         (topUp \in [User -> [step : 0 .. Responding, payment : Nat]])',
         fetch' = [f \in Fetch |-> fetch'[f]], copies' = [k \in Key |-> copies'[k]],
         \A f \in Fetch : fetch'[f] = Nothing \/ GetOK(fetch'[f]),
         \A k \in Key : copies'[k] = Nothing \/ CopyOK(k, copies'[k])
  PROVE  CacheInv'
<1>1. \A f \in Fetch : fetch'[f] \in Get \cup {Nothing}
  BY DEF GetOK
<1>2. \A k \in Key : copies'[k] \in Copy \cup {Nothing}
  BY DEF CopyOK
<1>3. TypeOK'
  BY <1>1, <1>2 DEF TypeOK
<1>4. AgesBounded' /\ BodiesOwn'
  BY DEF AgesBounded, BodiesOwn, GetOK, CopyOK, Is
<1>. QED
  BY <1>3, <1>4 DEF CacheInv

\* A step that moves one request and perhaps writes one copy.
LEMMA OneGet ==
  ASSUME CacheInv, NEW f \in Fetch, NEW g, g = Nothing \/ GetOK(g),
         fetch' = [fetch EXCEPT ![f] = g], UNCHANGED <<payments, topUp>>,
         copies' = copies \/
           \E k \in Key : \E c : CopyOK(k, c) /\ copies' = [copies EXCEPT ![k] = c]
  PROVE  CacheInv'
<1>1. \A h \in Fetch : fetch'[h] = Nothing \/ GetOK(fetch'[h])
  BY Pointwise DEF CacheInv, TypeOK
<1>2. \A k \in Key : copies'[k] = Nothing \/ CopyOK(k, copies'[k])
  BY Pointwise DEF CacheInv, TypeOK
<1>. QED
  BY <1>1, <1>2, FromPointwise DEF CacheInv, TypeOK

\* A step that leaves the requests alone, or loses some, and forgets copies.
LEMMA OnlyForgets ==
  ASSUME CacheInv,
         (payments \in [User -> Nat])',
         (topUp \in [User -> [step : 0 .. Responding, payment : Nat]])',
         fetch' = [f \in Fetch |-> fetch'[f]], copies' = [k \in Key |-> copies'[k]],
         \A f \in Fetch : fetch'[f] \in {fetch[f], Nothing},
         \A k \in Key : copies'[k] \in {copies[k], Nothing}
  PROVE  CacheInv'
BY Pointwise, FromPointwise

\* Which key a request uses.
LEMMA CopyForFacts ==
  ASSUME CacheInv, NEW f \in Fetch, fetch[f] # Nothing
  PROVE  /\ GetOK(fetch[f])
         /\ CopyFor(f) \in Key
         /\ CopyFor(f)[1] = fetch[f].user /\ CopyFor(f)[2] = fetch[f].resource
         /\ TTL[fetch[f].resource] \in Nat \ {0}
BY Pointwise, CacheAssumption DEF GetOK, Get, CopyFor, KeyOf, Key

LEMMA InitCache == Init => CacheInv
BY DEF Init, CacheInv, TypeOK, AgesBounded, BodiesOwn, Is, Responding, NoTopUp

LEMMA AskKeeps ==
  ASSUME CacheInv, NEW f \in Fetch, NEW u \in User, NEW resource \in Resource,
         Ask(f, u, resource)
  PROVE  CacheInv'
<1>1. PICK b : b = [of |-> u, payments |-> 0, stale |-> 0]
  OBVIOUS
<1>2. PICK g : g = [stage |-> "lookUp", user |-> u, resource |-> resource, waited |-> 0,
                    body |-> b]
  OBVIOUS
<1>3. b \in Body /\ b.of = u /\ b.stale = 0
  BY <1>1 DEF Body
<1>4. GetOK(g)
  BY <1>2, <1>3, CacheAssumption DEF GetOK, Get
<1>5. fetch' = [fetch EXCEPT ![f] = g] /\ UNCHANGED <<payments, copies, topUp>>
  BY <1>1, <1>2 DEF Ask
<1>. QED
  BY <1>4, <1>5, OneGet

LEMMA HitKeeps ==
  ASSUME CacheInv, NEW f \in Fetch, Hit(f)
  PROVE  CacheInv'
<1>1. PICK c : c = copies[CopyFor(f)]
  OBVIOUS
<1>2. PICK old : old = fetch[f]
  OBVIOUS
<1>3. PICK g : g = [old EXCEPT !.stage = "answered", !.body = c.body]
  OBVIOUS
<1>4. GetOK(old) /\ CopyOK(CopyFor(f), c) /\ old.user = CopyFor(f)[1]
      /\ old.resource = CopyFor(f)[2] /\ TTL[old.resource] \in Nat
  BY <1>1, <1>2, CopyForFacts, Pointwise DEF Hit, Is
<1>5. /\ g.stage = "answered" /\ g.user = old.user /\ g.resource = old.resource
      /\ g.body = c.body /\ g.waited = old.waited /\ g \in Get
  BY <1>3, <1>4 DEF GetOK, CopyOK, Get, Copy
<1>6. GetOK(g)
  <2>1. /\ c.body.stale \in Nat /\ c.left \in Nat \ {0} /\ old.waited \in Nat
        /\ c.body.stale + c.left <= TTL[old.resource] + MaxLatency
        /\ c.body.of = old.user /\ old.waited <= MaxLatency
    BY <1>4 DEF GetOK, CopyOK, Get, Copy, Body
  <2>. QED
    BY <2>1, <1>5, <1>4, CacheAssumption DEF GetOK
<1>7. fetch' = [fetch EXCEPT ![f] = g] /\ UNCHANGED <<payments, copies, topUp>>
  BY <1>1, <1>2, <1>3 DEF Hit
<1>. QED
  BY <1>6, <1>7, OneGet

LEMMA MissKeeps ==
  ASSUME CacheInv, NEW f \in Fetch, Miss(f)
  PROVE  CacheInv'
<1>1. PICK old : old = fetch[f]
  OBVIOUS
<1>2. PICK g : g = [old EXCEPT !.stage = "query"]
  OBVIOUS
<1>3. GetOK(old) /\ old.stage = "lookUp"
  BY <1>1, CopyForFacts DEF Miss, Is
<1>4. GetOK(g)
  BY <1>2, <1>3 DEF GetOK, Get
<1>5. fetch' = [fetch EXCEPT ![f] = g] /\ UNCHANGED <<payments, copies, topUp>>
  BY <1>1, <1>2 DEF Miss
<1>. QED
  BY <1>4, <1>5, OneGet

LEMMA QueryKeeps ==
  ASSUME CacheInv, NEW f \in Fetch, Query(f)
  PROVE  CacheInv'
<1>1. PICK old : old = fetch[f]
  OBVIOUS
<1>2. GetOK(old) /\ old.stage = "query"
  BY <1>1, CopyForFacts DEF Query, Is
<1>3. PICK b : b = [of |-> old.user, payments |-> payments[old.user], stale |-> 0]
  OBVIOUS
<1>4. b \in Body /\ b.of = old.user /\ b.stale = 0
  BY <1>2, <1>3 DEF GetOK, Get, Body, CacheInv, TypeOK
<1>5. PICK g : g = [old EXCEPT !.stage = "store", !.body = b]
  OBVIOUS
<1>6. GetOK(g)
  <2>1. /\ g \in Get /\ g.stage = "store" /\ g.body = b
        /\ g.user = old.user /\ g.waited = old.waited
    BY <1>2, <1>4, <1>5 DEF GetOK, Get
  <2>2. old.waited \in Nat /\ old.waited <= MaxLatency
    BY <1>2 DEF GetOK, Get
  <2>. QED
    BY <1>4, <2>1, <2>2 DEF GetOK
<1>7. fetch' = [fetch EXCEPT ![f] = g] /\ UNCHANGED <<payments, copies, topUp>>
  BY <1>1, <1>3, <1>5 DEF Query
<1>. QED
  BY <1>6, <1>7, OneGet

LEMMA StoreKeeps ==
  ASSUME CacheInv, NEW f \in Fetch, StoreCopy(f)
  PROVE  CacheInv'
<1>1. PICK old : old = fetch[f]
  OBVIOUS
<1>2. PICK g : g = [old EXCEPT !.stage = "answered"]
  OBVIOUS
<1>3. PICK c : c = [body |-> old.body, left |-> TTL[old.resource]]
  OBVIOUS
<1>4. /\ GetOK(old) /\ old.stage = "store" /\ CopyFor(f) \in Key
      /\ CopyFor(f)[1] = old.user /\ CopyFor(f)[2] = old.resource
      /\ TTL[old.resource] \in Nat \ {0}
  BY <1>1, CopyForFacts DEF StoreCopy, Is
<1>5. /\ old.body \in Body /\ old.body.stale \in Nat /\ old.waited \in Nat
      /\ old.body.stale <= old.waited /\ old.waited <= MaxLatency /\ old.body.of = old.user
  BY <1>4 DEF GetOK, Get, Body
<1>6. GetOK(g)
  <2>1. /\ g \in Get /\ g.stage = "answered" /\ g.body = old.body
        /\ g.user = old.user /\ g.waited = old.waited /\ g.resource = old.resource
    BY <1>2, <1>4 DEF GetOK, Get
  <2>. QED
    BY <1>4, <1>5, <2>1, CacheAssumption DEF GetOK
<1>7. CopyOK(CopyFor(f), c)
  BY <1>3, <1>4, <1>5, CacheAssumption DEF CopyOK, Copy
<1>8. /\ fetch' = [fetch EXCEPT ![f] = g] /\ UNCHANGED <<payments, topUp>>
      /\ copies' = copies \/ copies' = [copies EXCEPT ![CopyFor(f)] = c]
  BY <1>1, <1>2, <1>3 DEF StoreCopy
<1>. QED
  BY <1>4, <1>6, <1>7, <1>8, OneGet

\* A tick ages what a request has read and the request alike.
LEMMA AgedFacts ==
  ASSUME CacheInv, NEW b \in Body
  PROVE  /\ Aged(b) \in Body /\ Aged(b).of = b.of
         /\ b.stale <= Aged(b).stale /\ Aged(b).stale <= b.stale + 1
BY DEF Aged, Body

LEMMA TickKeeps ==
  ASSUME CacheInv, Tick
  PROVE  CacheInv'
<1>. USE CacheAssumption
<1>1. ASSUME NEW f \in Fetch PROVE fetch'[f] = Nothing \/ GetOK(fetch'[f])
  <2>. SUFFICES ASSUME fetch[f] # Nothing PROVE GetOK(fetch'[f])
    BY DEF Tick
  <2>1. PICK old : old = fetch[f]
    OBVIOUS
  <2>2. PICK g : g = AgedGet(old)
    OBVIOUS
  <2>3. /\ fetch'[f] = g /\ GetOK(old) /\ old.waited < MaxLatency
        /\ TTL[old.resource] \in Nat
    BY <2>1, <2>2, CopyForFacts DEF Tick
  <2>4. PICK b : b = Aged(old.body)
    OBVIOUS
  <2>5. /\ old.body \in Body /\ b \in Body /\ b.of = old.body.of
        /\ b.stale <= old.body.stale + 1
        /\ b.stale \in Nat /\ old.body.stale \in Nat
    BY <2>3, <2>4, AgedFacts DEF GetOK, Get, Body
  <2>6. /\ old.waited \in Nat /\ old.resource \in Resource /\ old.user \in User
        /\ old.stage \in {"lookUp", "query", "store", "answered"}
        /\ old = [stage |-> old.stage, user |-> old.user, resource |-> old.resource,
                  body |-> old.body, waited |-> old.waited]
    BY <2>3 DEF GetOK, Get
  <2>7. CASE old.stage \in {"lookUp", "query"}
    <3>1. g = [old EXCEPT !.waited = old.waited + 1]
      BY <2>2, <2>7 DEF AgedGet
    <3>2. /\ g = [stage |-> old.stage, user |-> old.user, resource |-> old.resource,
                  body |-> old.body, waited |-> old.waited + 1]
          /\ g \in Get
      BY <3>1, <2>5, <2>6 DEF Get
    <3>3. /\ g.waited = old.waited + 1 /\ g.body = old.body /\ g.stage = old.stage
          /\ g.resource = old.resource /\ g.user = old.user
      BY <3>2
    <3>. QED
      BY <3>2, <3>3, <2>3, <2>5, <2>6, <2>7 DEF GetOK
  <2>8. CASE old.stage \notin {"lookUp", "query"}
    <3>1. g = [old EXCEPT !.waited = old.waited + 1, !.body = b]
      BY <2>2, <2>4, <2>8 DEF AgedGet
    <3>2. /\ g.waited = old.waited + 1 /\ g.body = b /\ g.stage = old.stage
          /\ g.resource = old.resource /\ g.user = old.user
          /\ DOMAIN g = {"stage", "user", "resource", "body", "waited"}
      BY <3>1, <2>6
    <3>3. g \in Get
      <4>1. PICK w \in Nat : w = old.waited + 1
        BY <2>6
      <4>2. g = [old EXCEPT !.waited = w, !.body = b] /\ old \in Get
        BY <3>1, <4>1, <2>3 DEF GetOK
      <4>. QED
        BY <4>1, <4>2, <2>5 DEF Get
    <3>. QED
      BY <3>2, <3>3, <2>3, <2>5, <2>6 DEF GetOK
  <2>. QED
    BY <2>7, <2>8
<1>2. ASSUME NEW k \in Key PROVE copies'[k] = Nothing \/ CopyOK(k, copies'[k])
  <2>. SUFFICES ASSUME copies[k] # Nothing, copies[k].left # 1 PROVE CopyOK(k, copies'[k])
    BY DEF Tick
  <2>1. PICK old : old = copies[k]
    OBVIOUS
  <2>2. PICK b : b = Aged(old.body)
    OBVIOUS
  <2>3. CopyOK(k, old) /\ copies'[k] = [old EXCEPT !.body = b, !.left = @ - 1]
    BY <2>1, <2>2, Pointwise DEF Tick
  <2>4. /\ old.body \in Body /\ b \in Body /\ b.of = old.body.of
        /\ b.stale <= old.body.stale + 1
        /\ b.stale \in Nat /\ old.body.stale \in Nat
        /\ TTL[k[2]] \in Nat
    BY <2>2, <2>3, AgedFacts DEF CopyOK, Copy, Body, Key
  <2>5. old.left \in Nat \ {0} /\ old.left # 1 /\ old = [body |-> old.body, left |-> old.left]
    BY <2>1, <2>3 DEF CopyOK, Copy
  <2>6. PICK c : c = [body |-> b, left |-> old.left - 1]
    OBVIOUS
  <2>7. c \in Copy /\ c.body = b /\ c.left = old.left - 1
    BY <2>4, <2>5, <2>6 DEF Copy
  <2>8. copies'[k] = c
    BY <2>3, <2>5, <2>6
  <2>. QED
    BY <2>3, <2>4, <2>5, <2>7, <2>8 DEF CopyOK
<1>. QED
  BY <1>1, <1>2, FromPointwise DEF Tick, CacheInv, TypeOK

\* Every step keeps the invariant.
LEMMA NextCache == CacheInv /\ [Next]_vars => CacheInv'
<1>. SUFFICES ASSUME CacheInv, [Next]_vars PROVE CacheInv'
  OBVIOUS
<1>. USE CacheAssumption
<1>0. /\ payments \in [User -> Nat]
      /\ topUp \in [User -> [step : 0 .. Responding, payment : Nat]]
      /\ fetch = [f \in Fetch |-> fetch[f]] /\ copies = [k \in Key |-> copies[k]]
      /\ Len(BustedByTopUp) \in Nat /\ Responding = Len(BustedByTopUp) + 1
      /\ \A u \in User :
           /\ topUp[u].step \in 0 .. Responding /\ topUp[u].payment \in Nat
           /\ \A n \in 0 .. Responding :
                [topUp[u] EXCEPT !.step = n] \in [step : 0 .. Responding, payment : Nat]
  BY DEF CacheInv, TypeOK, Responding
<1>1. ASSUME NEW f \in Fetch, Hear(f) PROVE CacheInv'
  BY <1>1, OneGet DEF Hear
<1>2. ASSUME NEW u \in User, TransferCommits(u) PROVE CacheInv'
  BY <1>2, <1>0, OnlyForgets DEF TransferCommits, Paid
<1>3. ASSUME NEW u \in User, TopUpCommits(u) PROVE CacheInv'
  BY <1>3, <1>0, OnlyForgets DEF TopUpCommits, Paid
<1>4. ASSUME NEW u \in User, Bust(u) PROVE CacheInv'
  <2>1. topUp[u].step \in 1 .. Len(BustedByTopUp) /\ topUp[u].step + 1 \in 0 .. Responding
    BY <1>4, <1>0 DEF Bust
  <2>2. topUp' = [topUp EXCEPT ![u] = [topUp[u] EXCEPT !.step = topUp[u].step + 1]]
    BY <1>4 DEF Bust
  <2>3. (topUp \in [User -> [step : 0 .. Responding, payment : Nat]])'
    BY <1>0, <2>1, <2>2 DEF Responding
  <2>. QED
    BY <1>4, <1>0, <2>3, OnlyForgets DEF Bust
<1>5. ASSUME NEW u \in User, TopUpAnswers(u) PROVE CacheInv'
  <2>1. topUp' = [topUp EXCEPT ![u] = [step |-> 0, payment |-> 0]] /\ 0 \in 0 .. Responding
    BY <1>5, <1>0 DEF TopUpAnswers, NoTopUp
  <2>2. (topUp \in [User -> [step : 0 .. Responding, payment : Nat]])'
    BY <1>0, <2>1 DEF Responding
  <2>. QED
    BY <1>5, <1>0, <2>2, OnlyForgets DEF TopUpAnswers
<1>6. ASSUME NEW k \in Key, Evict(k) PROVE CacheInv'
  BY <1>6, <1>0, OnlyForgets DEF Evict
<1>7. ASSUME NEW F \in SUBSET Fetch, NEW U \in SUBSET User, Crash(F, U) PROVE CacheInv'
  <2>1. (topUp \in [User -> [step : 0 .. Responding, payment : Nat]])'
    <3>1. \A u \in User : topUp'[u] \in {topUp[u], [step |-> 0, payment |-> 0]}
      BY <1>7 DEF Crash, NoTopUp
    <3>2. 0 \in 0 .. Responding
      BY <1>0
    <3>. QED
      BY <1>7, <1>0, <3>1, <3>2 DEF Crash, Responding
  <2>. QED
    BY <1>7, <1>0, <2>1, OnlyForgets DEF Crash
<1>8. CASE UNCHANGED vars
  BY <1>8, <1>0, OnlyForgets DEF vars
<1>. QED
  BY <1>1, <1>2, <1>3, <1>4, <1>5, <1>6, <1>7, <1>8, AskKeeps, HitKeeps, MissKeeps,
     QueryKeeps, StoreKeeps, TickKeeps
     DEF Next, GetStep

\* Ages stay bounded and bodies stay their users' own.
THEOREM CacheInvariant == Spec => []CacheInv
BY InitCache, NextCache, PTL DEF Spec

\* No answer is out of date for longer than a copy lives and two requests take.
THEOREM NeverTooStale == Spec => []StalenessBounded
<1>1. CacheInv => StalenessBounded
  <2>. SUFFICES ASSUME CacheInv, NEW f \in Fetch, Is(f, "answered")
                PROVE  fetch[f].body.stale < TTL[fetch[f].resource] + 2 * MaxLatency
    BY DEF StalenessBounded
  <2>1. GetOK(fetch[f]) /\ TTL[fetch[f].resource] \in Nat /\ fetch[f].stage = "answered"
    BY CopyForFacts DEF Is
  <2>. QED
    BY <2>1, CacheAssumption DEF GetOK, Get, Body
<1>. QED
  BY <1>1, CacheInvariant, PTL

\* No user is ever answered with another user's data.
THEOREM AnswersAreOwn == Spec => []OwnAnswersOnly
<1>1. CacheInv => OwnAnswersOnly
  BY DEF CacheInv, BodiesOwn, OwnAnswersOnly, Is
<1>. QED
  BY <1>1, CacheInvariant, PTL

(***************************************************************************)
(* The dashboard only restricts what the cache is asked, and when          *)
(***************************************************************************)

\* Every step of the page is one of the cache or leaves the cache alone.
LEMMA DashboardStep == [DashboardNext]_allVars => [Next]_vars
<1>. SUFFICES ASSUME [DashboardNext]_allVars PROVE [Next]_vars
  OBVIOUS
<1>1. ASSUME NEW f \in Fetch,
             \/ \E u \in User, resource \in Resource : SendRequest(f, u, resource)
             \/ ServerStep(f) \/ TakeAnswer(f) \/ AnswerLost(f) \/ AnswerDropped(f)
      PROVE  Next
  BY <1>1 DEF SendRequest, ServerStep, TakeAnswer, AnswerLost, AnswerDropped, Next
<1>2. ASSUME NEW u \in User,
             \/ TransferElsewhere(u) \/ SendCommits(u)
             \/ HandleTopUp(u) \/ BustStep(u) \/ TopUpHeard(u) \/ TopUpUnheard(u)
      PROVE  Next
  BY <1>2 DEF TransferElsewhere, SendCommits, HandleTopUp, BustStep, TopUpHeard, TopUpUnheard,
              Next
<1>3. ASSUME NEW u \in User,
             \/ HandleSendSuccess(u) \/ SendUnheard(u)
             \/ TimerFires(u) \/ Remount(u) \/ \E p \in Pages : ChangePage(u, p)
      PROVE  UNCHANGED vars
  BY <1>3 DEF HandleSendSuccess, SendUnheard, TimerFires, Remount, ChangePage
<1>4. CASE Clock
  BY <1>4 DEF Clock, Next
<1>5. ASSUME NEW k \in Key, EvictStep(k) PROVE Next
  BY <1>5 DEF EvictStep, Next
<1>6. ASSUME NEW F \in SUBSET Fetch, NEW U \in SUBSET User, CrashStep(F, U) PROVE Next
  BY <1>6 DEF CrashStep, Next
<1>7. CASE UNCHANGED allVars
  BY <1>7 DEF allVars
<1>. QED
  BY <1>1, <1>2, <1>3, <1>4, <1>5, <1>6, <1>7 DEF DashboardNext

\* The dashboard on top of the cache implements the cache's specification, so that all
\* that is proved of the cache holds below the page (client/src/pages/Dashboard.jsx).
THEOREM DashboardImplementsCache == DashboardSpec => Spec
<1>1. DashboardInit => Init
  BY DEF DashboardInit
<1>. QED
  BY <1>1, DashboardStep, PTL DEF DashboardSpec, Spec

\* What the page is told is never too old, however it asks.
THEOREM DashboardNeverTooStale == DashboardSpec => []StalenessBounded
BY DashboardImplementsCache, NeverTooStale, PTL

(***************************************************************************)
(* The spinner has a reason                                                *)
(***************************************************************************)

\* A request keeps its user and its resource while it is under way.
LEMMA RequestsKeepTheirs ==
  ASSUME CacheInv, NEW f \in Fetch, fetch[f] # Nothing, GetStep(f) \/ Tick
  PROVE  /\ fetch'[f] # Nothing
         /\ fetch'[f].user = fetch[f].user /\ fetch'[f].resource = fetch[f].resource
<1>1. /\ fetch \in [Fetch -> Get \cup {Nothing}] /\ Nothing \notin Get \cup Copy
      /\ copies \in [Key -> Copy \cup {Nothing}] /\ payments \in [User -> Nat]
  BY NothingAssumption DEF CacheInv, TypeOK
<1>2. PICK old : old = fetch[f]
  OBVIOUS
<1>3. /\ old \in Get /\ CopyFor(f) \in Key
      /\ old = [stage |-> old.stage, user |-> old.user, resource |-> old.resource,
                body |-> old.body, waited |-> old.waited]
      /\ old.user \in User /\ old.resource \in Resource /\ old.body \in Body /\ old.waited \in Nat
  BY <1>1, <1>2, CopyForFacts DEF Get
<1>4. ASSUME NEW stage \in {"lookUp", "query", "store", "answered"}, NEW body \in Body,
             NEW waited \in Nat,
             fetch'[f] = [stage |-> stage, user |-> old.user, resource |-> old.resource,
                          body |-> body, waited |-> waited]
      PROVE  /\ fetch'[f] # Nothing
             /\ fetch'[f].user = fetch[f].user /\ fetch'[f].resource = fetch[f].resource
  BY <1>1, <1>2, <1>3, <1>4 DEF Get
<1>5. CASE Hit(f)
  <2>1. PICK body : body = copies[CopyFor(f)].body
    OBVIOUS
  <2>2. body \in Body
    BY <1>1, <1>3, <1>5, <2>1 DEF Hit, Copy
  <2>3. fetch'[f] = [old EXCEPT !.stage = "answered", !.body = body]
    BY <1>1, <1>2, <1>5, <2>1 DEF Hit
  <2>4. fetch'[f] = [stage |-> "answered", user |-> old.user, resource |-> old.resource,
                     body |-> body, waited |-> old.waited]
    BY <1>3, <2>3
  <2>. QED
    BY <1>3, <1>4, <2>2, <2>4
<1>6. CASE Miss(f)
  BY <1>1, <1>6 DEF Miss, Get
<1>7. CASE Query(f)
  <2>1. PICK body : body = [of |-> old.user, payments |-> payments[old.user], stale |-> 0]
    OBVIOUS
  <2>2. body \in Body
    BY <1>1, <1>3, <2>1 DEF Body
  <2>3. fetch'[f] = [old EXCEPT !.stage = "store", !.body = body]
    BY <1>1, <1>2, <1>7, <2>1 DEF Query
  <2>4. fetch'[f] = [stage |-> "store", user |-> old.user, resource |-> old.resource,
                     body |-> body, waited |-> old.waited]
    BY <1>3, <2>3
  <2>. QED
    BY <1>3, <1>4, <2>2, <2>4
<1>8. CASE StoreCopy(f)
  BY <1>1, <1>8 DEF StoreCopy, Get
<1>9. CASE Tick
  <2>1. fetch'[f] = AgedGet(old) /\ Aged(old.body) \in Body
    BY <1>2, <1>3, <1>9, AgedFacts DEF Tick
  <2>2. PICK waited \in Nat : waited = old.waited + 1
    BY <1>3
  <2>3. CASE old.stage \in {"lookUp", "query"}
    <3>1. fetch'[f] = [old EXCEPT !.waited = waited]
      BY <2>1, <2>2, <2>3 DEF AgedGet
    <3>. QED
      BY <1>3, <1>4, <2>2, <2>3, <3>1
  <2>4. CASE old.stage \notin {"lookUp", "query"}
    <3>1. PICK body \in Body : body = Aged(old.body)
      BY <2>1
    <3>2. fetch'[f] = [old EXCEPT !.waited = waited, !.body = body]
      BY <2>1, <2>2, <2>4, <3>1 DEF AgedGet
    <3>3. fetch'[f] = [stage |-> old.stage, user |-> old.user, resource |-> old.resource,
                       body |-> body, waited |-> waited]
      BY <1>3, <3>2
    <3>4. old.stage \in {"lookUp", "query", "store", "answered"}
      BY <1>3 DEF Get
    <3>. QED
      BY <1>4, <2>2, <3>1, <3>3, <3>4
  <2>. QED
    BY <2>3, <2>4
<1>. QED
  BY <1>5, <1>6, <1>7, <1>8, <1>9 DEF GetStep

LEMMA InitDashboard == DashboardInit => DashboardInv
<1>. SUFFICES ASSUME DashboardInit PROVE DashboardInv
  OBVIOUS
<1>1. ScreenTypeOK
  BY DashboardAssumption DEF DashboardInit, ScreenTypeOK
<1>2. SpinnerHasReason
  BY DashboardAssumption DEF DashboardInit, SpinnerHasReason
<1>. QED
  BY <1>1, <1>2, InitCache DEF DashboardInit, DashboardInv, AwaitedAreUnderWay

LEMMA NextDashboard == DashboardInv /\ [DashboardNext]_allVars => DashboardInv'
<1>. SUFFICES ASSUME DashboardInv, [DashboardNext]_allVars PROVE DashboardInv'
  OBVIOUS
<1>. USE DashboardAssumption
<1>1. CacheInv'
  BY DashboardStep, NextCache DEF DashboardInv
<1>2. /\ fetch \in [Fetch -> Get \cup {Nothing}] /\ payments \in [User -> Nat]
      /\ topUp \in [User -> [step : 0 .. Responding, payment : Nat]]
      /\ Nothing \notin Get
      /\ \A f \in Fetch : fetch[f] # Nothing =>
           fetch[f].user \in User /\ fetch[f].resource \in Resource /\ fetch[f].body.payments \in Nat
  BY NothingAssumption DEF DashboardInv, CacheInv, TypeOK, Get, Body
<1>. DEFINE Rest == ScreenTypeOK /\ AwaitedAreUnderWay /\ SpinnerHasReason
<1>. SUFFICES Rest'
  BY <1>1 DEF DashboardInv
<1>. USE DEF DashboardInv
<1>3. ASSUME NEW f \in Fetch, NEW u \in User, NEW resource \in Resource, SendRequest(f, u, resource)
      PROVE  Rest'
  <2>1. /\ fetch[f] = Nothing /\ f \notin awaited
        /\ fetch'[f] # Nothing /\ fetch'[f].user = u /\ fetch'[f].resource = resource
        /\ \A g \in awaited : fetch'[g] = fetch[g]
    <3>1. PICK g : g = [stage |-> "lookUp", user |-> u, resource |-> resource, waited |-> 0,
                        body |-> [of |-> u, payments |-> 0, stale |-> 0]]
      OBVIOUS
    <3>2. g \in Get /\ g.user = u /\ g.resource = resource
      BY <3>1 DEF Get, Body
    <3>3. fetch[f] = Nothing /\ fetch' = [fetch EXCEPT ![f] = g]
      BY <1>3, <3>1 DEF SendRequest, Ask
    <3>. QED
      BY <1>2, <3>2, <3>3 DEF AwaitedAreUnderWay, ScreenTypeOK
  <2>2. ScreenTypeOK'
    BY <1>3 DEF SendRequest, ScreenTypeOK, screenVars
  <2>3. AwaitedAreUnderWay'
    BY <1>3, <2>1 DEF SendRequest, AwaitedAreUnderWay
  <2>4. SpinnerHasReason'
    BY <1>3, <2>1 DEF SendRequest, SpinnerHasReason, Awaits, ScreenTypeOK, screenVars
  <2>. QED
    BY <2>2, <2>3, <2>4
<1>4. ASSUME NEW f \in Fetch, TakeAnswer(f) PROVE Rest'
  <2>1. /\ fetch[f] # Nothing /\ \A g \in Fetch \ {f} : fetch'[g] = fetch[g]
        /\ awaited' = awaited \ {f}
    BY <1>4, <1>2 DEF TakeAnswer, Hear, Is
  <2>2. ScreenTypeOK'
    BY <1>4, <1>2, <2>1 DEF TakeAnswer, ScreenTypeOK
  <2>3. AwaitedAreUnderWay'
    BY <2>1 DEF AwaitedAreUnderWay, ScreenTypeOK
  <2>4. SpinnerHasReason'
    <3>. SUFFICES ASSUME NEW u \in User, loading'[u], toAsk'[u] \cap Pages = {}
                  PROVE  \E g \in Awaits(u)' : fetch'[g].resource \in Pages
      BY DEF SpinnerHasReason
    <3>1. /\ loading[u] /\ toAsk'[u] = toAsk[u]
          /\ fetch[f].resource = Account \/ u # fetch[f].user
      BY <1>4, <1>2, <2>1 DEF TakeAnswer, ScreenTypeOK
    <3>2. PICK g \in Awaits(u) : fetch[g].resource \in Pages
      BY <3>1 DEF SpinnerHasReason
    <3>3. g # f
      BY <3>1, <3>2 DEF Awaits
    <3>. QED
      BY <2>1, <3>2, <3>3 DEF Awaits, ScreenTypeOK
  <2>. QED
    BY <2>2, <2>3, <2>4
<1>5. ASSUME NEW f \in Fetch, AnswerLost(f) PROVE Rest'
  <2>1. /\ fetch[f] # Nothing /\ \A g \in Fetch \ {f} : fetch'[g] = fetch[g]
        /\ awaited' = awaited \ {f}
    BY <1>5, <1>2 DEF AnswerLost, Hear, Is
  <2>2. ScreenTypeOK'
    BY <1>5, <1>2, <2>1 DEF AnswerLost, ScreenTypeOK
  <2>3. AwaitedAreUnderWay'
    BY <2>1 DEF AwaitedAreUnderWay, ScreenTypeOK
  <2>4. SpinnerHasReason'
    <3>. SUFFICES ASSUME NEW u \in User, loading'[u], toAsk'[u] \cap Pages = {}
                  PROVE  \E g \in Awaits(u)' : fetch'[g].resource \in Pages
      BY DEF SpinnerHasReason
    <3>1. /\ loading[u] /\ toAsk'[u] = toAsk[u]
          /\ fetch[f].resource = Account \/ u # fetch[f].user
      BY <1>5, <1>2, <2>1 DEF AnswerLost, ScreenTypeOK
    <3>2. PICK g \in Awaits(u) : fetch[g].resource \in Pages
      BY <3>1 DEF SpinnerHasReason
    <3>3. g # f
      BY <3>1, <3>2 DEF Awaits
    <3>. QED
      BY <2>1, <3>2, <3>3 DEF Awaits, ScreenTypeOK
  <2>. QED
    BY <2>2, <2>3, <2>4
<1>6. ASSUME NEW f \in Fetch, AnswerDropped(f) PROVE Rest'
  BY <1>6, <1>2 DEF AnswerDropped, Hear, Is, pageVars, screenVars, ScreenTypeOK,
                    AwaitedAreUnderWay, SpinnerHasReason, Awaits
<1>7. ASSUME NEW f \in Fetch, ServerStep(f) PROVE Rest'
  <2>1. \A g \in Fetch \ {f} : fetch'[g] = fetch[g]
    BY <1>7, <1>2 DEF ServerStep, GetStep, Hit, Miss, Query, StoreCopy
  <2>2. \A g \in Fetch : fetch[g] # Nothing =>
          /\ fetch'[g] # Nothing
          /\ fetch'[g].user = fetch[g].user /\ fetch'[g].resource = fetch[g].resource
    BY <1>7, <2>1, RequestsKeepTheirs DEF ServerStep
  <2>. QED
    BY <1>7, <2>2 DEF ServerStep, pageVars, screenVars, ScreenTypeOK, AwaitedAreUnderWay,
                      SpinnerHasReason, Awaits
<1>8. ASSUME NEW u \in User,
             \/ TransferElsewhere(u) \/ SendCommits(u) \/ HandleSendSuccess(u) \/ SendUnheard(u)
             \/ HandleTopUp(u) \/ BustStep(u) \/ TopUpHeard(u) \/ TopUpUnheard(u)
      PROVE  Rest'
  <2>1. UNCHANGED <<fetch, page, balance, rows, loading, toAsk, awaited>>
    BY <1>8 DEF TransferElsewhere, SendCommits, HandleSendSuccess, SendUnheard, HandleTopUp,
                BustStep, TopUpHeard, TopUpUnheard, TransferCommits, TopUpCommits, Bust, TopUpAnswers, pageVars,
                screenVars, vars
  <2>2. timers' \in [User -> SUBSET [left : 0 .. ReloadDelay, payment : Nat]]
    BY <1>8, <1>2 DEF TransferElsewhere, SendCommits, HandleSendSuccess, SendUnheard, HandleTopUp,
                BustStep, TopUpHeard, TopUpUnheard, pageVars, ScreenTypeOK
  <2>3. topupLoading' \in [User -> BOOLEAN]
    BY <1>8 DEF TransferElsewhere, SendCommits, HandleSendSuccess, SendUnheard, HandleTopUp,
                BustStep, TopUpHeard, TopUpUnheard, pageVars, screenVars, ScreenTypeOK
  <2>4. unreported' \in [User -> Nat]
    BY <1>8 DEF TransferElsewhere, SendCommits, HandleSendSuccess, SendUnheard, HandleTopUp,
                BustStep, TopUpHeard, TopUpUnheard, pageVars, ScreenTypeOK
  <2>. QED
    BY <2>1, <2>2, <2>3, <2>4 DEF ScreenTypeOK, AwaitedAreUnderWay, SpinnerHasReason, Awaits
<1>9. ASSUME NEW u \in User, TimerFires(u) PROVE Rest'
  <2>1. page[u] \in Pages
    BY DEF ScreenTypeOK
  <2>2. ScreenTypeOK'
    BY <1>9, <2>1 DEF TimerFires, ScreenTypeOK
  <2>3. AwaitedAreUnderWay' /\ SpinnerHasReason'
    BY <1>9, <2>1 DEF TimerFires, vars, ScreenTypeOK, AwaitedAreUnderWay, SpinnerHasReason, Awaits
  <2>. QED
    BY <2>2, <2>3
<1>10. ASSUME NEW u \in User, Remount(u) PROVE Rest'
  <2>1. ScreenTypeOK'
    BY <1>10 DEF Remount, ScreenTypeOK
  <2>2. AwaitedAreUnderWay' /\ SpinnerHasReason'
    BY <1>10 DEF Remount, vars, ScreenTypeOK, AwaitedAreUnderWay, SpinnerHasReason, Awaits
  <2>. QED
    BY <2>1, <2>2
<1>11. ASSUME NEW u \in User, NEW p \in Pages, ChangePage(u, p) PROVE Rest'
  <2>1. ScreenTypeOK'
    BY <1>11 DEF ChangePage, ScreenTypeOK
  <2>2. AwaitedAreUnderWay' /\ SpinnerHasReason'
    BY <1>11 DEF ChangePage, vars, ScreenTypeOK, AwaitedAreUnderWay, SpinnerHasReason, Awaits
  <2>. QED
    BY <2>1, <2>2
<1>12. CASE Clock
  <2>1. \A g \in Fetch : fetch[g] # Nothing =>
          /\ fetch'[g] # Nothing
          /\ fetch'[g].user = fetch[g].user /\ fetch'[g].resource = fetch[g].resource
    BY <1>12, RequestsKeepTheirs DEF Clock
  <2>2. timers' \in [User -> SUBSET [left : 0 .. ReloadDelay, payment : Nat]]
    <3>1. \A u \in User : \A timer \in timers[u] :
            [timer EXCEPT !.left = @ - 1] \in [left : 0 .. ReloadDelay, payment : Nat]
      BY <1>12 DEF Clock, ScreenTypeOK
    <3>. QED
      BY <1>12, <3>1 DEF Clock
  <2>. QED
    BY <1>12, <2>1, <2>2 DEF Clock, screenVars, ScreenTypeOK, AwaitedAreUnderWay,
                             SpinnerHasReason, Awaits
<1>13. ASSUME NEW k \in Key, EvictStep(k) PROVE Rest'
  BY <1>13 DEF EvictStep, Evict, pageVars, screenVars, ScreenTypeOK, AwaitedAreUnderWay,
               SpinnerHasReason, Awaits
<1>14. ASSUME NEW F \in SUBSET Fetch, NEW U \in SUBSET User, CrashStep(F, U) PROVE Rest'
  <2>1. /\ awaited' = awaited \ F
        /\ \A g \in Fetch \ F : fetch'[g] = fetch[g]
    BY <1>14, <1>2 DEF CrashStep, Crash
  <2>2. ScreenTypeOK'
    BY <1>14, <2>1 DEF CrashStep, ScreenTypeOK
  <2>3. AwaitedAreUnderWay'
    BY <2>1 DEF AwaitedAreUnderWay, ScreenTypeOK
  <2>4. SpinnerHasReason'
    <3>. SUFFICES ASSUME NEW u \in User, loading'[u], toAsk'[u] \cap Pages = {}
                  PROVE  \E f \in Awaits(u)' : fetch'[f].resource \in Pages
      BY DEF SpinnerHasReason
    <3>1. /\ loading[u] /\ toAsk'[u] = toAsk[u]
          /\ u \notin {fetch[f].user : f \in {g \in F \cap awaited : fetch[g].resource # Account}}
      BY <1>14 DEF CrashStep, ScreenTypeOK
    <3>2. PICK f \in Awaits(u) : fetch[f].resource \in Pages
      BY <3>1 DEF SpinnerHasReason
    <3>3. f \notin F
      BY <3>1, <3>2 DEF Awaits
    <3>. QED
      BY <2>1, <3>2, <3>3 DEF Awaits, ScreenTypeOK
  <2>. QED
    BY <2>2, <2>3, <2>4
<1>15. CASE UNCHANGED allVars
  BY <1>15 DEF allVars, vars, pageVars, screenVars, ScreenTypeOK, AwaitedAreUnderWay,
               SpinnerHasReason, Awaits
<1>. QED
  BY <1>3, <1>4, <1>5, <1>6, <1>7, <1>8, <1>9, <1>10, <1>11, <1>12, <1>13, <1>14, <1>15
     DEF DashboardNext

\* The screen, its timers and its requests agree through overlapping reloads, lost
\* answers, crashes and impatient users.
THEOREM DashboardInvariant == DashboardSpec => []DashboardInv
BY InitDashboard, NextDashboard, PTL DEF DashboardSpec

\* "Loading transactions..." is never shown with nothing under way
\* (client/src/components/TransactionList.jsx:79-88).
THEOREM SpinnerIsHonest == DashboardSpec => []SpinnerHasReason
BY DashboardInvariant, PTL DEF DashboardInv

(***************************************************************************)
(* The send form: FormInv is inductive                                     *)
(***************************************************************************)

\* No form has been opened at first.
LEMMA InitForm == FormInit => FormInv
BY SendFormAssumption
   DEF FormInit, FormInv, FormTypeOK, CallsInOrder, HeardIsTrue, LastOfItsForm,
       WaitedForOrAbandoned, Made, CallsOf

\* The steps that only show or hide a form, or an error: what hides a form that waits
\* abandons it.
LEMMA ScreenKeeps ==
  ASSUME FormInv, FormTypeOK', UNCHANGED <<sending, done, calls, server, heard>>,
         abandoned \subseteq abandoned',
         shown' = shown \/ shown \notin sending \/ shown \in abandoned'
  PROVE  FormInv'
<1>1. CallsInOrder' /\ HeardIsTrue' /\ LastOfItsForm'
  BY DEF FormInv, CallsInOrder, HeardIsTrue, LastOfItsForm, Made, CallsOf
<1>2. WaitedForOrAbandoned'
  BY DEF FormInv, WaitedForOrAbandoned, LastOfItsForm, Made
<1>. QED
  BY <1>1, <1>2 DEF FormInv

\* A call has the next number, and its form had none under way and no success.
LEMMA SubmitKeeps ==
  ASSUME FormInv, NEW f \in Form, Submit(f)
  PROVE  FormInv'
<1>. USE SendFormAssumption DEF FormInv
<1>1. PICK c \in Call :
        /\ calls[c] = 0 /\ \A b \in Call : b < c => calls[b] # 0
        /\ calls' = [calls EXCEPT ![c] = f]
        /\ server' = [server EXCEPT ![c] = "asked"]
  BY DEF Submit
<1>2. f \in 1 .. MaxForms /\ f \notin sending \cup done
  BY DEF Submit, Submittable, Form
<1>3. Made' = Made \cup {c} /\ c \notin Made
  BY <1>1, <1>2 DEF Made, FormTypeOK
<1>4. \A d \in Made : d < c
  BY <1>1, <1>3 DEF CallsInOrder, Made, Call
<1>5. heard[c] = "nothing" /\ heard' = heard
  BY <1>3 DEF CallsInOrder, Submit
<1>6. \A d \in Made : calls'[d] = calls[d] /\ (calls[d] = f => heard[d] \in {"refusal", "loss"})
  BY <1>1, <1>2, <1>3 DEF LastOfItsForm, FormTypeOK, Made
<1>7. FormTypeOK'
  BY <1>1, <1>2 DEF FormTypeOK, Submit, Form
<1>8. CallsInOrder'
  BY <1>1, <1>3, <1>5 DEF CallsInOrder, FormTypeOK, Made
<1>9. HeardIsTrue'
  BY <1>1, <1>5 DEF HeardIsTrue, FormTypeOK
<1>10. LastOfItsForm'
  <2>1. calls'[c] = f /\ sending' = sending \cup {f} /\ done' = done
    BY <1>1 DEF Submit, FormTypeOK
  <2>2. \A g \in done' : g \notin sending'
    BY <1>2, <2>1 DEF LastOfItsForm
  <2>3. \A g \in done' : \E d \in CallsOf(g)' : heard'[d] = "success"
    BY <1>3, <1>5, <1>6, <2>1 DEF LastOfItsForm, CallsOf
  <2>4. \A d \in Made' : heard'[d] = "nothing" => calls'[d] \in sending'
    BY <1>3, <1>5, <1>6, <2>1 DEF LastOfItsForm
  <2>5. \A d \in Made' : heard'[d] = "success" => calls'[d] \in done'
    BY <1>3, <1>5, <1>6, <2>1 DEF LastOfItsForm
  <2>6. \A b, d \in Made' : calls'[b] = calls'[d] /\ b < d => heard'[b] \in {"refusal", "loss"}
    <3>. SUFFICES ASSUME NEW b \in Made', NEW d \in Made', calls'[b] = calls'[d], b < d
                  PROVE  heard'[b] \in {"refusal", "loss"}
      OBVIOUS
    <3>1. b # c
      BY <1>3, <1>4 DEF Made, Call
    <3>2. CASE d = c
      BY <1>3, <1>5, <1>6, <2>1, <3>1, <3>2
    <3>3. CASE d # c
      BY <1>3, <1>5, <1>6, <3>1, <3>3 DEF LastOfItsForm
    <3>. QED
      BY <3>2, <3>3
  <2>. QED
    BY <2>2, <2>3, <2>4, <2>5, <2>6 DEF LastOfItsForm
<1>11. WaitedForOrAbandoned'
  <2>1. \A d \in Made : heard[d] = "nothing" => calls[d] \in abandoned
    BY <1>2 DEF WaitedForOrAbandoned, LastOfItsForm, Submit, Submittable
  <2>2. calls'[c] = f /\ shown' = f /\ abandoned' = abandoned
    BY <1>1, <1>2 DEF Submit, Submittable, FormTypeOK
  <2>3. \A d \in Made' : d <= c
    BY <1>3, <1>4 DEF Made, Call
  <2>. QED
    BY <1>3, <1>5, <1>6, <2>1, <2>2, <2>3 DEF WaitedForOrAbandoned
<1>. QED
  BY <1>7, <1>8, <1>9, <1>10, <1>11

\* The server decides a call it has been asked for, of which no success or refusal has
\* been heard.
LEMMA DecideKeeps ==
  ASSUME FormInv, NEW c \in Call, Decide(c)
  PROVE  FormInv'
<1>. USE DEF FormInv
<1>1. FormTypeOK'
  BY DEF FormTypeOK, Decide
<1>2. CallsInOrder'
  BY DEF CallsInOrder, Decide, FormTypeOK, Made
<1>3. HeardIsTrue'
  BY DEF HeardIsTrue, Decide, FormTypeOK
<1>4. LastOfItsForm'
  BY DEF LastOfItsForm, Decide, Made, CallsOf
<1>5. WaitedForOrAbandoned'
  BY DEF WaitedForOrAbandoned, Decide, Made
<1>. QED
  BY <1>1, <1>2, <1>3, <1>4, <1>5

\* A call that is waited for is the only one of its form.
LEMMA OneIsAwaited ==
  ASSUME FormInv, NEW c \in Made, heard[c] = "nothing", NEW d \in Made, d # c,
         calls[d] = calls[c]
  PROVE  heard[d] \in {"refusal", "loss"}
BY DEF FormInv, LastOfItsForm, Made, Call

\* A success: the form is done, and its only open call is over.
LEMMA HearPaidKeeps ==
  ASSUME FormInv, NEW c \in Call, HearPaid(c)
  PROVE  FormInv'
<1>. USE DEF FormInv
<1>1. c \in Made /\ heard[c] = "nothing" /\ server[c] = "paid"
  BY DEF HearPaid, CallsInOrder
<1>2. calls[c] \in Form
  BY <1>1 DEF Made, FormTypeOK, Form
<1>3. FormTypeOK'
  BY <1>2 DEF FormTypeOK, HearPaid
<1>4. /\ heard'[c] = "success" /\ \A d \in Call \ {c} : heard'[d] = heard[d]
      /\ done' = done \cup {calls[c]} /\ sending' = sending \ {calls[c]}
      /\ UNCHANGED <<calls, server>>
  BY DEF HearPaid, FormTypeOK
<1>5. Made' = Made
  BY <1>4 DEF Made
<1>6. CallsInOrder' /\ HeardIsTrue'
  BY <1>1, <1>4, <1>5 DEF CallsInOrder, HeardIsTrue
<1>7. LastOfItsForm'
  <2>1. \A f \in done' : f \notin sending'
    BY <1>4 DEF LastOfItsForm
  <2>2. \A f \in done' : \E d \in CallsOf(f)' : heard'[d] = "success"
    BY <1>1, <1>4, <1>5 DEF LastOfItsForm, CallsOf, Made
  <2>3. \A d \in Made' : heard'[d] = "nothing" => calls'[d] \in sending'
    BY <1>1, <1>4, <1>5, OneIsAwaited DEF LastOfItsForm, Made
  <2>4. \A d \in Made' : heard'[d] = "success" => calls'[d] \in done'
    BY <1>1, <1>4, <1>5 DEF LastOfItsForm, Made
  <2>5. \A b, d \in Made' : calls'[b] = calls'[d] /\ b < d => heard'[b] \in {"refusal", "loss"}
    BY <1>1, <1>4, <1>5 DEF LastOfItsForm, Made
  <2>. QED
    BY <2>1, <2>2, <2>3, <2>4, <2>5 DEF LastOfItsForm
<1>8. WaitedForOrAbandoned'
  BY <1>1, <1>4, <1>5 DEF WaitedForOrAbandoned, HearPaid, Made
<1>. QED
  BY <1>3, <1>6, <1>7, <1>8

\* An error: the form may be submitted again, and its only open call is over.
LEMMA HearErrorKeeps ==
  ASSUME FormInv, NEW c \in Call, HearRefused(c) \/ HearLost(c)
  PROVE  FormInv'
<1>. USE DEF FormInv
<1>1. PICK what \in {"refusal", "loss"} :
        HearError(c, what) /\ (what = "refusal" => server[c] = "refused")
  BY DEF HearRefused, HearLost
<1>2. c \in Made /\ heard[c] = "nothing"
  BY <1>1 DEF HearRefused, HearLost, HearError, CallsInOrder, Made
<1>3. calls[c] \in Form
  BY <1>2 DEF Made, FormTypeOK, Form
<1>4. FormTypeOK'
  BY <1>1, <1>3 DEF FormTypeOK, HearError
<1>5. /\ heard'[c] = what /\ \A d \in Call \ {c} : heard'[d] = heard[d]
      /\ done' = done /\ sending' = sending \ {calls[c]}
      /\ UNCHANGED <<calls, server>>
  BY <1>1 DEF HearError, FormTypeOK
<1>6. Made' = Made
  BY <1>5 DEF Made
<1>7. CallsInOrder' /\ HeardIsTrue'
  BY <1>1, <1>2, <1>5, <1>6 DEF CallsInOrder, HeardIsTrue
<1>8. LastOfItsForm'
  <2>1. \A f \in done' : f \notin sending'
    BY <1>5 DEF LastOfItsForm
  <2>2. \A f \in done' : \E d \in CallsOf(f)' : heard'[d] = "success"
    BY <1>2, <1>5, <1>6 DEF LastOfItsForm, CallsOf, Made
  <2>3. \A d \in Made' : heard'[d] = "nothing" => calls'[d] \in sending'
    BY <1>2, <1>5, <1>6, OneIsAwaited DEF LastOfItsForm, Made
  <2>4. \A d \in Made' : heard'[d] = "success" => calls'[d] \in done'
    BY <1>5, <1>6 DEF LastOfItsForm, Made
  <2>5. \A b, d \in Made' : calls'[b] = calls'[d] /\ b < d => heard'[b] \in {"refusal", "loss"}
    BY <1>5, <1>6 DEF LastOfItsForm, Made
  <2>. QED
    BY <2>1, <2>2, <2>3, <2>4, <2>5 DEF LastOfItsForm
<1>9. WaitedForOrAbandoned'
  BY <1>1, <1>2, <1>5, <1>6 DEF WaitedForOrAbandoned, HearError, Made
<1>. QED
  BY <1>4, <1>7, <1>8, <1>9

\* A reload: every call under way is lost, and no form waits.
LEMMA ReloadKeeps == FormInv /\ Reload => FormInv'
<1>. SUFFICES ASSUME FormInv, Reload PROVE FormInv'
  OBVIOUS
<1>. USE SendFormAssumption DEF FormInv
<1>1. FormTypeOK'
  BY DEF FormTypeOK, Reload
<1>2. Made' = Made
  BY DEF Made, Reload
<1>3. \A c \in Call : heard'[c] = IF c \in Made /\ heard[c] = "nothing" THEN "loss" ELSE heard[c]
  BY DEF Reload
<1>4. CallsInOrder' /\ HeardIsTrue'
  BY <1>2, <1>3 DEF CallsInOrder, HeardIsTrue, Reload
<1>5. LastOfItsForm'
  BY <1>2, <1>3 DEF LastOfItsForm, Reload, CallsOf, Made
<1>6. WaitedForOrAbandoned'
  <2>1. \A c \in Made' : heard'[c] # "nothing"
    BY <1>2, <1>3 DEF Made
  <2>. QED
    BY <2>1 DEF WaitedForOrAbandoned
<1>. QED
  BY <1>1, <1>4, <1>5, <1>6

LEMMA NextForm == FormInv /\ [FormNext]_formVars => FormInv'
<1>. SUFFICES ASSUME FormInv, [FormNext]_formVars PROVE FormInv'
  OBVIOUS
<1>1. CASE OpenForm \/ CloseForm
  <2>1. FormTypeOK'
    BY <1>1, SendFormAssumption DEF OpenForm, CloseForm, TakeAway, FormInv, FormTypeOK
  <2>2. 0 \notin sending
    BY DEF FormInv, FormTypeOK, Form
  <2>. QED
    BY <1>1, <2>1, <2>2, ScreenKeeps DEF OpenForm, CloseForm, TakeAway
<1>2. ASSUME NEW f \in Form, SubmitInvalid(f) \/ SuccessTimerFires(f) PROVE FormInv'
  <2>1. FormTypeOK'
    BY <1>2, SendFormAssumption
       DEF SubmitInvalid, SuccessTimerFires, TakeAway, FormInv, FormTypeOK
  <2>. QED
    BY <1>2, <2>1, ScreenKeeps DEF SubmitInvalid, SuccessTimerFires, TakeAway
<1>3. CASE UNCHANGED formVars
  <2>1. FormTypeOK'
    BY <1>3 DEF formVars, FormInv, FormTypeOK
  <2>. QED
    BY <1>3, <2>1, ScreenKeeps DEF formVars
<1>. QED
  BY <1>1, <1>2, <1>3, SubmitKeeps, DecideKeeps, HearPaidKeeps, HearErrorKeeps, ReloadKeeps
     DEF FormNext, HearAnswer

\* What the page has heard, what the server has done and what each form shows agree,
\* through closing, reopening, reloading and late answers.
THEOREM FormInvariant == FormSpec => []FormInv
BY InitForm, NextForm, PTL DEF FormSpec

\* Money is sent again only after a success that was shown, a lost answer, or a form
\* taken away while it was sending (client/src/components/SendMoneyModal.jsx:147-191,
\* client/src/api/client.js:57).
THEOREM PaysAgainOnlyForAReason == FormSpec => []PaysAgainForAReason
<1>1. FormInv => PaysAgainForAReason
  <2>. SUFFICES ASSUME FormInv, NEW c \in Made, NEW d \in Made, server[c] = "paid", c < d,
                       heard[c] # "loss", calls[c] \notin abandoned
                PROVE  heard[c] = "success" /\ calls[c] # calls[d]
    BY DEF PaysAgainForAReason
  <2>1. c \in Call /\ heard[c] # "refusal"
    BY DEF FormInv, HeardIsTrue, Made
  <2>2. ~ (d <= c)
    BY DEF Made, Call
  <2>3. heard[c] # "nothing"
    BY <2>2 DEF FormInv, WaitedForOrAbandoned
  <2>. QED
    BY <2>1, <2>3 DEF FormInv, FormTypeOK, LastOfItsForm
<1>. QED
  BY <1>1, FormInvariant, PTL

\* "Transfer Complete" is of a payment the server has made, the form's last call
\* (client/src/components/SendMoneyModal.jsx:180-182).
THEOREM CompleteIsTrue == FormSpec => []CompleteMeansPaid
<1>1. FormInv => CompleteMeansPaid
  <2>. SUFFICES ASSUME FormInv, NEW f \in done
                PROVE  /\ f \notin sending
                       /\ \E c \in PaidCalls(f) :
                            heard[c] = "success" /\ \A b \in CallsOf(f) : b <= c
    BY DEF CompleteMeansPaid
  <2>1. f \notin sending
    BY DEF FormInv, LastOfItsForm
  <2>2. PICK c \in CallsOf(f) : heard[c] = "success"
    BY DEF FormInv, LastOfItsForm
  <2>3. c \in PaidCalls(f)
    BY <2>2 DEF FormInv, HeardIsTrue, PaidCalls, CallsOf, Made
  <2>4. \A b \in CallsOf(f) : b <= c
    BY <2>2 DEF FormInv, LastOfItsForm, CallsOf, Made, Call
  <2>. QED
    BY <2>1, <2>2, <2>3, <2>4
<1>. QED
  BY <1>1, FormInvariant, PTL
===============================================================================
