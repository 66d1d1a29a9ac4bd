# FinPay API: a TLA+ verification project

FinPay is a Node.js/Express payment API on PostgreSQL (through Prisma) and
Redis, with a React client. Users have one wallet each, send each other money,
and top their wallets up from a system account. This directory holds TLA+
models of the program, the TLC configurations that check them on small
instances, and proofs of the most important results for instances of any size.

File names below are relative to the repository's root (`src/services/...`,
`prisma/...`, `client/...`, `docs/...`).

## 1. Inventory

| Component | State | Operations | Talks to |
|---|---|---|---|
| Transfers `src/services/transaction.service.js` | locals of a call | `sendMoney` | database |
| Top-ups and account reads `src/services/account.service.js` | locals of a call | `topUp`, `getAccount` | database, Redis (cache busting) |
| Transaction history `src/services/transaction.service.js` | none | `getTransactionHistory`, `getTransaction` | database, cache |
| Database `prisma/schema.prisma`, migrations | `accounts`, `transactions`, `ledger_entries`, `users`, `audit_logs`; row locks and open transactions | statements of the services, commit, rollback | |
| Error handler `src/middleware/errorHandler.js` | none | error to HTTP status | all handlers |
| Idempotency `src/middleware/idempotency.js` | Redis `idempotency:<user>:<key>`, 24 h | look up, replay, intercept `res.json` and store | Redis, transfers |
| Response cache `src/middleware/cache.js` | Redis `cache:<url>:<user>`, 5 s and 15 s | look up, intercept and store; `topUp` deletes | Redis, account and history reads |
| Rate limiter `src/middleware/rateLimiter.js` | Redis counters with a window | `increment` (`decrement`, `resetKey` have no caller) | Redis, express-rate-limit |
| Registration `src/services/auth.service.js` | users, accounts | `register` | database |
| Sessions `src/services/auth.service.js`, `src/middleware/auth.js`, `src/routes/auth.routes.js` | JWTs in clients' hands, Redis `blacklist:<token>`, 7 days | `login`, `authenticate`, logout | database, Redis |
| Audit log `src/middleware/auditLogger.js` | `audit_logs` | write a row after the response | database |
| Redis wrapper `src/config/redis.js` | connection | `get`, `set`, `del`: errors become `null` | Redis (`allkeys-lru` in docker-compose) |
| Server `src/server.js` | listening socket, shutdown timer | migrate, listen, graceful shutdown, forced exit | everything |
| Client, payments `client/src/pages/Dashboard.jsx`, `client/src/components` | form flags, timers, page, balance, rows | submit a transfer, top up, reload, turn pages | API |
| Client, session `client/src/App.jsx`, `Login.jsx`, `Register.jsx`, `api/client.js` | `localStorage` shared by tabs; page and user of a tab | sign in, sign out, 401 interceptor | API |
| Seed `prisma/seed.cjs` | database rows | upsert users and transactions, insert audit rows | database |
| Metrics, logging, docs, CI | counters, log lines | | observation only |

What is hard about it:

* **Concurrency.** Requests interleave at every `await`. `sendMoney` checks the
  balance before its database transaction and again inside it; transactions
  meet on row locks, on unique indexes and in deadlocks. Redis counters and
  cache entries are read and written in separate steps. In the browser, answers
  come in any order to forms that have been left, and tabs share one store.
* **Failure.** A statement may fail after earlier ones ran; Prisma times out an
  interactive transaction; a COMMIT may take effect without the server hearing
  of it; the process may die anywhere; Redis errors are swallowed and entries
  may be evicted.
* **Ordering.** Responses are stored in Redis and audited after the commit, in
  steps of their own; a cache entry may be stored after it was invalidated; a
  row's `createdAt` is older than the moment it can be seen.
* **Time.** Windows in milliseconds are kept by TTLs in seconds; reloads are
  timed against the life of a cache entry; a blacklist entry must outlive its
  token.
* **Arithmetic.** Amounts are decimals of any precision, columns keep two
  decimals; page numbers come from a query string.

What makes each component correct:

* Transfers and top-ups: no customer overdrawn; all or nothing; money neither
  made nor lost; the ledger explains the balances; an answer tells the truth;
  every request is answered. In one sentence: they look like one indivisible
  payment after another (`Bank`).
* Idempotency: a key pays once, and what is replayed is the truth.
* Cache and dashboard: answers are old by a bounded time; a payment is seen in
  the end; the list does not say it is loading when it is not.
* Rate limiter: nobody is refused who has not used the limit up, and no window
  is for ever.
* Registration: one user per address, each with a wallet; it looks like a
  directory that gives addresses away one by one (`Directory`).
* Sessions: expired, deactivated and signed-out stay out; nobody is refused for
  somebody else.
* Audit and shutdown: at most one row per payment, and none goes without it but
  for a known reason; a clean exit leaves nobody waiting; a shutdown ends.
* History: reading on to the end skips nothing without a reason.
* Browser: a tab acts for the user it shows; a session refused with 401 is
  forgotten.

## 2. Modules

| Module | Models | Kind |
|---|---|---|
| `Money` | what a `numeric(18,2)` column keeps of an amount | operators |
| `Bank` | what the payment services promise | abstract specification |
| `Database` | the tables, locks and transactions of PostgreSQL the services rely on | external component |
| `Transfers` | `sendMoney` and `topUp`, statement by statement, with their failures | extends `Database` |
| `Idempotency` | `POST /transactions/send` from the middleware to the client's ears | extends `Transfers` |
| `ResponseCache` | the cache in front of two reads, and the payments that age its copies | detailed specification |
| `Dashboard` | the dashboard's loads, timers and pages on top of the cache | extends `ResponseCache` |
| `RateLimiter` | one counter under concurrent increments | detailed specification |
| `Directory` | what registration promises | abstract specification |
| `Registration` | `register`, statement by statement | detailed specification |
| `Sessions` | login, authenticate, logout, blacklist | detailed specification |
| `Server` | a process, its requests, connections and audit rows | detailed specification |
| `SendForm` | the send form, its calls, keys and timers | detailed specification |
| `History` | paging, and opening one payment | detailed specification |
| `Browser` | the session in tabs | detailed specification |
| `MC...` | constants, calls and symmetry of the instance TLC checks | model checking |
| `PaymentProofs` | `Transfers` with `Bank` and `Database`, and `Idempotency` | proofs |
| `DashboardProofs` | `ResponseCache`, `Dashboard` and `SendForm` | proofs |
| `RateLimiterProofs`, `RegistrationProofs`, `SessionsProofs`, `ServerProofs`, `BrowserProofs`, `HistoryProofs` | the module each is named for | proofs |

Definitions introduced by a comment "Mutant of X" are not part of a model: each
is X with a plausible bug in it, used to show that a property notices.

### Database, Transfers, Bank

PostgreSQL is not the repository's code. `Database` models what the services
depend on: under READ COMMITTED an `UPDATE` of a row that another open
transaction has updated waits for that transaction and then works on the newest
committed version (`lock`, `working`, `balance`); inserts are private until
commit (`inserted`, `entries`); the unique index makes an insert wait for an
open transaction with the same key and fail after a committed one. Foreign-key
checks lock nothing the updates have not locked already. `lock` names the
request that owns the open transaction, since no request opens two. `ledger[a]`
is in commit order; the account's row stays locked from update to commit, so
this is the order of the updates.

A request is one call of a service: its arguments (`call`), its next statement
(`pc`), the two balances the code keeps from its updates (`debited`, `credited`)
and its HTTP answer (`status`).

| Action | Code |
|---|---|
| `SendMoney` | transaction.service.js 12-69: amount checks, reads, stale balance check |
| `DebitSender`, `GuardFails`, `CreditReceiver`, `RecordTransfer`, `LedgerDebit`, `LedgerCredit` | 71-135, one per statement; the guard of line 79 is the condition of the credit |
| `TopUp` | account.service.js 39-73 |
| `DebitSystem`, `CreditUser`, `RecordTopUp`, `LedgerIssued`, `LedgerReceived` | 76-127, one per statement |
| `Commit`, `Respond` | the callback's return, the controller's response |
| `DuplicateKey` | P2002, answered 409 by errorHandler.js 17 |
| `DeadlockVictim`, `TransactionTimesOut` | PostgreSQL aborts a wait cycle; Prisma's `maxWait`/`timeout` or a lost database; 500 |
| `CommitUnheard` | the COMMIT takes effect, the connection breaks; 500 |
| `Crash` | a server process dies with any set of the requests it serves |

Checks before the transaction are one step: only the sender's balance read
there can change, and it is compared and dropped at once. The gap that matters,
between this check and the debit, is there. A top-up's key is
`topup-<user>-<millisecond>`; the millisecond is an argument of the call.

Assumptions (`TransfersAssumption`, `DatabaseAssumption`): there are finitely
many accounts; opening balances are
whole cents and not negative for customers; nobody is logged in as the system
user, to which the seed gives a random password; the minimum is positive.
Amounts are in units of which `Cent` make a cent: any number for the proofs, 4
for the runs, so that there are quarter cents. `Stored` rounds to the nearest
cent, halves away from zero, as `numeric(18,2)` does. So a balance that falls
short by less than half a cent is stored as 0.00, which is not below zero, and
the guard lets the payment pass: `GuardSeesCommittedBalance` says so.

### Idempotency

A transfer first passes the middleware, then makes the steps of `Transfers`,
then waits for its response to be stored (`stage`). `stored` is Redis, per user
and key; `reply` is what the client has heard, and of whose transaction.

| Action | Code |
|---|---|
| `RefuseKey`, `Replay` | idempotency.js 10-20; 28-36 |
| `FirstTime`, `LookUpFails` | 26, 38-65; `redis.get` turns an error into `null` |
| `Store`, `StoreFails` | 41-62; `redis.set` turns an error into `null` |
| `ServiceStep`, `ServerDies`, `Deliver` | the controller and the service; the answer heard or lost |
| `Forget` | the 24 hours end, or Redis evicts the entry |

Nothing orders requests with one key: a repetition may come while the first is
under way. The code reads the header `idempotency-key`; README.md 120 calls it
`X-Idempotency-Key`.

### ResponseCache and Dashboard

What an account or a page of history says is abstracted to the number of
payments it includes, and for how long it has been out of date. A GET that
misses looks up, queries and stores in three steps (`Miss`, `Query`,
`StoreCopy`: cache.js 18-41); `Hit` is lines 18-24; a top-up commits and then
deletes the account's copy and the first page's, one after the other
(`TopUpCommits`, `Bust`, `TopUpAnswers`: account.service.js 129-136); a transfer
deletes nothing (`TransferCommits`).

`Dashboard` composes this with the page: effects and timers queue requests
(`toAsk`), `SendRequest` sends them, `TakeAnswer`/`AnswerLost` are the `then`
and `catch` of `loadAccount` and of TransactionList's effect with their
`finally`; `HandleTopUp`, `TopUpHeard`, `TopUpUnheard` and `HandleSendSuccess`
are Dashboard.jsx 180-209, `TimerFires` the reload 600 ms later, `ChangePage` the
Prev and Next buttons. A transfer commits (`SendCommits`) some time before the
form reports it, which it does 1.8 s after the answer, or never (`SendUnheard`).
Requests and timers die with the page (`Remount`), which an impatient user
reloads before it has settled when `Faults` holds.

### RateLimiter

One counter: the requests of one client under one limiter. `Read` is line 43,
`Increment` lines 44-67 (`OpenWindow` or `CountHit`), with the clock read some
time between. Time is in half seconds, so that `Math.ceil` to seconds differs
from the identity. A failed `get` is `null`, so it opens a new window over the
old one; a failed `set` looks like a successful one. The three limiters differ
in their limits only.

### Registration and Directory

`Check` is the look-up, with the hash after it; `CreateUser`, `CreateWallet`,
`Commit` are the transaction; `EmailTaken` is P2002 at the unique index, where an
insert waits for another open transaction with that address (`Contended`);
`Fail`, `CommitUnheard` and `Crash` are the ways to fail. Addresses come in
spellings that `Normalise` (lower case, trimmed) maps to one. The refinement
maps every address to the request whose user has it.

### Sessions

A token is its user and the second it was signed in, which is all `jwt.sign` is
given. `LookUp`, `Verify`, `FindUser` are the stages of `authenticate`, with the
clock, other requests, the operator (`Deactivate`) and Redis (`LoseEntry`) in
between; `Login`, `Issue`, `WrongPassword` are `login`; `Revoke` and `LoggedOut`
the logout route. Failures of the database, which end a request with 500 and
decide nothing, are left out. For users in `Unlucky` Redis may lose entries and fail; for
the others it keeps what it is given. `bars` remembers what spoke against the
token when the request began.

### Server

`Arrive` to `Reply` are the request on its way through idempotencyCheck, audit
and the handler; the handler's commit may go unheard (`PayUnheard`); `Send`
sends an answer, after which `WriteRow` writes the audit row, if there was still
a connection for 'finish' to come. `Listen` to `DisconnectFails` are server.js
27-97 with the shutdown's timer; `HangUp` is a client or keep-alive closing a
connection, which `server.close` waits for; `Kill`, `UnhandledRejection` and
`Restart` end and begin processes. Register, login and logout have no audit
middleware, so there is nothing to audit there.

### SendForm, History, Browser

`SendForm`: forms are opened, submitted (each call with a new key), closed,
reloaded; the server pays or refuses each call (`Decide`, as `Idempotency` has
it: once per key) and its answer is heard or lost; `onSuccess` comes 1.8 s later
and closes whatever form is there. Cancel is not disabled while the form says
"Sending...": `abandoned` remembers the forms that were taken off the screen
(`TakeAway`) with an answer to come.

`History`: payments get their `createdAt` at `Begin` and are seen from `Commit`;
a page is `FindMany` and `Count` in either order, then `Respond`, which may be
stored in the cache; `FromCache`, `Forget` and `Fail` are the rest. `Load` is
the effect of `[page, refresh]` in TransactionList.jsx: `StartReading` when it
mounts, `AskNext` and `AskPrev` for its buttons (`ButtonsOf`), `Refresh` after a
payment. The page selected stays selected after a failure, while rows and
buttons stay those of the page shown before, so Next then goes on past a page
that was never shown. `PageOf`, `SafeLimit`, `SafePage`, `TotalPages`, `HasNext`
are the arithmetic; `StatusOf` is `getTransaction`.

`Browser`: `store` is `localStorage`; `Load` is App's effect; `HandleLogin` runs for
any answer of any form, also one that was left; `Interceptor401` empties the
store on every 401 and leaves the page (`Refused`, `WrongPassword`); a user who
has been deactivated (`Deactivate`) is answered 403, which the interceptor lets
pass (`Forbidden`); `SignOut` tells the server nothing (the
dashboard does not import `authAPI`, and the catch swallows that).

## 3. What TLC checks

| Run | Question | Checked |
|---|---|---|
| `services` | Do requests that wait for each other, meet in the system account or are refused keep the books right, look like the bank, and end? | `TypeOK`, `NoOverdraft`, `LockingInv`, `BookInv`, `AllOrNothing`, `LedgerExplainsBalances`, `AnswersAreTrue`, `MoneyConserved`, `ImplementsBank`, `EveryRequestEnds` |
| `replay` | Does a key pay once, is every reply true, and does the guard know the balance it needs, when requests repeat and cross and Redis fails and forgets? | `ReplayInv`, `RepliesAreTrue`, `KeyPaysOnce`, `ConflictMeansPaid`, `GuardSeesCommittedBalance` |
| `limiter` | Is anybody refused undeservedly, does any window outlive its reset, when increments race and Redis fails? | `RefusalsDeserved`, `WindowsEnd` |
| `dashboard` | Through overlapping loads, top-ups and faults: does the list wait for a reason, is what it is told not too old? | `SpinnerHasReason`, `StalenessBounded` |
| `dashboard_live` | Does the user see a payment in the end? | `PaymentShows` |
| `registration` | Do racing registrations look like a directory, and end? | `OneUserPerAddress`, `EveryUserHasWallet`, `AnswersAreTrue`, `EveryRegistrationEnds`, `ImplementsDirectory` |
| `sessions` | Who is let in, who is refused? | `StaleStayOut`, `LoggedOutStayOut`, `RefusalsDeserved` |
| `server` | What do hang-ups, shutdowns, crashes and restarts leave of payments and their rows? | `CleanExitLeavesNobody`, `OneRowPerPayment`, `UnauditedForAReason`, `ShutdownEnds` |
| `form` | When does a form pay twice, is "Transfer Complete" true, does every form end? | `PaysAgainForAReason`, `CompleteMeansPaid`, `FormsEnd` |
| `history` | What can be missed reading page by page, back and forth and past failures, does the arithmetic cut every list exactly? | `SkippedForAReason`, `PagesPartition`, `OpensWhatItLists` |
| `browser` | For whom does a tab act, does a refused session come back? | `ActsAsShown`, `RefusedNotStored` |
| `subcent_sum` | Is money conserved with fractions of a cent? (No: a finding) | `MoneyConserved` violated |

**Bounds.** `services`: five accounts, balances of a few cents, a minimum of 1
cent and a maximum of 3 (4 and 12 units) that stand for R1.00 and R50,000.00. Three requests take
their calls from one of three families: requests that wait for one row, two rows
in opposite order, or one key without a common row; top-ups of one millisecond
with transfers to and from the system account, which goes below zero; and every
early return beside calls that pass. Two requests already produce a stale check,
a lost race, a duplicate key and a deadlock; the third runs against the remains
of such a pair. Requests are interchangeable and calls are state, so of the
orders of three calls one is enough (`MeetingInit`). `replay`: the original, a
repetition, and a third that repeats again, misuses the key for another amount,
uses it as another user, brings the money back in between, or tops up where no
system account was seeded. `limiter`: limit 2, windows of 2 s, four requests,
three at once, over two and a half windows. `dashboard`: copies live one tick
(account) and two (history), a request one, two pages, two requests at once, one
payment; what differs are the orders of a fill, a payment and an invalidation, which need two
requests. `registration`: two spellings of one address and another address.
`sessions`: tokens and entries live two ticks of a clock with three, so that one
token is over while a later one is not; four requests are a login, a second
login, a logout and a request. `server`: a payment, its retry, another payment.
`form`: two forms, four calls. `history`: four payments, one between strangers;
pages of one row, two moments of `createdAt` so that there are ties and older
rows that commit late; four loads of pages up to the fourth, enough to read three
pages with one of them failing, to go back, and to begin again on cached pages.
`browser`: two tabs, two people, two tokens, two requests per tab under way.

**Symmetry** is over requests, tabs, people or payments that are
interchangeable, and only where no liveness property is checked.

**Fairness.** `services`: weak fairness of each request's statements, because
Node's event loop runs every ready callback and PostgreSQL grants a free lock,
and of the deadlock detector; weak is enough because requests are finitely many,
so nobody is overtaken for ever. `registration`: the same. No failure is fair and
no timeout is needed for a request to end. `dashboard_live`: servers, network
and timers go on, time passes (strongly: it may be held up by what is due and
must then go on), and the user looks again and again; Redis works, since a
client that never gets an answer sees nothing. `server`: only the shutdown's
timer has to fire; handlers may hang, clients may stay. `form`: the server
decides or the connection ends, callbacks and timers run.

`CHECK_DEADLOCK FALSE` stands where the instance is finite and stops when all
requests, calls or time are used up; `server` and `browser` never stop, and
deadlock is checked there.

## 4. What is proved

TLAPS checks the following for any constants that satisfy the modules'
assumptions: every invariant the runs check, both refinements, and some results
no run states. Each `...Inv` named here is inductive; TLC has checked it too, as
an invariant of the run's instance, before it was proved.

**Payments** (`PaymentProofs`)

1. `LockingInvariant`: `LockingInv` is inductive. `NoOverdraft` alone is not: it
   says nothing of the uncommitted versions that a commit publishes. The
   strengthening says who holds which row (`LocksHeld`), what an open transaction
   has made of the committed balances (`WorkingVersions`), that a request past its
   checks has two different accounts and a positive amount (`ChecksPassed`), and
   that committed balances are whole cents (`BalancesStored`). `TypeCorrect` and
   `NeverOverdrawn` follow, for amounts however fine. `GuardIsExact` does too: the
   guard passes if and only if the committed balance covers the amount or falls
   short of it by less than half a cent; in whole cents, if and only if it covers
   it (`GuardIsExactOnWholeCents`).
2. `BookInvariant`: rows are private from insert to commit, committed rows are
   those of requests past their commit, no key is on two rows. `AnswersTrue`
   follows.
3. `TransfersImplementBank`: for whole-cent amounts every commit is a `Pay` step
   of `Bank`, every other step leaves balances and book unchanged. The assumption
   cannot be dropped: `subcent_sum` shows why.
4. `MoneyIsConserved`, for whole-cent amounts: by 3 a step moves one amount from
   one account to another or nothing, so it is left to show that the total does
   not notice (`MovedNotLost`). The total is a fold over the accounts, which are
   any finite set. There is a function that has the sum over every set of
   accounts whichever account is taken out first (`SumExists`), it is what the
   fold computes (`SumIs`), and it depends on nothing but the values in the set
   (`SameSum`).
5. `WholeOrAbsent`, `LedgerExplainsAll`: what an open transaction has written to
   the ledger follows from its statement (`PrivateEntries`), because the rows
   whose balances it quotes stay locked to the commit. `AllOrNothing` needs no
   assumption; `LedgerExplainsBalances` needs whole-cent amounts.
6. `EndpointImplementsTransfers`: the middleware only restricts the service, so
   1-5 hold of the endpoint. `PaysOnce` is then the uniqueness of keys; `ReplayInv`
   (what Redis holds is the response of a committed payment of its user and key)
   is inductive on top of it and gives `RepliesTrue` and `RepliesOfOnePayment`.

**Limiter, registration, sessions**

7. `LimiterInvariant`: every count in Redis or in a request's hands is vouched
   for by requests that were told the lower ones, whatever is lost or
   overwritten, and a counter's life is bounded by its window, a second and two
   latencies. `NoUndeservedRefusal` and `NoWindowOutlivesItsReset` follow.
8. `RegistrationInvariant`: a request's drafts follow from its statement, the
   index holds at most one undecided row per address and none beside a committed
   one. `AddressesAreUnique`, `NoOrphans`, `AnswersTrue` and
   `RegistrationImplementsDirectory` follow.
9. `SessionsInvariant`: an entry is written at or after its token's issue and
   lives at least as long as a token (an assumption, `TokenLife <= BlacklistTTL`:
   both are 7 days), so it outlives it; what speaks against a token never goes
   away; each stage of `authenticate` rules one reason out. `StaleNeverAdmitted`
   and `RefusedForAReason` hold whatever Redis does, `LoggedOutNeverAdmitted` of
   users outside `Unlucky`.

**Dashboard and form** (`DashboardProofs`)

10. `CacheInvariant`: a fresh answer is no older than its request, a copy no older
    than the request that stored it and the time it has lived; `NeverTooStale` and
    `AnswersAreOwn` follow.
11. `DashboardImplementsCache`: with the page on top, every step is one of the
    cache or leaves it alone, so 10 holds there (`DashboardNeverTooStale`).
    `SpinnerIsHonest` needs besides that the page waits only for requests that
    are under way (`AwaitedAreUnderWay`): otherwise an answer could be awaited
    that never comes.
12. `FormInvariant`: calls are made in order, the page hears what the server did
    (`HeardIsTrue`), a call that is waited for or was heard to succeed is the
    last of its form (`LastOfItsForm`), because the form cannot be submitted then,
    and a call waited for is the last of all unless its form was taken off the
    screen (`WaitedForOrAbandoned`). `PaysAgainOnlyForAReason` and
    `CompleteIsTrue` follow.

**Server, history, browser**

13. `ServerInvariant`: from the callback of `server.close` on there is no
    connection and no way to one (`NobodyConnected`), which gives
    `CleanExitIsClean`; `RowsArePayments` needs that no two requests get past the
    payment with one key (`OnePayerPerKey`) and that saved answers are of payments
    (`SavedArePaid`), so that a replay is never audited as a payment.
    `RowsAreNotForgotten` adds that an answer is the last that is done of a request
    (`AnswersComeLast`), so a payment without a row has met one of the reasons.
14. `HistoryInvariant`: to read on misses nothing because of `PushedDown`. In an
    order by `createdAt` the place of a row that has no tie is one more than the
    number of newer rows. That number never falls, since nothing is deleted; so a
    row that was not on the pages shown is behind them, and when a page says that
    there is no next one, nothing is behind it. Until the reading is disturbed by
    a cached page, a failed one or a payment in the middle of an answer, the page
    selected is at most one past those shown, whichever way the reader turns
    (`OneByOne`), and page and total are of the rows there are now
    (`QueriesAreCurrent`). `NothingSkipped` and `ListedOpens`
    follow. The number of payments is any, and not zero.
15. `PagesAreAPartition`: the pages of any list, for any integer limit and page
    asked for, put together are the list (TLC checks a few limits). Consecutive
    slices are joined one by one, and whatever satisfies the recursive equation of
    the concatenation is what `FlattenSeq` computes (`FlattenIs`).
16. `BrowserInvariant`: the two items of the store are of one session and nobody
    holds a token before it is issued, so a late answer can only bring a token
    that the server has not refused with 401 (a deactivated user's session, which
    is answered 403, stays in the store). `TabsActAsShown` and `RefusedStaysOut` follow.

4 and 15 are about data that is folded up by recursion. The library's induction
theorems take an operator and cannot be used here, but its minimum principle
takes a set: of the sets, or numbers, for which a statement fails one is least
(`LeastSet`, `LeastNumber`), and the recursive equation at that one refutes it.

Only model-checked: liveness under fairness (`EveryRequestEnds`,
`EveryRegistrationEnds`, `PaymentShows`, `ShutdownEnds`, `FormsEnd`), which the
installed provers cannot do. The inductive invariants that no run lists
(`LedgerInv`, those of 7 to 14 and 16) were checked with TLC on the run's
instance and are now only proved.

## 5. Findings

**Sub-cent amounts make or lose money** (`subcent_sum`). Nothing limits an amount
to two decimals; the column rounds the decrement and the increment separately,
so R1.005 takes R1.00 and gives R1.01. No customer is overdrawn by it, and
payments stay all or nothing (`NeverOverdrawn`, `WholeOrAbsent`).

**What the code does not guarantee.** The modules also state expectations that a
document, a comment or a text of the client raises and that the code does not
meet. No run lists them; each is violated when it replaces the properties of the
configuration named, with the constants changed as noted.

| Expectation, and where it comes from | Configuration | What happens |
|---|---|---|
| `ShortfallIs422`, transaction.routes.js 56-57, docs/PHASE-7.md 140 | `MCTransfers_services` | the guard's error (transaction.service.js 80) has no `statusCode`: a transfer that loses the race is answered 500 |
| `RetryGetsOriginal`, docs/PHASE-6.md 112 "returns the original response" | `MCIdempotency_replay` | a repetition that looks up before the response is stored is answered 422 or 409; no money moves twice |
| `KeysScopedPerUser`, docs/PHASE-6.md 121 | `MCIdempotency_replay` | true in Redis only: another user's key is refused with 409 by the unique index |
| `CountersAccurate`, README.md 126 | `MCRateLimiter_failing`, `RedisFails = FALSE` | two requests read one count and write the same increment back; with `MaxOpen = 1` it holds |
| `LimitHolds`, rateLimiter.js 106 | `MCRateLimiter_failing`, `RedisFails = FALSE`, `MaxOpen = 1` | between the end of a window and the expiry of its key, rounded up to a second, hits are not stored |
| `TopUpShows`, account.service.js 132 "so balance updates immediately" | `MCDashboard_screen`, `Faults = FALSE` | a GET that read before the commit stores after the deletion |
| `CacheExpiredByReload`, Dashboard.jsx 188 "Wait for cache to expire" | `MCDashboard_screen`, `Faults = FALSE` | 600 ms are less than 5 s: a copy of page 2, or one stored late, is still there |
| `LoginHelps`, auth.js 22 "Please login again" | `MCSessions_sessions`, without `SYMMETRY`, as a `PROPERTY` | a login in the second the revoked token was issued in returns that very token |
| `PaymentsAudited`, auditLogger.js 5 "every state-changing action" | `MCServer_lifecycle` | a client that hangs up before the answer, or a commit that is not heard of, leaves no row, nor does the replay |
| `CleanExitWaits`, server.js 65 "Wait for in-flight requests" | `MCServer_lifecycle` | `server.close` waits for connections, not for a handler whose client has gone |
| `OneFormPaysOnce`, transaction.routes.js 33 | `MCSendForm_sending` | sending again after a lost answer uses a new key; Cancel while sending and a new form do the same with no answer lost (SendMoneyModal.jsx 258-264), but that is two forms |
| `NoNextMeansEnd`, docs/PHASE-7.md 104-111 | `MCHistory_reading` | a payment between the count and the page pushes a row behind a last page |
| `WrongPasswordIsTold`, Login.jsx 237-238 | `MCBrowser_tabs` | the interceptor reloads the page on that 401, and the message is gone |

Four more need no expectation to be seen. A page of the history that could not be
loaded is skipped by Next (TransactionList.jsx 86, 147-150; `SkippedForAReason`
names it). A deactivated user's session stays in the browser and its dashboard
comes back, since the interceptor looks at 401 only (auth.js 42-44, client.js
34). The dashboard's sign-out never reaches the server (section 2, `Browser`).
And docs/PHASE-9.md 59 says a rerun of the seed "updates
the account balance back to the seed value", while every upsert has
`update: {}`, and its audit rows are inserted again (seed.cjs 161-188).

## 6. Not modelled

* The steps of the seed script: it is run by hand before the system is used. What
  it leaves (opening balances, the system account, its user's random password)
  is in `Transfers`. The histories begin empty (`DatabaseInit`): the six
  transactions it leaves have no ledger entries and keys no client makes.
* Shapes of emails, names and passwords: they decide no state. The amount ranges
  of the validators are checked again by the services and are in their refusals.
* `rateLimiter.decrement` and `resetKey` (never called under the options used),
  `getAccountById`, connecting to and quitting Redis, the Upstash client's own
  parsing of JSON (the models follow the ioredis path).
* Routing and headers of `app.js`, logging and metrics (read by nobody), Swagger,
  CI, styling.
