------------------------------- MODULE Transfers -------------------------------
(***************************************************************************)
(* Concurrent transfers (sendMoney, src/services/transaction.service.js)   *)
(* and top-ups (topUp, src/services/account.service.js) on the database.   *)
(*                                                                         *)
(* Every statement of a service is a step, so requests interleave between  *)
(* any two of them: the checks before the database transaction read what   *)
(* may be stale when the transaction starts, and the statements inside it  *)
(* wait for each other's row locks.  What can go wrong on the way is       *)
(* modelled too: a unique-index violation, a deadlock, an interactive      *)
(* transaction that Prisma times out, a lost answer to COMMIT and the      *)
(* death of a server process.                                              *)
(*                                                                         *)
(* A request is what reaches the service: it is past authentication, the   *)
(* validators and the idempotency middleware.                              *)
(***************************************************************************)
EXTENDS Database, Functions

CONSTANTS
  SystemAccount,  \* the account of system@finpay.dev, or NoAccount if not seeded
  NoAccount,      \* what a lookup of an unknown user finds
  Calls,          \* the calls a request may make
  MinTransfer,    \* R1.00, transaction.service.js:20
  MaxAmount       \* R50,000.00, transaction.service.js:26, account.service.js:47

VARIABLES
  call,           \* the arguments of each request
  pc,             \* the statement each request executes next
  debited,        \* balance returned by the update of the paying account
  credited,       \* balance returned by the update of the receiving account
  status          \* the HTTP status each request has been answered with

requestVars == <<call, pc, debited, credited, status>>
vars == <<databaseVars, requestVars>>

CallRecord ==
  [op : {"send", "topUp"},
   user : Account \cup {NoAccount},  \* the caller's account
   to : Account \cup {NoAccount},    \* the account found for receiverEmail
   amount : Int,
   key : Key]                        \* for a top-up, the key its millisecond makes

\* Nobody can log in as the system user: seed.cjs gives it a random password.
\* Wallets open with 0.00 or what the seed gives them.
ASSUME TransfersAssumption ==
  /\ NoAccount \notin Account
  /\ SystemAccount \in Account \cup {NoAccount}
  /\ Calls \subseteq CallRecord
  /\ \A c \in Calls : c.op = "topUp" => c.user = NoAccount \/ c.user # SystemAccount
  /\ MinTransfer \in Int /\ MinTransfer > 0
  /\ MaxAmount \in Int
  /\ \A a \in Account \ {SystemAccount} : OpeningBalance[a] >= 0

Statement ==
  {"arrive", "debit", "credit", "record", "ledgerOut", "ledgerIn", "commit",
   "respond", "done"}

\* Where a request is inside prisma.$transaction(...).
InTransaction == {"debit", "credit", "record", "ledgerOut", "ledgerIn", "commit"}

Status ==
  {"none", "200", "201", "400", "404", "409", "422", "500",
   "lost"}   \* the connection went down without an answer

TypeOK ==
  /\ DatabaseTypeOK
  /\ call \in [Request -> Calls]
  /\ pc \in [Request -> Statement]
  /\ debited \in [Request -> Int]
  /\ credited \in [Request -> Int]
  /\ status \in [Request -> Status]

Init ==
  /\ DatabaseInit
  /\ call \in [Request -> Calls]
  /\ pc = [r \in Request |-> "arrive"]
  /\ debited = [r \in Request |-> 0]
  /\ credited = [r \in Request |-> 0]
  /\ status = [r \in Request |-> "none"]

Sends(r) == call[r].op = "send"
TopsUp(r) == call[r].op = "topUp"

\* The two sides of the payment a request makes.
Payer(r) == IF Sends(r) THEN call[r].user ELSE SystemAccount
Payee(r) == IF Sends(r) THEN call[r].to ELSE call[r].user

GoTo(r, statement) ==
  /\ pc' = [pc EXCEPT ![r] = statement]
  /\ UNCHANGED <<call, status>>

Answer(r, code) ==
  /\ pc' = [pc EXCEPT ![r] = "done"]
  /\ status' = [status EXCEPT ![r] = code]
  /\ UNCHANGED call

(***************************************************************************)
(* The checks before the transaction                                       *)
(***************************************************************************)

\* sendMoney's early returns, in the code's order; "none" if it passes them.
\* The balance read here is compared now and never again.
SendRefusal(c) ==
  IF c.amount < MinTransfer \/ c.amount > MaxAmount THEN "400"
  ELSE IF c.user = NoAccount \/ c.to = NoAccount THEN "404"
  ELSE IF c.user = c.to THEN "400"
  ELSE IF balance[c.user] < c.amount THEN "422"
  ELSE "none"

SendMoney(r) ==
  /\ pc[r] = "arrive" /\ Sends(r)
  /\ LET refusal == SendRefusal(call[r]) IN
       IF refusal = "none" THEN GoTo(r, "debit") ELSE Answer(r, refusal)
  /\ UNCHANGED <<databaseVars, debited, credited>>

\* topUp's early returns; the balances it reads it does not use.
TopUpRefusal(c) ==
  IF c.amount <= 0 \/ c.amount > MaxAmount THEN "400"
  ELSE IF SystemAccount = NoAccount THEN "500"
  ELSE IF c.user = NoAccount THEN "404"
  ELSE "none"

TopUp(r) ==
  /\ pc[r] = "arrive" /\ TopsUp(r)
  /\ LET refusal == TopUpRefusal(call[r]) IN
       IF refusal = "none" THEN GoTo(r, "debit") ELSE Answer(r, refusal)
  /\ UNCHANGED <<databaseVars, debited, credited>>

(***************************************************************************)
(* The transaction of sendMoney                                            *)
(***************************************************************************)

\* Mutant of DebitSender: the balance to guard is read outside the transaction.
DebitSenderReadOutside(r) ==
  /\ pc[r] = "debit" /\ Sends(r)
  /\ UpdateBalance(r, Payer(r), -call[r].amount)
  /\ debited' = [debited EXCEPT ![r] = balance[Payer(r)]]
  /\ GoTo(r, "credit")
  /\ UNCHANGED credited

DebitSender(r) ==
  /\ pc[r] = "debit" /\ Sends(r)
  /\ UpdateBalance(r, Payer(r), -call[r].amount)
  /\ debited' = [debited EXCEPT ![r] = working'[Payer(r)]]
  /\ GoTo(r, "credit")
  /\ UNCHANGED credited

\* Mutant of GuardHolds: only the stale check protects the balance.
GuardDropped(r) == TRUE

\* Step 2, the guard: only a transfer has one.
GuardHolds(r) == Sends(r) => debited[r] >= 0

\* The error carries no statusCode, so errorHandler answers 500.
GuardFails(r) ==
  /\ pc[r] = "credit" /\ ~GuardHolds(r)
  /\ Rollback({r})
  /\ Answer(r, "500")
  /\ UNCHANGED <<debited, credited>>

\* Mutant of CreditReceiver: the balance kept is the one before the credit.
CreditReceiverOldBalance(r) ==
  /\ pc[r] = "credit" /\ Sends(r) /\ GuardHolds(r)
  /\ UpdateBalance(r, Payee(r), call[r].amount)
  /\ credited' = [credited EXCEPT ![r] = working[Payee(r)]]
  /\ GoTo(r, "record")
  /\ UNCHANGED debited

CreditReceiver(r) ==
  /\ pc[r] = "credit" /\ Sends(r) /\ GuardHolds(r)
  /\ UpdateBalance(r, Payee(r), call[r].amount)
  /\ credited' = [credited EXCEPT ![r] = working'[Payee(r)]]
  /\ GoTo(r, "record")
  /\ UNCHANGED debited

\* Mutant of RowOf: the key is not stored.
RowWithoutKey(r) ==
  [id |-> r, key |-> NoRequest, sender |-> Payer(r), receiver |-> Payee(r),
   amount |-> Stored(call[r].amount)]

\* The row either service inserts.
RowOf(r) ==
  [id |-> r, key |-> call[r].key, sender |-> Payer(r), receiver |-> Payee(r),
   amount |-> Stored(call[r].amount)]

RecordTransfer(r) ==
  /\ pc[r] = "record" /\ Sends(r)
  /\ InsertTransaction(r, RowOf(r))
  /\ GoTo(r, "ledgerOut")
  /\ UNCHANGED <<debited, credited>>

WriteLedger(r, a, type, amount, balanceAfter) ==
  InsertLedgerEntry(r, a, [tx |-> r, type |-> type, amount |-> Stored(amount),
                           balanceAfter |-> balanceAfter])

\* Mutant of LedgerDebit: balanceAfter is read outside the transaction.
LedgerDebitReadOutside(r) ==
  /\ pc[r] = "ledgerOut" /\ Sends(r)
  /\ WriteLedger(r, Payer(r), "DEBIT", -call[r].amount, balance[Payer(r)])
  /\ GoTo(r, "ledgerIn")
  /\ UNCHANGED <<debited, credited>>

LedgerDebit(r) ==
  /\ pc[r] = "ledgerOut" /\ Sends(r)
  /\ WriteLedger(r, Payer(r), "DEBIT", -call[r].amount, debited[r])
  /\ GoTo(r, "ledgerIn")
  /\ UNCHANGED <<debited, credited>>

\* Mutants of LedgerCredit: the entry is forgotten; the commit is not awaited.
LedgerCreditForgotten(r) ==
  /\ pc[r] = "ledgerIn" /\ Sends(r)
  /\ GoTo(r, "commit")
  /\ UNCHANGED <<databaseVars, debited, credited>>

LedgerCreditNotAwaited(r) ==
  /\ pc[r] = "ledgerIn" /\ Sends(r)
  /\ WriteLedger(r, Payee(r), "CREDIT", call[r].amount, credited[r])
  /\ GoTo(r, "respond")
  /\ UNCHANGED <<debited, credited>>

LedgerCredit(r) ==
  /\ pc[r] = "ledgerIn" /\ Sends(r)
  /\ WriteLedger(r, Payee(r), "CREDIT", call[r].amount, credited[r])
  /\ GoTo(r, "commit")
  /\ UNCHANGED <<debited, credited>>

(***************************************************************************)
(* The transaction of topUp                                                *)
(***************************************************************************)

\* Mutant of DebitSystem: a top-up takes from nobody.
DebitNobody(r) ==
  /\ pc[r] = "debit" /\ TopsUp(r)
  /\ GoTo(r, "credit")
  /\ UNCHANGED <<databaseVars, debited, credited>>

\* The balance this update returns is not kept, and nothing guards it.
DebitSystem(r) ==
  /\ pc[r] = "debit" /\ TopsUp(r)
  /\ UpdateBalance(r, SystemAccount, -call[r].amount)
  /\ GoTo(r, "credit")
  /\ UNCHANGED <<debited, credited>>

CreditUser(r) ==
  /\ pc[r] = "credit" /\ TopsUp(r)
  /\ UpdateBalance(r, call[r].user, call[r].amount)
  /\ credited' = [credited EXCEPT ![r] = working'[call[r].user]]
  /\ GoTo(r, "record")
  /\ UNCHANGED debited

RecordTopUp(r) ==
  /\ pc[r] = "record" /\ TopsUp(r)
  /\ InsertTransaction(r, RowOf(r))
  /\ GoTo(r, "ledgerOut")
  /\ UNCHANGED <<debited, credited>>

\* systemUpdated is read again inside the transaction, which sees its own update.
LedgerIssued(r) ==
  /\ pc[r] = "ledgerOut" /\ TopsUp(r)
  /\ WriteLedger(r, SystemAccount, "DEBIT", -call[r].amount, working[SystemAccount])
  /\ GoTo(r, "ledgerIn")
  /\ UNCHANGED <<debited, credited>>

LedgerReceived(r) ==
  /\ pc[r] = "ledgerIn" /\ TopsUp(r)
  /\ WriteLedger(r, call[r].user, "TOPUP", call[r].amount, credited[r])
  /\ GoTo(r, "commit")
  /\ UNCHANGED <<debited, credited>>

(***************************************************************************)
(* How a transaction ends                                                  *)
(***************************************************************************)

\* The callback returns, Prisma commits.
Commit(r) ==
  /\ pc[r] = "commit"
  /\ CommitTransaction(r)
  /\ GoTo(r, "respond")
  /\ UNCHANGED <<debited, credited>>

Respond(r) ==
  /\ pc[r] = "respond"
  /\ Answer(r, IF Sends(r) THEN "201" ELSE "200")
  /\ UNCHANGED <<databaseVars, debited, credited>>

\* The transaction is rolled back and the error reaches errorHandler.
FailWith(r, code) ==
  /\ Rollback({r})
  /\ Answer(r, code)
  /\ UNCHANGED <<debited, credited>>

\* Mutant of DuplicateKey: the error is swallowed and nothing is answered.
DuplicateKeySwallowed(r) ==
  /\ pc[r] = "record"
  /\ KeyCommitted(call[r].key)
  /\ Rollback({r})
  /\ pc' = [pc EXCEPT ![r] = "done"]
  /\ UNCHANGED <<call, status, debited, credited>>

\* Mutant of DuplicateKey: 409 as soon as another open transaction has the key.
DuplicateKeyEarly(r) ==
  /\ pc[r] = "record"
  /\ KeyCommitted(call[r].key) \/ KeyPending(r, call[r].key)
  /\ FailWith(r, "409")

\* A committed row has the key: P2002, which errorHandler answers 409.
DuplicateKey(r) ==
  /\ pc[r] = "record"
  /\ KeyCommitted(call[r].key)
  /\ FailWith(r, "409")

\* r's next statement waits for something s's open transaction holds.
WaitsFor(r, s) ==
  /\ s # r
  /\ \/ pc[r] = "debit" /\ lock[Payer(r)] = s
     \/ pc[r] = "credit" /\ GuardHolds(r) /\ lock[Payee(r)] = s
     \/ pc[r] = "record" /\ \E row \in inserted[s] : row.key = call[r].key

\* Each request waits for at most one other, so this is a cycle.
WaitCycle(R) ==
  \A r \in R : (\E s \in R : WaitsFor(r, s)) /\ (\E s \in R : WaitsFor(s, r))

\* PostgreSQL aborts one transaction of a deadlock; no code retries it.
DeadlockVictim(r) ==
  /\ \E R \in SUBSET Request : r \in R /\ WaitCycle(R)
  /\ FailWith(r, "500")

\* Prisma gives up on an interactive transaction that cannot start within its
\* maxWait or is not done within its timeout, or loses the database.
TransactionTimesOut(r) ==
  /\ pc[r] \in InTransaction
  /\ FailWith(r, "500")

\* The COMMIT takes effect and the connection breaks before the server hears it.
CommitUnheard(r) ==
  /\ pc[r] = "commit"
  /\ CommitTransaction(r)
  /\ Answer(r, "500")
  /\ UNCHANGED <<debited, credited>>

\* A server process dies with the requests R it is serving.
Crash(R) ==
  /\ \A r \in R : pc[r] \in InTransaction \cup {"respond"}
  /\ Rollback(R)
  /\ pc' = [r \in Request |-> IF r \in R THEN "done" ELSE pc[r]]
  /\ status' = [r \in Request |-> IF r \in R THEN "lost" ELSE status[r]]
  /\ UNCHANGED <<call, debited, credited>>

\* The statements of the two services, which their server goes on executing.
Step(r) ==
  \/ SendMoney(r) \/ DebitSender(r) \/ GuardFails(r) \/ CreditReceiver(r)
  \/ RecordTransfer(r) \/ LedgerDebit(r) \/ LedgerCredit(r)
  \/ TopUp(r) \/ DebitSystem(r) \/ CreditUser(r)
  \/ RecordTopUp(r) \/ LedgerIssued(r) \/ LedgerReceived(r)
  \/ DuplicateKey(r) \/ Commit(r) \/ Respond(r)

Next ==
  \/ \E r \in Request :
       Step(r) \/ DeadlockVictim(r) \/ TransactionTimesOut(r) \/ CommitUnheard(r)
  \/ \E R \in (SUBSET Request) \ {{}} : Crash(R)

Spec == Init /\ [][Next]_vars

\* A request that can take its next step takes it: the event loop runs every
\* callback, and PostgreSQL grants a free lock and breaks a deadlock.
Fairness ==
  /\ \A r \in Request : WF_vars(Step(r))
  /\ WF_vars(\E r \in Request : DeadlockVictim(r))

FairSpec == Spec /\ Fairness

(***************************************************************************)
(* Properties                                                              *)
(***************************************************************************)

\* No customer's balance is ever negative, whatever requests race between the
\* stale check (transaction.service.js:65) and the guard (:79).
NoOverdraft == \A a \in Account \ {SystemAccount} : balance[a] >= 0

\* Money is neither made nor lost, payment after payment: what the wallets hold
\* together, the system account's included, is what they held at the start.
MoneyConserved == SumFunction(balance) = SumFunction(OpeningBalance)

\* The requests whose payment has happened.
Paid == {row.id : row \in transactions}

EntriesOf(r, a) == {i \in DOMAIN ledger[a] : ledger[a][i].tx = r}

OneEntry(r, a, amount) ==
  \E i \in DOMAIN ledger[a] :
    EntriesOf(r, a) = {i} /\ ledger[a][i].amount = amount

\* A payment leaves a transaction row and one ledger entry on either side, and a
\* request that was refused, failed, timed out or crashed leaves none of them.
AllOrNothing ==
  \A r \in Request :
    IF r \in Paid
      THEN /\ RowOf(r) \in transactions
           /\ OneEntry(r, Payer(r), Stored(-call[r].amount))
           /\ OneEntry(r, Payee(r), Stored(call[r].amount))
           /\ \A a \in Account \ {Payer(r), Payee(r)} : EntriesOf(r, a) = {}
      ELSE \A a \in Account : EntriesOf(r, a) = {}

\* The balance an account had before its i-th ledger entry.
BalanceBefore(a, i) ==
  IF i = 1 THEN OpeningBalance[a] ELSE ledger[a][i - 1].balanceAfter

\* The ledger accounts for every balance: each entry's balanceAfter is the one
\* before it plus its amount, and the last one is the account's balance.  The
\* balanceAfter of a transfer is read long before its entry becomes visible
\* (transaction.service.js:73 and :122), a top-up's is read again (:103).
LedgerExplains(a) ==
  /\ \A i \in DOMAIN ledger[a] :
       ledger[a][i].balanceAfter = BalanceBefore(a, i) + ledger[a][i].amount
  /\ balance[a] = BalanceBefore(a, Len(ledger[a]) + 1)

\* In this way the ledger explains the balance of every account.
LedgerExplainsBalances == \A a \in Account : LedgerExplains(a)

\* The answer tells the truth: a success is only reported of a payment that has
\* happened, and a 4xx only of one that has not (a 500 says neither).
AnswersAreTrue ==
  \A r \in Request :
    /\ status[r] \in {"200", "201"} => r \in Paid
    /\ status[r] \in {"400", "404", "409", "422"} => r \notin Paid

\* However stale the first check was, the guard decides on the committed balance: it
\* lets a transfer pass exactly when that covers the amount or falls short of it by
\* less than half a cent, which the column rounds away before the guard looks.
GuardSeesCommittedBalance ==
  \A r \in Request :
    pc[r] = "credit" /\ Sends(r) =>
      (GuardHolds(r) <=> 2 * (call[r].amount - balance[Payer(r)]) < Cent)

\* transaction.routes.js:56 documents 422 for insufficient funds: the answer to a
\* transfer that the guard found short.
ShortfallIs422 ==
  \A r \in Request :
    debited[r] < 0 /\ status[r] # "none" => status[r] \in {"422", "lost"}

\* The payments as the abstract bank keeps them.
Book ==
  {[key |-> row.key, sender |-> row.sender, receiver |-> row.receiver,
    amount |-> row.amount] : row \in transactions}

PayableAmounts == (1 .. MaxAmount) \cap WholeCents

TheBank == INSTANCE Bank WITH Amount <- PayableAmounts, book <- Book

\* Interleaved, failing and crashing requests look from outside like single,
\* indivisible payments: the database's commits implement the bank.
ImplementsBank == TheBank!Spec

\* Every request is answered, unless its server dies: no request waits forever
\* for a row lock, an index entry or a deadlocked partner.
EveryRequestEnds == \A r \in Request : <>(status[r] # "none")

(***************************************************************************)
(* Why these hold: what is true of every request at each of its statements *)
(***************************************************************************)

AfterRecord == {"ledgerOut", "ledgerIn", "commit"}
AfterCredit == AfterRecord \cup {"record"}
AfterDebit == AfterCredit \cup {"credit"}

\* A request past its checks has two different accounts and a positive amount.
ChecksPassed ==
  \A r \in Request :
    pc[r] \in InTransaction =>
      /\ Payer(r) \in Account /\ Payee(r) \in Account /\ Payer(r) # Payee(r)
      /\ call[r].amount \in 1 .. MaxAmount

\* A row is locked by the request that has updated it and not yet ended.
LocksHeld ==
  \A a \in Account, r \in Request :
    lock[a] = r <=> \/ pc[r] \in AfterDebit /\ a = Payer(r)
                    \/ pc[r] \in AfterCredit /\ a = Payee(r)

\* What an open transaction has made of the committed balances; its locals agree.
VersionsOf(r) ==
  /\ pc[r] \in AfterDebit =>
       /\ working[Payer(r)] = Stored(balance[Payer(r)] - call[r].amount)
       /\ Sends(r) => debited[r] = working[Payer(r)]
  /\ pc[r] \in AfterCredit =>
       /\ working[Payee(r)] = Stored(balance[Payee(r)] + call[r].amount)
       /\ credited[r] = working[Payee(r)]
       /\ GuardHolds(r)

\* A row nobody has locked has no newer version than the committed one.
WorkingVersions ==
  /\ \A a \in Account : lock[a] = NoRequest => working[a] = balance[a]
  /\ \A r \in Request : VersionsOf(r)

\* Committed balances are whole cents, as the column stores them.
BalancesStored == \A a \in Account : balance[a] \in WholeCents

\* The inductive invariant behind NoOverdraft and GuardSeesCommittedBalance.
LockingInv ==
  TypeOK /\ ChecksPassed /\ LocksHeld /\ WorkingVersions /\ BalancesStored /\ NoOverdraft

\* A transaction's row is private from its insert to its commit.
PrivateRows ==
  \A r \in Request : inserted[r] = IF pc[r] \in AfterRecord THEN {RowOf(r)} ELSE {}

\* A committed row is the row of a request that is past its commit.
CommittedRows ==
  \A row \in transactions : row = RowOf(row.id) /\ pc[row.id] \in {"respond", "done"}

\* No key is on two rows, whether committed or about to be.
KeysUnique ==
  /\ \A row1, row2 \in transactions : row1.key = row2.key => row1 = row2
  /\ \A r \in Request : pc[r] \in AfterRecord =>
       ~KeyCommitted(call[r].key) /\ ~KeyPending(r, call[r].key)

\* A request is answered once it is done, and answers success only after a commit.
AnswersFollowCommits ==
  /\ \A r \in Request : pc[r] # "done" => status[r] = "none"
  /\ \A r \in Request : pc[r] = "respond" => r \in Paid

\* The inductive invariant behind AnswersAreTrue and ImplementsBank.
BookInv ==
  PrivateRows /\ CommittedRows /\ KeysUnique /\ AnswersFollowCommits /\ AnswersAreTrue

\* The ledger entries of a request's payment.
DebitOf(r) ==
  [tx |-> r, type |-> "DEBIT", amount |-> Stored(-call[r].amount),
   balanceAfter |-> working[Payer(r)]]

CreditOf(r) ==
  [tx |-> r, type |-> IF Sends(r) THEN "CREDIT" ELSE "TOPUP",
   amount |-> Stored(call[r].amount), balanceAfter |-> working[Payee(r)]]

\* What r's open transaction has written to a's ledger, statement by statement.
Written(r, a) ==
  IF a = Payer(r) /\ pc[r] \in {"ledgerIn", "commit"} THEN <<DebitOf(r)>>
  ELSE IF a = Payee(r) /\ pc[r] = "commit" THEN <<CreditOf(r)>>
  ELSE << >>

PrivateEntries ==
  \A r \in Request, a \in Account : entries[r][a] = Written(r, a)

\* The inductive invariant behind AllOrNothing and LedgerExplainsBalances.
LedgerInv == PrivateEntries /\ AllOrNothing
==============================================================================
