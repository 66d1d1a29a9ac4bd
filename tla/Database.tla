------------------------------- MODULE Database -------------------------------
(***************************************************************************)
(* The part of PostgreSQL that the services use, through Prisma: the       *)
(* accounts, transactions and ledger_entries tables under READ COMMITTED.  *)
(* It is outside the repository's code; schema.prisma and the migrations   *)
(* say which tables, types and indexes exist, and the services which       *)
(* statements run.                                                         *)
(*                                                                         *)
(*  - A row an open transaction has updated stays locked until that        *)
(*    transaction ends.  A second UPDATE of the row waits, and then works  *)
(*    on the newest committed version ("working" is the row's newest       *)
(*    version, "balance" the newest committed one).                        *)
(*  - Inserted rows are private to their transaction until it commits.     *)
(*  - The unique index on idempotencyKey makes an INSERT wait while        *)
(*    another open transaction holds the same key, and fail (Prisma:       *)
(*    P2002) once a committed row has it.                                  *)
(*  - COMMIT publishes everything at once; ROLLBACK, also the one caused   *)
(*    by a lost connection, drops everything at once.                      *)
(*                                                                         *)
(* A transaction is named by the request that opened it, a request opening *)
(* at most one.  The ledger of an account is kept as the sequence of its   *)
(* entries in the order they were committed, which is the order of the     *)
(* updates, the account's row being locked from one to the other.          *)
(***************************************************************************)
EXTENDS Money, Sequences, FiniteSets

CONSTANTS
  Account,         \* the rows of accounts, one per user
  Key,             \* the values idempotencyKey takes
  Request,         \* the requests, each the owner of at most one transaction
  NoRequest,       \* the owner of a row that is not locked
  OpeningBalance   \* the balances the program starts from

ASSUME DatabaseAssumption ==
  /\ IsFiniteSet(Account)
  /\ NoRequest \notin Request
  /\ OpeningBalance \in [Account -> WholeCents]

VARIABLES
  balance,         \* committed accounts.balance
  working,         \* accounts.balance in the newest row version, committed or not
  lock,            \* the request whose open transaction has the row locked
  transactions,    \* committed rows of transactions
  ledger,          \* committed ledger_entries, a sequence per account
  inserted,        \* rows of transactions an open transaction has inserted
  entries          \* ledger_entries an open transaction has inserted

databaseVars == <<balance, working, lock, transactions, ledger, inserted, entries>>

TransactionRow ==
  [id : Request, key : Key, sender : Account, receiver : Account, amount : Int]

LedgerEntry ==
  [tx : Request, type : {"DEBIT", "CREDIT", "TOPUP"}, amount : Int, balanceAfter : Int]

DatabaseTypeOK ==
  /\ balance \in [Account -> Int]
  /\ working \in [Account -> Int]
  /\ lock \in [Account -> Request \cup {NoRequest}]
  /\ transactions \subseteq TransactionRow
  /\ ledger \in [Account -> Seq(LedgerEntry)]
  /\ inserted \in [Request -> SUBSET TransactionRow]
  /\ entries \in [Request -> [Account -> Seq(LedgerEntry)]]

DatabaseInit ==
  /\ balance = OpeningBalance
  /\ working = OpeningBalance
  /\ lock = [a \in Account |-> NoRequest]
  /\ transactions = {}
  /\ ledger = [a \in Account |-> << >>]
  /\ inserted = [r \in Request |-> {}]
  /\ entries = [r \in Request |-> [a \in Account |-> << >>]]

\* UPDATE accounts SET balance = balance + delta WHERE id = a
UpdateBalance(r, a, delta) ==
  /\ lock[a] \in {r, NoRequest}
  /\ lock' = [lock EXCEPT ![a] = r]
  /\ working' = [working EXCEPT ![a] = Stored(@ + delta)]
  /\ UNCHANGED <<balance, transactions, ledger, inserted, entries>>

KeyCommitted(key) == \E row \in transactions : row.key = key

KeyPending(r, key) == \E s \in Request \ {r} : \E row \in inserted[s] : row.key = key

\* Mutant of InsertTransaction: the schema without @unique on idempotencyKey.
InsertTransactionNotUnique(r, row) ==
  /\ inserted' = [inserted EXCEPT ![r] = @ \cup {row}]
  /\ UNCHANGED <<balance, working, lock, transactions, ledger, entries>>

\* INSERT INTO transactions, past the unique index.
InsertTransaction(r, row) ==
  /\ ~KeyCommitted(row.key)
  /\ ~KeyPending(r, row.key)
  /\ inserted' = [inserted EXCEPT ![r] = @ \cup {row}]
  /\ UNCHANGED <<balance, working, lock, transactions, ledger, entries>>

\* INSERT INTO ledger_entries
InsertLedgerEntry(r, a, entry) ==
  /\ entries' = [entries EXCEPT ![r][a] = Append(@, entry)]
  /\ UNCHANGED <<balance, working, lock, transactions, ledger, inserted>>

CommitTransaction(r) ==
  /\ balance' = [a \in Account |-> IF lock[a] = r THEN working[a] ELSE balance[a]]
  /\ lock' = [a \in Account |-> IF lock[a] = r THEN NoRequest ELSE lock[a]]
  /\ transactions' = transactions \cup inserted[r]
  /\ ledger' = [a \in Account |-> ledger[a] \o entries[r][a]]
  /\ inserted' = [inserted EXCEPT ![r] = {}]
  /\ entries' = [entries EXCEPT ![r] = [a \in Account |-> << >>]]
  /\ UNCHANGED working

\* ROLLBACK of the transactions of all requests of R.
Rollback(R) ==
  /\ working' = [a \in Account |-> IF lock[a] \in R THEN balance[a] ELSE working[a]]
  /\ lock' = [a \in Account |-> IF lock[a] \in R THEN NoRequest ELSE lock[a]]
  /\ inserted' = [r \in Request |-> IF r \in R THEN {} ELSE inserted[r]]
  /\ entries' = [r \in Request |->
                   IF r \in R THEN [a \in Account |-> << >>] ELSE entries[r]]
  /\ UNCHANGED <<balance, transactions, ledger>>
==============================================================================
