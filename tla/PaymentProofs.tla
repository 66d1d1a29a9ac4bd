---------------------------- MODULE PaymentProofs -----------------------------
(***************************************************************************)
(* Proofs about payments, for any finite accounts, requests and calls:     *)
(* the services (Transfers), the abstract bank they implement (Bank), and  *)
(* the endpoint with its idempotency middleware in front (Idempotency).    *)
(*                                                                         *)
(* LockingInv is inductive.  Its steps are of six kinds, a lemma each: an  *)
(* arrival, a debit, a credit, an insert, a commit, and the end of a       *)
(* request that takes its transaction with it.                             *)
(*                                                                         *)
(* BookInv is inductive given LockingInv: the committed transactions are   *)
(* those of the requests that were answered success, one per key.          *)
(*                                                                         *)
(* The services refine the bank, so a step moves an amount from one        *)
(* account to another or nothing: the total stays what it was.             *)
(*                                                                         *)
(* LedgerInv, given both: the entries a transaction has inserted follow    *)
(* from where it is (PrivateEntries), since the rows whose balances they   *)
(* quote are locked from the updates to the commit.  The committed ledger  *)
(* changes by commits only, which append one entry on either side.         *)
(*                                                                         *)
(* The endpoint only ever restricts what the service does, so it           *)
(* implements Transfers with the identity as refinement mapping, and       *)
(* everything proved of Transfers holds of it.  On that ground ReplayInv   *)
(* is inductive: a payment, once committed, stays, and the middleware only *)
(* stores responses of committed payments.                                 *)
(***************************************************************************)
EXTENDS Idempotency, SequenceTheorems, FiniteSetTheorems, WellFoundedInduction, TLAPS

(***************************************************************************)
(* Money: what the column keeps of an amount                               *)
(***************************************************************************)

\* Division with a remainder.
LEMMA Division ==
  ASSUME NEW a \in Int, NEW b \in Nat \ {0}
  PROVE  /\ a \div b \in Int /\ a % b \in 0 .. b - 1
         /\ a = (a \div b) * b + (a % b)
  OBVIOUS

\* A multiple leaves no remainder.
LEMMA MultipleOf ==
  ASSUME NEW n \in Int, NEW b \in Nat \ {0}
  PROVE  /\ (n * b) % b = 0 /\ (n*b) \div b = n
  OBVIOUS

\* Whole cents are the multiples of a cent.
LEMMA WholeCentsAre ==
  ASSUME NEW x \in Int
  PROVE x \in WholeCents <=> \E n \in Int : x = n * Cent
<1>1. ASSUME x \in WholeCents PROVE \E n \in Int : x = n * Cent
  <2>1. x \div Cent \in Int /\ x = (x \div Cent) * Cent + 0
    BY <1>1, MoneyAssumption, Division DEF WholeCents
  <2>2. (x \div Cent) * Cent \in Int
    BY <2>1, MoneyAssumption
  <2>. QED  BY <2>1, <2>2
<1>2. ASSUME NEW n \in Int, x = n * Cent PROVE x \in WholeCents
  BY <1>2, MoneyAssumption, MultipleOf DEF WholeCents
<1>. QED  BY <1>1, <1>2

\* Whole cents added, subtracted or negated are whole cents.
LEMMA WholeCentSums ==
  ASSUME NEW x \in WholeCents, NEW y \in WholeCents
  PROVE x + y \in WholeCents /\ x - y \in WholeCents /\ -x \in WholeCents
<1>1. PICK m \in Int : x = m * Cent
  BY WholeCentsAre DEF WholeCents
<1>2. PICK n \in Int : y = n * Cent
  BY WholeCentsAre DEF WholeCents
<1>3. /\ x + y = (m + n) * Cent /\ x - y = (m - n) * Cent
      /\ -x = (-m) * Cent
  BY <1>1, <1>2, MoneyAssumption
<1>4. x + y \in Int /\ x - y \in Int /\ -x \in Int /\ m + n \in Int /\ m - n \in Int /\ -m \in Int
  BY <1>1, <1>2 DEF WholeCents
<1>. QED
  BY <1>3, <1>4, WholeCentsAre

\* The whole cents nearest to an amount are within half a cent of it.
LEMMA NearestCent ==
  ASSUME NEW y \in Nat
  PROVE  LET n == (2 * y + Cent) \div (2 * Cent) IN
         /\ n \in Nat
         /\ 2 * (n * Cent) <= 2 * y + Cent
         /\ 2 * (n * Cent) > 2 * y - Cent
<1>. DEFINE n == (2 * y + Cent) \div (2 * Cent)
            rest == (2 * y + Cent) % (2 * Cent)
<1>1. 2 * Cent \in Nat \ {0} /\ 2 * y + Cent \in Int /\ Cent \in Nat \ {0}
  BY MoneyAssumption
<1>2. /\ n \in Int /\ rest \in 0 .. 2 * Cent - 1
      /\ 2 * y + Cent = n * (2 * Cent) + rest
  BY <1>1, Division
<1>. HIDE DEF n, rest
<1>3. n * (2 * Cent) = 2 * (n * Cent) /\ n * Cent \in Int
  BY <1>1, <1>2
<1>4. 2 * (n * Cent) <= 2 * y + Cent /\ 2 * (n * Cent) > 2 * y - Cent
  BY <1>1, <1>2, <1>3
<1>5. n >= 0
  BY <1>1, <1>2
<1>. QED
  BY <1>2, <1>4, <1>5 DEF n

\* The whole cents nearest to whole cents are these.
LEMMA NearestToWhole ==
  ASSUME NEW m \in Int, NEW n \in Int,
         2 * (n * Cent) <= 2 * (m * Cent) + Cent,
         2 * (n * Cent) > 2 * (m * Cent) - Cent
  PROVE n = m
<1>0. Cent \in Nat \ {0}
  BY MoneyAssumption
<1>1. 2 * ((n - m) * Cent) <= Cent /\ 2 * ((n - m) * Cent) > -Cent
  BY <1>0
<1>2. n - m < 1 /\ n - m > -1
  BY <1>0, <1>1
<1>. QED  BY <1>2

\* The column keeps whole cents as they are and turns everything else into whole
\* cents; what it keeps is negative when at least half a cent is missing.
LEMMA StoredFacts ==
  ASSUME NEW x \in Int
  PROVE  /\ Stored(x) \in Int
         /\ Stored(x) \in WholeCents
         /\ x \in WholeCents => Stored(x) = x
         /\ Stored(x) >= 0 <=> 2 * (-x) < Cent
<1>. DEFINE y == IF x >= 0 THEN x ELSE -x
            n == (2 * y + Cent) \div (2 * Cent)
<1>1. Cent \in Nat \ {0} /\ y \in Nat
  BY MoneyAssumption
<1>2. Stored(x) = IF x >= 0 THEN n * Cent ELSE -(n * Cent)
  <2>1. CASE x >= 0
    BY <2>1 DEF Stored
  <2>2. CASE ~ (x >= 0)
    <3>1. 2 * y + Cent = Cent - 2 * x
      BY <1>1, <2>2
    <3>. QED  BY <2>2, <3>1 DEF Stored
  <2>. QED  BY <2>1, <2>2
<1>3. n \in Nat /\ 2 * (n * Cent) <= 2 * y + Cent /\ 2 * (n * Cent) > 2 * y - Cent
  BY <1>1, NearestCent
<1>4. n * Cent \in Int /\ n * Cent >= 0
  BY <1>1, <1>3
<1>. HIDE DEF n
<1>5. Stored(x) \in Int
  BY <1>2, <1>4
<1>6. Stored(x) \in WholeCents
  <2>1. Stored(x) = n * Cent \/ Stored(x) = (-n) * Cent
    BY <1>1, <1>2, <1>3
  <2>. QED  BY <1>3, <1>5, <2>1, WholeCentsAre
<1>7. ASSUME x \in WholeCents PROVE Stored(x) = x
  <2>1. y \in WholeCents
    BY <1>7, WholeCentSums
  <2>2. PICK m \in Int : y = m * Cent
    BY <1>1, <2>1, WholeCentsAre
  <2>3. n = m
    BY <1>3, <2>2, NearestToWhole
  <2>. QED  BY <1>1, <1>2, <2>2, <2>3
<1>8. Stored(x) >= 0 <=> 2 * (-x) < Cent
  <2>1. CASE x >= 0
    BY <1>1, <1>2, <1>4, <2>1
  <2>2. CASE ~ (x >= 0) /\ n = 0
    <3>1. n * Cent = 0
      BY <1>1, <2>2
    <3>. QED  BY <1>1, <1>2, <1>3, <2>2, <3>1
  <2>3. CASE ~ (x >= 0) /\ n # 0
    <3>1. n * Cent >= Cent
      BY <1>1, <1>3, <2>3
    <3>. QED  BY <1>1, <1>2, <1>3, <1>4, <2>3, <3>1
  <2>. QED  BY <2>1, <2>2, <2>3
<1>. QED  BY <1>5, <1>6, <1>7, <1>8

(***************************************************************************)
(* Locking: what a request knows of the rows it has locked                 *)
(***************************************************************************)

\* What the types and assumptions give about the call of a request.
LEMMA CallFacts ==
  ASSUME TypeOK, NEW r \in Request
  PROVE  /\ call[r] \in CallRecord
         /\ call[r].op \in {"send", "topUp"}
         /\ call[r].amount \in Int
         /\ call[r].key \in Key
         /\ Sends(r) <=> ~TopsUp(r)
         /\ TopsUp(r) => call[r].user = NoAccount \/ call[r].user # SystemAccount
         /\ Payer(r) \in Account \cup {NoAccount}
         /\ Payee(r) \in Account \cup {NoAccount}
<1>1. call[r] \in Calls
  BY DEF TypeOK
<1>2. call[r] \in CallRecord
  BY <1>1, TransfersAssumption
<1>. QED
  BY <1>1, <1>2, TransfersAssumption DEF CallRecord, Sends, TopsUp, Payer, Payee

\* The initial states satisfy the invariant.
LEMMA InitLocking == Init => LockingInv
<1>. SUFFICES ASSUME Init PROVE LockingInv
  OBVIOUS
<1>. USE DEF Init, DatabaseInit
<1>0. OpeningBalance \in [Account -> Int] /\ \A a \in Account : OpeningBalance[a] \in WholeCents
  BY DatabaseAssumption DEF WholeCents
<1>1. TypeOK
  BY <1>0 DEF TypeOK, DatabaseTypeOK, Statement, Status
<1>2. ChecksPassed
  BY DEF ChecksPassed, InTransaction
<1>3. LocksHeld
  BY DatabaseAssumption DEF LocksHeld, AfterDebit, AfterCredit, AfterRecord
<1>4. WorkingVersions
  BY DEF WorkingVersions, VersionsOf, AfterDebit, AfterCredit, AfterRecord
<1>5. BalancesStored
  BY <1>0 DEF BalancesStored
<1>6. NoOverdraft
  BY TransfersAssumption DEF NoOverdraft
<1>. QED
  BY <1>1, <1>2, <1>3, <1>4, <1>5, <1>6 DEF LockingInv

\* A step outside the transaction: the request holds no lock before or after.
LEMMA OutsideLocking ==
  ASSUME LockingInv, NEW r \in Request, NEW next \in {"debit", "done"},
         pc[r] \in {"arrive", "respond"},
         pc' = [pc EXCEPT ![r] = next],
         status' \in [Request -> Status],
         UNCHANGED <<databaseVars, call, debited, credited>>,
         next = "debit" =>
           /\ Payer(r) \in Account /\ Payee(r) \in Account /\ Payer(r) # Payee(r)
           /\ call[r].amount \in 1 .. MaxAmount
  PROVE  LockingInv'
<1>. USE DEF LockingInv, databaseVars
<1>1. TypeOK'
  BY DEF TypeOK, DatabaseTypeOK, Statement
<1>2. ChecksPassed'
  BY DEF TypeOK, ChecksPassed, InTransaction, Payer, Payee, Sends
<1>3. LocksHeld'
  BY DEF TypeOK, LocksHeld, AfterDebit, AfterCredit, AfterRecord, Payer, Payee, Sends
<1>4. WorkingVersions'
  BY DEF TypeOK, WorkingVersions, VersionsOf, AfterDebit, AfterCredit, AfterRecord, Payer, Payee,
         Sends, GuardHolds
<1>5. BalancesStored' /\ NoOverdraft'
  BY DEF BalancesStored, NoOverdraft
<1>. QED
  BY <1>1, <1>2, <1>3, <1>4, <1>5

\* An insert: the request keeps its locks and only its private rows change.
LEMMA InsertLocking ==
  ASSUME LockingInv, NEW r \in Request, NEW next \in AfterCredit,
         pc[r] \in AfterCredit,
         pc' = [pc EXCEPT ![r] = next],
         inserted' \in [Request -> SUBSET TransactionRow],
         entries' \in [Request -> [Account -> Seq(LedgerEntry)]],
         UNCHANGED <<balance, working, lock, transactions, ledger,
                     call, debited, credited, status>>
  PROVE  LockingInv'
<1>. USE DEF LockingInv, AfterCredit, AfterRecord
<1>1. TypeOK'
  BY DEF TypeOK, DatabaseTypeOK, Statement
<1>2. ChecksPassed'
  BY DEF TypeOK, ChecksPassed, InTransaction, Payer, Payee, Sends
<1>3. LocksHeld'
  BY DEF TypeOK, LocksHeld, AfterDebit, Payer, Payee, Sends
<1>4. WorkingVersions'
  BY DEF TypeOK, WorkingVersions, VersionsOf, AfterDebit, Payer, Payee, Sends, GuardHolds
<1>5. BalancesStored' /\ NoOverdraft'
  BY DEF BalancesStored, NoOverdraft
<1>. QED
  BY <1>1, <1>2, <1>3, <1>4, <1>5

\* A debit: the request locks the payer's row, which nobody else has.
LEMMA DebitLocking ==
  ASSUME LockingInv, NEW r \in Request,
         pc[r] = "debit",
         UpdateBalance(r, Payer(r), -call[r].amount),
         pc' = [pc EXCEPT ![r] = "credit"],
         debited' \in [Request -> Int],
         \A s \in Request \ {r} : debited'[s] = debited[s],
         Sends(r) => debited'[r] = working'[Payer(r)],
         UNCHANGED <<call, status, credited>>
  PROVE  LockingInv'
<1>. USE DEF LockingInv
<1>. DEFINE a == Payer(r)
<1>0. /\ a \in Account /\ Payee(r) \in Account /\ a # Payee(r)
      /\ call[r].amount \in Int /\ call[r].amount > 0 /\ balance[a] \in Int
      /\ working[a] \in Int
  BY TransfersAssumption DEF ChecksPassed, InTransaction, TypeOK, DatabaseTypeOK
<1>1. lock[a] = NoRequest
  BY <1>0, DatabaseAssumption DEF UpdateBalance, LocksHeld, AfterDebit, AfterCredit, AfterRecord
<1>2. /\ lock' = [lock EXCEPT ![a] = r]
      /\ working' = [working EXCEPT ![a] = Stored(balance[a] - call[r].amount)]
      /\ UNCHANGED <<balance, transactions, ledger, inserted, entries>>
  BY <1>0, <1>1 DEF UpdateBalance, WorkingVersions
<1>3. Stored(balance[a] - call[r].amount) \in Int
  BY <1>0, StoredFacts
<1>4. TypeOK'
  BY <1>2, <1>3 DEF TypeOK, DatabaseTypeOK, Statement
<1>5. ChecksPassed'
  BY <1>2 DEF TypeOK, ChecksPassed, InTransaction, Payer, Payee, Sends
<1>6. LocksHeld'
  <2>1. \A s \in Request : Payer(s)' = Payer(s) /\ Payee(s)' = Payee(s)
    BY DEF Payer, Payee, Sends
  <2>2. SUFFICES ASSUME NEW b \in Account, NEW s \in Request
                 PROVE  lock'[b] = s <=> \/ pc'[s] \in AfterDebit /\ b = Payer(s)
                                         \/ pc'[s] \in AfterCredit /\ b = Payee(s)
    BY <2>1 DEF LocksHeld
  <2>3. /\ lock'[b] = IF b = a THEN r ELSE lock[b]
        /\ pc'[s] = IF s = r THEN "credit" ELSE pc[s]
    BY <1>0, <1>2 DEF TypeOK, DatabaseTypeOK
  <2>4. lock[b] = s <=> \/ pc[s] \in AfterDebit /\ b = Payer(s)
                        \/ pc[s] \in AfterCredit /\ b = Payee(s)
    BY DEF LocksHeld
  <2>5. "credit" \in AfterDebit /\ "credit" \notin AfterCredit
    BY DEF AfterDebit, AfterCredit, AfterRecord
  <2>6. pc[r] \notin AfterDebit /\ pc[r] \notin AfterCredit
    BY DEF AfterDebit, AfterCredit, AfterRecord
  <2>. QED
    BY <1>1, <2>3, <2>4, <2>5, <2>6, DatabaseAssumption
<1>7. WorkingVersions'
  <2>1. \A b \in Account : lock'[b] = NoRequest => working'[b] = balance'[b]
    BY <1>0, <1>2, DatabaseAssumption DEF TypeOK, DatabaseTypeOK, WorkingVersions
  <2>2. ASSUME NEW s \in Request, s # r, pc'[s] \in AfterDebit
        PROVE  /\ working'[Payer(s)] = Stored(balance'[Payer(s)] - call[s].amount)
               /\ Sends(s) => debited'[s] = working'[Payer(s)]
               /\ pc'[s] \in AfterCredit =>
                    /\ working'[Payee(s)] = Stored(balance'[Payee(s)] + call[s].amount)
                    /\ credited'[s] = working'[Payee(s)]
                    /\ Sends(s) => debited'[s] >= 0
    <3>1. pc[s] \in AfterDebit /\ pc'[s] = pc[s]
      BY <2>2 DEF TypeOK
    <3>2. Payer(s) # a /\ Payer(s) \in Account
      BY <2>2, <3>1, <1>1, DatabaseAssumption
         DEF LocksHeld, ChecksPassed, AfterDebit, AfterCredit, AfterRecord, InTransaction
    <3>3. pc[s] \in AfterCredit => Payee(s) # a /\ Payee(s) \in Account
      BY <2>2, <3>1, <1>1, DatabaseAssumption
         DEF LocksHeld, ChecksPassed, AfterDebit, AfterCredit, AfterRecord, InTransaction
    <3>. QED
      BY <1>2, <2>2, <3>1, <3>2, <3>3
         DEF TypeOK, DatabaseTypeOK, WorkingVersions, VersionsOf, GuardHolds
  <2>3. /\ pc'[r] = "credit" /\ working'[a] = Stored(balance'[a] - call[r].amount)
        /\ Sends(r) => debited'[r] = working'[a]
    BY <1>0, <1>2 DEF TypeOK, DatabaseTypeOK
  <2>4. \A s \in Request : VersionsOf(s)'
    <3>. SUFFICES ASSUME NEW s \in Request PROVE VersionsOf(s)'
      OBVIOUS
    <3>1. Payer(s)' = Payer(s) /\ Payee(s)' = Payee(s) /\ Sends(s)' = Sends(s)
      BY DEF Payer, Payee, Sends
    <3>2. CASE s = r
      BY <3>1, <3>2, <2>3 DEF VersionsOf, AfterCredit, AfterRecord
    <3>3. CASE s # r
      BY <3>1, <3>3, <2>2 DEF VersionsOf, GuardHolds, AfterDebit
    <3>. QED
      BY <3>2, <3>3
  <2>. QED
    BY <2>1, <2>4 DEF WorkingVersions
<1>8. BalancesStored' /\ NoOverdraft'
  BY <1>2 DEF BalancesStored, NoOverdraft
<1>. QED
  BY <1>4, <1>5, <1>6, <1>7, <1>8

\* A credit: the request locks the payee's row as well, the guard having passed.
LEMMA CreditLocking ==
  ASSUME LockingInv, NEW r \in Request,
         pc[r] = "credit", GuardHolds(r),
         UpdateBalance(r, Payee(r), call[r].amount),
         pc' = [pc EXCEPT ![r] = "record"],
         credited' = [credited EXCEPT ![r] = working'[Payee(r)]],
         UNCHANGED <<call, status, debited>>
  PROVE  LockingInv'
<1>. USE DEF LockingInv
<1>. DEFINE a == Payee(r)
<1>0. /\ a \in Account /\ Payer(r) \in Account /\ a # Payer(r)
      /\ call[r].amount \in Int /\ call[r].amount > 0 /\ balance[a] \in Int
  BY TransfersAssumption DEF ChecksPassed, InTransaction, TypeOK, DatabaseTypeOK
<1>1. lock[a] = NoRequest
  BY <1>0, DatabaseAssumption DEF UpdateBalance, LocksHeld, AfterDebit, AfterCredit, AfterRecord
<1>2. /\ lock' = [lock EXCEPT ![a] = r]
      /\ working' = [working EXCEPT ![a] = Stored(balance[a] + call[r].amount)]
      /\ UNCHANGED <<balance, transactions, ledger, inserted, entries>>
  BY <1>0, <1>1 DEF UpdateBalance, WorkingVersions
<1>3. Stored(balance[a] + call[r].amount) \in Int
  BY <1>0, StoredFacts
<1>4. TypeOK'
  BY <1>0, <1>2, <1>3 DEF TypeOK, DatabaseTypeOK, Statement
<1>5. ChecksPassed'
  BY <1>2 DEF TypeOK, ChecksPassed, InTransaction, Payer, Payee, Sends
<1>6. LocksHeld'
  <2>1. \A s \in Request : Payer(s)' = Payer(s) /\ Payee(s)' = Payee(s)
    BY DEF Payer, Payee, Sends
  <2>2. SUFFICES ASSUME NEW b \in Account, NEW s \in Request
                 PROVE  lock'[b] = s <=> \/ pc'[s] \in AfterDebit /\ b = Payer(s)
                                         \/ pc'[s] \in AfterCredit /\ b = Payee(s)
    BY <2>1 DEF LocksHeld
  <2>3. /\ lock'[b] = IF b = a THEN r ELSE lock[b]
        /\ pc'[s] = IF s = r THEN "record" ELSE pc[s]
    BY <1>0, <1>2 DEF TypeOK, DatabaseTypeOK
  <2>4. lock[b] = s <=> \/ pc[s] \in AfterDebit /\ b = Payer(s)
                        \/ pc[s] \in AfterCredit /\ b = Payee(s)
    BY DEF LocksHeld
  <2>5. "record" \in AfterDebit /\ "record" \in AfterCredit
    BY DEF AfterDebit, AfterCredit, AfterRecord
  <2>6. pc[r] \in AfterDebit /\ pc[r] \notin AfterCredit
    BY DEF AfterDebit, AfterCredit, AfterRecord
  <2>. QED
    BY <1>1, <2>3, <2>4, <2>5, <2>6, DatabaseAssumption
<1>7. WorkingVersions'
  <2>1. \A b \in Account : lock'[b] = NoRequest => working'[b] = balance'[b]
    BY <1>0, <1>2, DatabaseAssumption DEF TypeOK, DatabaseTypeOK, WorkingVersions
  <2>2. ASSUME NEW s \in Request, s # r, pc'[s] \in AfterDebit
        PROVE  /\ working'[Payer(s)] = Stored(balance'[Payer(s)] - call[s].amount)
               /\ Sends(s) => debited'[s] = working'[Payer(s)]
               /\ pc'[s] \in AfterCredit =>
                    /\ working'[Payee(s)] = Stored(balance'[Payee(s)] + call[s].amount)
                    /\ credited'[s] = working'[Payee(s)]
                    /\ Sends(s) => debited'[s] >= 0
    <3>1. pc[s] \in AfterDebit /\ pc'[s] = pc[s]
      BY <2>2 DEF TypeOK
    <3>2. Payer(s) # a /\ Payer(s) \in Account
      BY <2>2, <3>1, <1>1, DatabaseAssumption
         DEF LocksHeld, ChecksPassed, AfterDebit, AfterCredit, AfterRecord, InTransaction
    <3>3. pc[s] \in AfterCredit => Payee(s) # a /\ Payee(s) \in Account
      BY <2>2, <3>1, <1>1, DatabaseAssumption
         DEF LocksHeld, ChecksPassed, AfterDebit, AfterCredit, AfterRecord, InTransaction
    <3>. QED
      BY <1>2, <2>2, <3>1, <3>2, <3>3
         DEF TypeOK, DatabaseTypeOK, WorkingVersions, VersionsOf, GuardHolds
  <2>3. /\ working'[a] = Stored(balance'[a] + call[r].amount) /\ credited'[r] = working'[a]
        /\ working'[Payer(r)] = Stored(balance'[Payer(r)] - call[r].amount)
        /\ Sends(r) => debited'[r] = working'[Payer(r)] /\ debited'[r] >= 0
    BY <1>0, <1>2
       DEF TypeOK, DatabaseTypeOK, WorkingVersions, VersionsOf, GuardHolds,
           AfterDebit, AfterCredit
  <2>4. \A s \in Request : VersionsOf(s)'
    <3>. SUFFICES ASSUME NEW s \in Request PROVE VersionsOf(s)'
      OBVIOUS
    <3>1. Payer(s)' = Payer(s) /\ Payee(s)' = Payee(s) /\ Sends(s)' = Sends(s)
      BY DEF Payer, Payee, Sends
    <3>2. CASE s = r
      BY <3>1, <3>2, <2>3 DEF VersionsOf, GuardHolds
    <3>3. CASE s # r
      BY <3>1, <3>3, <2>2 DEF VersionsOf, GuardHolds, AfterDebit
    <3>. QED
      BY <3>2, <3>3
  <2>. QED
    BY <2>1, <2>4 DEF WorkingVersions
<1>8. BalancesStored' /\ NoOverdraft'
  BY <1>2 DEF BalancesStored, NoOverdraft
<1>. QED
  BY <1>4, <1>5, <1>6, <1>7, <1>8

\* A commit: the request's two versions become the committed ones, and the guard
\* and the sign of the amount keep both of them from going below zero.
LEMMA CommitLocking ==
  ASSUME LockingInv, NEW r \in Request, NEW next \in {"respond", "done"},
         pc[r] = "commit",
         CommitTransaction(r),
         pc' = [pc EXCEPT ![r] = next],
         status' \in [Request -> Status],
         UNCHANGED <<call, debited, credited>>
  PROVE  LockingInv'
<1>. USE DEF LockingInv
<1>0. /\ Payer(r) \in Account /\ Payee(r) \in Account /\ Payer(r) # Payee(r)
      /\ call[r].amount \in Int /\ call[r].amount > 0
      /\ balance[Payer(r)] \in Int /\ balance[Payee(r)] \in Int
  BY TransfersAssumption DEF ChecksPassed, InTransaction, TypeOK, DatabaseTypeOK
<1>1. \A a \in Account : lock[a] = r <=> a \in {Payer(r), Payee(r)}
  BY DEF LocksHeld, AfterDebit, AfterCredit, AfterRecord
<1>2. /\ working[Payer(r)] = Stored(balance[Payer(r)] - call[r].amount)
      /\ working[Payee(r)] = Stored(balance[Payee(r)] + call[r].amount)
      /\ Sends(r) => working[Payer(r)] >= 0
  BY DEF WorkingVersions, VersionsOf, GuardHolds, AfterDebit, AfterCredit, AfterRecord
<1>3. TypeOK'
  <2>1. \A a \in Account : ledger[a] \o entries[r][a] \in Seq(LedgerEntry)
    BY ConcatProperties DEF TypeOK, DatabaseTypeOK
  <2>2. /\ balance' \in [Account -> Int] /\ working' \in [Account -> Int]
        /\ lock' \in [Account -> Request \cup {NoRequest}]
        /\ ledger' \in [Account -> Seq(LedgerEntry)]
    BY <2>1 DEF CommitTransaction, TypeOK, DatabaseTypeOK
  <2>3. /\ transactions' \subseteq TransactionRow
        /\ inserted' \in [Request -> SUBSET TransactionRow]
        /\ entries' \in [Request -> [Account -> Seq(LedgerEntry)]]
    BY DEF CommitTransaction, TypeOK, DatabaseTypeOK
  <2>. QED
    BY <2>2, <2>3 DEF TypeOK, DatabaseTypeOK, Statement
<1>4. ChecksPassed'
  BY DEF TypeOK, ChecksPassed, InTransaction, Payer, Payee, Sends
<1>5. \A a \in Account :
        /\ balance'[a] = IF a \in {Payer(r), Payee(r)} THEN working[a] ELSE balance[a]
        /\ lock'[a] = IF a \in {Payer(r), Payee(r)} THEN NoRequest ELSE lock[a]
        /\ working'[a] = working[a]
  BY <1>1 DEF CommitTransaction
<1>6. \A s \in Request : Payer(s)' = Payer(s) /\ Payee(s)' = Payee(s) /\ Sends(s)' = Sends(s)
  BY DEF Payer, Payee, Sends
<1>7. LocksHeld'
  <2>1. SUFFICES ASSUME NEW b \in Account, NEW s \in Request
                 PROVE  lock'[b] = s <=> \/ pc'[s] \in AfterDebit /\ b = Payer(s)
                                         \/ pc'[s] \in AfterCredit /\ b = Payee(s)
    BY <1>6 DEF LocksHeld
  <2>2. pc'[s] = IF s = r THEN next ELSE pc[s]
    BY DEF TypeOK
  <2>3. next \notin AfterDebit /\ next \notin AfterCredit
    BY DEF AfterDebit, AfterCredit, AfterRecord
  <2>4. lock[b] = s <=> \/ pc[s] \in AfterDebit /\ b = Payer(s)
                        \/ pc[s] \in AfterCredit /\ b = Payee(s)
    BY DEF LocksHeld
  <2>. QED
    BY <1>1, <1>5, <2>2, <2>3, <2>4, DatabaseAssumption
<1>8. WorkingVersions'
  <2>1. \A b \in Account : lock'[b] = NoRequest => working'[b] = balance'[b]
    BY <1>5 DEF WorkingVersions
  <2>2. ASSUME NEW s \in Request, s # r PROVE VersionsOf(s)'
    <3>1. pc'[s] = pc[s]
      BY <2>2 DEF TypeOK
    <3>2. pc[s] \in AfterDebit => Payer(s) \in Account /\ Payer(s) \notin {Payer(r), Payee(r)}
      BY <2>2, <1>1 DEF LocksHeld, ChecksPassed, AfterDebit, AfterCredit, AfterRecord,
                        InTransaction
    <3>3. pc[s] \in AfterCredit => Payee(s) \in Account /\ Payee(s) \notin {Payer(r), Payee(r)}
      BY <2>2, <1>1 DEF LocksHeld, ChecksPassed, AfterDebit, AfterCredit, AfterRecord,
                        InTransaction
    <3>4. VersionsOf(s)
      BY DEF WorkingVersions
    <3>5. pc[s] \in AfterCredit => pc[s] \in AfterDebit
      BY DEF AfterDebit
    <3>. QED
      BY <1>5, <1>6, <3>1, <3>2, <3>3, <3>4, <3>5 DEF VersionsOf, GuardHolds
  <2>3. VersionsOf(r)'
    BY DEF TypeOK, VersionsOf, AfterDebit, AfterCredit, AfterRecord
  <2>. QED
    BY <2>1, <2>2, <2>3 DEF WorkingVersions
<1>9. BalancesStored'
  BY <1>0, <1>2, <1>5, StoredFacts DEF BalancesStored
<1>10. NoOverdraft'
  <2>1. Payee(r) # SystemAccount => working[Payee(r)] >= 0
    <3>1. balance[Payee(r)] + call[r].amount \in Nat \/ Payee(r) = SystemAccount
      BY <1>0 DEF NoOverdraft
    <3>. QED
      BY <1>2, <3>1, StoredFacts, MoneyAssumption
  <2>2. Payer(r) # SystemAccount => working[Payer(r)] >= 0
    BY <1>2 DEF Payer
  <2>. QED
    BY <1>5, <2>1, <2>2 DEF NoOverdraft
<1>. QED
  BY <1>3, <1>4, <1>7, <1>8, <1>9, <1>10

\* The end of the requests R: their rows fall back to the committed versions.
LEMMA RollbackLocking ==
  ASSUME LockingInv, NEW R \in SUBSET Request,
         Rollback(R),
         pc' = [r \in Request |-> IF r \in R THEN "done" ELSE pc[r]],
         status' \in [Request -> Status],
         UNCHANGED <<call, debited, credited>>
  PROVE  LockingInv'
<1>. USE DEF LockingInv
<1>1. TypeOK'
  <2>1. /\ balance' \in [Account -> Int] /\ working' \in [Account -> Int]
        /\ lock' \in [Account -> Request \cup {NoRequest}]
        /\ ledger' \in [Account -> Seq(LedgerEntry)]
    BY DEF Rollback, TypeOK, DatabaseTypeOK
  <2>2. /\ transactions' \subseteq TransactionRow
        /\ inserted' \in [Request -> SUBSET TransactionRow]
        /\ entries' \in [Request -> [Account -> Seq(LedgerEntry)]]
    BY DEF Rollback, TypeOK, DatabaseTypeOK
  <2>. QED
    BY <2>1, <2>2 DEF TypeOK, DatabaseTypeOK, Statement
<1>2. ChecksPassed'
  BY DEF TypeOK, ChecksPassed, InTransaction, Payer, Payee, Sends
<1>3. \A a \in Account :
        /\ balance'[a] = balance[a]
        /\ working'[a] = IF lock[a] \in R THEN balance[a] ELSE working[a]
        /\ lock'[a] = IF lock[a] \in R THEN NoRequest ELSE lock[a]
  BY DEF Rollback, TypeOK, DatabaseTypeOK
<1>4. \A s \in Request : Payer(s)' = Payer(s) /\ Payee(s)' = Payee(s) /\ Sends(s)' = Sends(s)
  BY DEF Payer, Payee, Sends
<1>5. LocksHeld'
  <2>1. SUFFICES ASSUME NEW b \in Account, NEW s \in Request
                 PROVE  lock'[b] = s <=> \/ pc'[s] \in AfterDebit /\ b = Payer(s)
                                         \/ pc'[s] \in AfterCredit /\ b = Payee(s)
    BY <1>4 DEF LocksHeld
  <2>2. pc'[s] = IF s \in R THEN "done" ELSE pc[s]
    OBVIOUS
  <2>3. "done" \notin AfterDebit /\ "done" \notin AfterCredit
    BY DEF AfterDebit, AfterCredit, AfterRecord
  <2>4. lock[b] = s <=> \/ pc[s] \in AfterDebit /\ b = Payer(s)
                        \/ pc[s] \in AfterCredit /\ b = Payee(s)
    BY DEF LocksHeld
  <2>. QED
    BY <1>3, <2>2, <2>3, <2>4, DatabaseAssumption
<1>6. WorkingVersions'
  <2>1. \A b \in Account : lock'[b] = NoRequest => working'[b] = balance'[b]
    BY <1>3 DEF WorkingVersions
  <2>2. ASSUME NEW s \in Request, s \notin R PROVE VersionsOf(s)'
    <3>1. pc'[s] = pc[s]
      BY <2>2
    <3>2. pc[s] \in AfterDebit => Payer(s) \in Account /\ lock[Payer(s)] = s
      BY DEF LocksHeld, ChecksPassed, AfterDebit, AfterCredit, AfterRecord, InTransaction
    <3>3. pc[s] \in AfterCredit => Payee(s) \in Account /\ lock[Payee(s)] = s
      BY DEF LocksHeld, ChecksPassed, AfterDebit, AfterCredit, AfterRecord, InTransaction
    <3>4. VersionsOf(s)
      BY DEF WorkingVersions
    <3>. QED
      BY <1>3, <1>4, <2>2, <3>1, <3>2, <3>3, <3>4 DEF VersionsOf, GuardHolds
  <2>3. ASSUME NEW s \in Request, s \in R PROVE VersionsOf(s)'
    BY <2>3 DEF VersionsOf, AfterDebit, AfterCredit, AfterRecord
  <2>. QED
    BY <2>1, <2>2, <2>3 DEF WorkingVersions
<1>7. BalancesStored' /\ NoOverdraft'
  BY <1>3 DEF BalancesStored, NoOverdraft
<1>. QED
  BY <1>1, <1>2, <1>5, <1>6, <1>7

\* The special case of one request.
LEMMA FailLocking ==
  ASSUME LockingInv, NEW r \in Request, NEW code \in Status, FailWith(r, code)
  PROVE  LockingInv'
<1>1. pc' = [s \in Request |-> IF s \in {r} THEN "done" ELSE pc[s]]
  BY DEF FailWith, Answer, LockingInv, TypeOK
<1>2. status' \in [Request -> Status]
  BY DEF FailWith, Answer, LockingInv, TypeOK
<1>. QED
  BY <1>1, <1>2, RollbackLocking DEF FailWith, Answer

\* Inserting a transaction row keeps the private rows' type.
LEMMA RowTypes ==
  ASSUME TypeOK, NEW r \in Request, Payer(r) \in Account, Payee(r) \in Account,
         InsertTransaction(r, RowOf(r))
  PROVE  inserted' \in [Request -> SUBSET TransactionRow]
<1>1. RowOf(r) \in TransactionRow
  BY CallFacts, StoredFacts DEF RowOf, TransactionRow
<1>. QED
  BY <1>1 DEF InsertTransaction, TypeOK, DatabaseTypeOK

\* Inserting a ledger entry keeps the private entries' type.
LEMMA EntryTypes ==
  ASSUME TypeOK, NEW r \in Request, NEW a \in Account,
         NEW type \in {"DEBIT", "CREDIT", "TOPUP"}, NEW amount \in Int, NEW after \in Int,
         WriteLedger(r, a, type, amount, after)
  PROVE  entries' \in [Request -> [Account -> Seq(LedgerEntry)]]
<1>. DEFINE entry == [tx |-> r, type |-> type, amount |-> Stored(amount),
                      balanceAfter |-> after]
<1>1. entry \in LedgerEntry
  BY StoredFacts DEF LedgerEntry
<1>2. entries' = [entries EXCEPT ![r][a] = Append(@, entry)]
  BY DEF WriteLedger, InsertLedgerEntry
<1>. HIDE DEF entry
<1>. QED
  BY <1>1, <1>2, AppendProperties DEF TypeOK, DatabaseTypeOK

\* Every step preserves the invariant: one step of the proof per action.
LEMMA NextLocking == LockingInv /\ [Next]_vars => LockingInv'
<1>. SUFFICES ASSUME LockingInv, [Next]_vars PROVE LockingInv'
  OBVIOUS
<1>0. TypeOK
  BY DEF LockingInv
<1>1. ASSUME NEW r \in Request, SendMoney(r) PROVE LockingInv'
  <2>. DEFINE refusal == SendRefusal(call[r])
  <2>1. refusal \in Status
    BY DEF SendRefusal, Status
  <2>2. CASE refusal # "none"
    BY <1>0, <1>1, <2>1, <2>2, OutsideLocking DEF SendMoney, Answer, TypeOK
  <2>3. CASE refusal = "none"
    <3>1. /\ Payer(r) \in Account /\ Payee(r) \in Account /\ Payer(r) # Payee(r)
          /\ call[r].amount \in 1 .. MaxAmount
      BY <1>0, <1>1, <2>3, CallFacts, TransfersAssumption
         DEF SendMoney, SendRefusal, Payer, Payee
    <3>. QED
      BY <1>0, <1>1, <2>3, <3>1, OutsideLocking DEF SendMoney, GoTo, TypeOK
  <2>. QED
    BY <2>2, <2>3
<1>2. ASSUME NEW r \in Request, TopUp(r) PROVE LockingInv'
  <2>. DEFINE refusal == TopUpRefusal(call[r])
  <2>1. refusal \in Status
    BY DEF TopUpRefusal, Status
  <2>2. CASE refusal # "none"
    BY <1>0, <1>2, <2>1, <2>2, OutsideLocking DEF TopUp, Answer, TypeOK
  <2>3. CASE refusal = "none"
    <3>1. /\ Payer(r) \in Account /\ Payee(r) \in Account /\ Payer(r) # Payee(r)
          /\ call[r].amount \in 1 .. MaxAmount
      BY <1>0, <1>2, <2>3, CallFacts, TransfersAssumption
         DEF TopUp, TopUpRefusal, Payer, Payee
    <3>. QED
      BY <1>0, <1>2, <2>3, <3>1, OutsideLocking DEF TopUp, GoTo, TypeOK
  <2>. QED
    BY <2>2, <2>3
<1>3. ASSUME NEW r \in Request, DebitSender(r) PROVE LockingInv'
  <2>1. /\ Payer(r) \in Account /\ call[r].amount \in Int
        /\ working[Payer(r)] \in Int
    BY <1>0, <1>3, CallFacts
       DEF DebitSender, LockingInv, ChecksPassed, InTransaction, TypeOK, DatabaseTypeOK
  <2>2. working'[Payer(r)] \in Int
    <3>1. working'[Payer(r)] = Stored(working[Payer(r)] + -call[r].amount)
      BY <1>0, <1>3, <2>1 DEF DebitSender, UpdateBalance, TypeOK, DatabaseTypeOK
    <3>. QED
      BY <2>1, <3>1, StoredFacts
  <2>3. /\ debited' \in [Request -> Int] /\ debited'[r] = working'[Payer(r)]
        /\ \A s \in Request \ {r} : debited'[s] = debited[s]
    BY <1>0, <1>3, <2>2 DEF DebitSender, TypeOK
  <2>. QED
    BY <1>3, <2>3, DebitLocking DEF DebitSender, GoTo
<1>4. ASSUME NEW r \in Request, DebitSystem(r) PROVE LockingInv'
  BY <1>0, <1>4, DebitLocking, CallFacts DEF DebitSystem, GoTo, Payer, TypeOK
<1>5. ASSUME NEW r \in Request, GuardFails(r) PROVE LockingInv'
  BY <1>5, FailLocking DEF GuardFails, FailWith, Status
<1>6. ASSUME NEW r \in Request, CreditReceiver(r) PROVE LockingInv'
  BY <1>6, CreditLocking DEF CreditReceiver, GoTo
<1>7. ASSUME NEW r \in Request, CreditUser(r) PROVE LockingInv'
  BY <1>0, <1>7, CreditLocking, CallFacts DEF CreditUser, GoTo, GuardHolds, Payee
<1>8. ASSUME NEW r \in Request, pc[r] \in InTransaction
      PROVE  Payer(r) \in Account /\ Payee(r) \in Account /\ call[r].amount \in Int
  BY <1>0, <1>8, CallFacts DEF LockingInv, ChecksPassed
<1>9. ASSUME NEW r \in Request, RecordTransfer(r) \/ RecordTopUp(r) PROVE LockingInv'
  <2>1. inserted' \in [Request -> SUBSET TransactionRow]
    BY <1>0, <1>8, <1>9, RowTypes DEF RecordTransfer, RecordTopUp, InTransaction
  <2>2. entries' = entries
    BY <1>9 DEF RecordTransfer, RecordTopUp, InsertTransaction
  <2>. QED
    BY <1>0, <1>9, <2>1, <2>2, InsertLocking
       DEF RecordTransfer, RecordTopUp, InsertTransaction, GoTo, AfterCredit, AfterRecord,
           TypeOK, DatabaseTypeOK
<1>10. ASSUME NEW r \in Request,
              LedgerDebit(r) \/ LedgerCredit(r) \/ LedgerIssued(r) \/ LedgerReceived(r)
       PROVE  LockingInv'
  <2>. USE DEF LedgerDebit, LedgerCredit, LedgerIssued, LedgerReceived
  <2>0. pc[r] \in {"ledgerOut", "ledgerIn"}
    BY <1>10
  <2>1. /\ Payer(r) \in Account /\ Payee(r) \in Account
        /\ call[r].amount \in Int /\ -call[r].amount \in Int
        /\ debited[r] \in Int /\ credited[r] \in Int /\ working[Payer(r)] \in Int
    BY <1>0, <1>8, <2>0 DEF InTransaction, TypeOK, DatabaseTypeOK
  <2>2. TopsUp(r) => Payer(r) = SystemAccount /\ Payee(r) = call[r].user
    BY <1>0, CallFacts DEF Payer, Payee
  <2>3. entries' \in [Request -> [Account -> Seq(LedgerEntry)]]
    BY <1>0, <1>10, <2>1, <2>2, EntryTypes
  <2>4. UNCHANGED <<balance, working, lock, transactions, ledger, inserted>>
    BY <1>10 DEF WriteLedger, InsertLedgerEntry
  <2>5. /\ pc' = [pc EXCEPT ![r] = IF pc[r] = "ledgerOut" THEN "ledgerIn" ELSE "commit"]
        /\ UNCHANGED <<call, status, debited, credited>>
    BY <1>10 DEF GoTo
  <2>. QED
    BY <1>0, <2>0, <2>3, <2>4, <2>5, InsertLocking
       DEF AfterCredit, AfterRecord, TypeOK, DatabaseTypeOK
<1>11. ASSUME NEW r \in Request, DuplicateKey(r) PROVE LockingInv'
  BY <1>11, FailLocking DEF DuplicateKey, Status
<1>12. ASSUME NEW r \in Request, Commit(r) PROVE LockingInv'
  BY <1>0, <1>12, CommitLocking DEF Commit, GoTo, TypeOK
<1>13. ASSUME NEW r \in Request, Respond(r) PROVE LockingInv'
  BY <1>0, <1>13, OutsideLocking DEF Respond, Answer, Status, TypeOK
<1>14. ASSUME NEW r \in Request, DeadlockVictim(r) PROVE LockingInv'
  BY <1>14, FailLocking DEF DeadlockVictim, Status
<1>15. ASSUME NEW r \in Request, TransactionTimesOut(r) PROVE LockingInv'
  BY <1>15, FailLocking DEF TransactionTimesOut, Status
<1>16. ASSUME NEW r \in Request, CommitUnheard(r) PROVE LockingInv'
  BY <1>0, <1>16, CommitLocking DEF CommitUnheard, Answer, Status, TypeOK
<1>17. ASSUME NEW R \in SUBSET Request, Crash(R) PROVE LockingInv'
  <2>1. status' \in [Request -> Status]
    BY <1>0, <1>17 DEF Crash, Status, TypeOK
  <2>. QED
    BY <1>17, <2>1, RollbackLocking DEF Crash
<1>18. CASE UNCHANGED vars
  BY <1>18 DEF vars, requestVars, databaseVars, LockingInv, TypeOK, DatabaseTypeOK,
               ChecksPassed, LocksHeld, WorkingVersions, VersionsOf, BalancesStored,
               NoOverdraft, Payer, Payee, Sends, GuardHolds
<1>. QED
  BY <1>1, <1>2, <1>3, <1>4, <1>5, <1>6, <1>7, <1>9, <1>10, <1>11, <1>12, <1>13, <1>14,
     <1>15, <1>16, <1>17, <1>18 DEF Next, Step

\* LockingInv holds in every reachable state.
THEOREM LockingInvariant == Spec => []LockingInv
<1>. QED
  BY InitLocking, NextLocking, PTL DEF Spec

\* Every variable keeps its type.
THEOREM TypeCorrect == Spec => []TypeOK
<1>1. LockingInv => TypeOK
  BY DEF LockingInv
<1>. QED
  BY <1>1, LockingInvariant, PTL

\* No interleaving of transfers, top-ups, failures and crashes overdraws a customer.
THEOREM NeverOverdrawn == Spec => []NoOverdraft
<1>1. LockingInv => NoOverdraft
  BY DEF LockingInv
<1>. QED
  BY <1>1, LockingInvariant, PTL

\* No call moves a fraction of a cent.
WholeCentCalls == \A c \in Calls : c.amount \in WholeCents

\* What the guard of sendMoney is about: the update it follows has locked the row.
LEMMA GuardReads ==
  ASSUME LockingInv, NEW r \in Request, pc[r] = "credit", Sends(r)
  PROVE  /\ call[r].amount \in Int /\ balance[Payer(r)] \in Int
         /\ balance[Payer(r)] \in WholeCents
         /\ GuardHolds(r) <=> 2 * (call[r].amount - balance[Payer(r)]) < Cent
<1>1. /\ Payer(r) \in Account /\ call[r].amount \in Int
      /\ balance[Payer(r)] \in Int /\ balance[Payer(r)] \in WholeCents
  BY CallFacts
     DEF LockingInv, ChecksPassed, InTransaction, TypeOK, DatabaseTypeOK, BalancesStored
<1>2. debited[r] = Stored(balance[Payer(r)] - call[r].amount)
  BY DEF LockingInv, WorkingVersions, VersionsOf, AfterDebit
<1>3. -(balance[Payer(r)] - call[r].amount) = call[r].amount - balance[Payer(r)]
  BY <1>1
<1>. QED
  BY <1>1, <1>2, <1>3, StoredFacts DEF GuardHolds

\* The guard of sendMoney passes exactly when the committed balance suffices, short of
\* less than half a cent, whatever fractions of a cent there are.
THEOREM GuardIsExact == Spec => []GuardSeesCommittedBalance
<1>1. LockingInv => GuardSeesCommittedBalance
  BY GuardReads DEF GuardSeesCommittedBalance
<1>. QED
  BY <1>1, LockingInvariant, PTL

\* Without fractions of a cent it passes exactly when the committed balance suffices.
THEOREM GuardIsExactOnWholeCents ==
  WholeCentCalls =>
    (Spec => [](\A r \in Request :
                  pc[r] = "credit" /\ Sends(r) =>
                    (GuardHolds(r) <=> balance[Payer(r)] >= call[r].amount)))
<1>. SUFFICES ASSUME WholeCentCalls
              PROVE  Spec => [](\A r \in Request :
                                  pc[r] = "credit" /\ Sends(r) =>
                                    (GuardHolds(r) <=> balance[Payer(r)] >= call[r].amount))
  OBVIOUS
<1>1. LockingInv =>
        \A r \in Request : pc[r] = "credit" /\ Sends(r) =>
          (GuardHolds(r) <=> balance[Payer(r)] >= call[r].amount)
  <2>. SUFFICES ASSUME LockingInv, NEW r \in Request, pc[r] = "credit", Sends(r)
                PROVE  GuardHolds(r) <=> balance[Payer(r)] >= call[r].amount
    OBVIOUS
  <2>. DEFINE short == call[r].amount - balance[Payer(r)]
  <2>1. GuardHolds(r) <=> 2 * short < Cent
    BY GuardReads
  <2>2. call[r].amount \in WholeCents
    BY DEF WholeCentCalls, LockingInv, TypeOK
  <2>3. short \in WholeCents /\ short \in Int
    BY <2>2, GuardReads, WholeCentSums
  <2>4. PICK n \in Int : short = n * Cent
    BY <2>3, WholeCentsAre
  <2>5. 2 * short < Cent <=> short <= 0
    BY <2>3, <2>4, MoneyAssumption
  <2>. QED
    BY <2>1, <2>5, GuardReads
<1>. QED
  BY <1>1, LockingInvariant, PTL

(***************************************************************************)
(* The book: one row per successful request, and the bank it implements    *)
(***************************************************************************)

\* The rows of requests are theirs: the call never changes.
LEMMA RowsStay ==
  ASSUME call' = call
  PROVE  \A r \in Request : RowOf(r)' = RowOf(r) /\ RowOf(r).id = r
                            /\ RowOf(r).key = call[r].key
BY DEF RowOf, Payer, Payee, Sends

\* The initial states satisfy the invariant.
LEMMA InitBook == Init => BookInv
BY DEF Init, DatabaseInit, BookInv, PrivateRows, CommittedRows, KeysUnique,
       AnswersFollowCommits, AnswersAreTrue, AfterRecord

\* A move from one statement to the next, on the same side of the insert.
LEMMA MoveBook ==
  ASSUME TypeOK, BookInv, NEW r \in Request,
         NEW next \in Statement \ {"respond", "done"},
         pc[r] \notin {"respond", "done"},
         pc[r] \in AfterRecord <=> next \in AfterRecord,
         pc' = [pc EXCEPT ![r] = next],
         UNCHANGED <<call, status, inserted, transactions>>
  PROVE  BookInv'
<1>. USE DEF BookInv
<1>1. \A s \in Request : /\ pc'[s] \in AfterRecord <=> pc[s] \in AfterRecord
                         /\ pc'[s] = "done" <=> pc[s] = "done"
                         /\ pc'[s] = "respond" <=> pc[s] = "respond"
  BY DEF TypeOK
<1>2. PrivateRows'
  BY <1>1, RowsStay DEF PrivateRows
<1>3. CommittedRows'
  <2>1. \A row \in transactions : row.id \in Request
    BY DEF TypeOK, DatabaseTypeOK, TransactionRow
  <2>. QED
    BY <1>1, <2>1, RowsStay DEF CommittedRows
<1>4. KeysUnique'
  BY <1>1 DEF KeysUnique, KeyCommitted, KeyPending
<1>5. AnswersFollowCommits' /\ AnswersAreTrue'
  BY <1>1 DEF AnswersFollowCommits, AnswersAreTrue, Paid
<1>. QED
  BY <1>2, <1>3, <1>4, <1>5

\* The insert of the row: the unique index has seen its key nowhere.
LEMMA InsertBook ==
  ASSUME TypeOK, BookInv, NEW r \in Request,
         pc[r] = "record", InsertTransaction(r, RowOf(r)),
         pc' = [pc EXCEPT ![r] = "ledgerOut"],
         UNCHANGED <<call, status>>
  PROVE  BookInv'
<1>. USE DEF BookInv
<1>1. /\ inserted[r] = {} /\ transactions' = transactions
      /\ inserted' = [inserted EXCEPT ![r] = {RowOf(r)}]
  BY DEF InsertTransaction, PrivateRows, AfterRecord
<1>2. \A s \in Request :
        /\ pc'[s] = IF s = r THEN "ledgerOut" ELSE pc[s]
        /\ inserted'[s] = IF s = r THEN {RowOf(r)} ELSE inserted[s]
  BY <1>1 DEF TypeOK, DatabaseTypeOK
<1>3. "ledgerOut" \in AfterRecord /\ "ledgerOut" \notin {"respond", "done"}
  BY DEF AfterRecord
<1>4. PrivateRows'
  BY <1>2, <1>3, RowsStay DEF PrivateRows
<1>5. CommittedRows'
  <2>1. \A row \in transactions : row.id \in Request
    BY DEF TypeOK, DatabaseTypeOK, TransactionRow
  <2>. QED
    BY <1>1, <1>2, <2>1, RowsStay DEF CommittedRows
<1>6. KeysUnique'
  <2>1. ~KeyCommitted(call[r].key) /\ ~KeyPending(r, call[r].key)
    BY RowsStay DEF InsertTransaction
  <2>2. ASSUME NEW s \in Request, pc'[s] \in AfterRecord
        PROVE  ~KeyCommitted(call[s].key)' /\ ~KeyPending(s, call[s].key)'
    <3>1. CASE s = r
      BY <3>1, <1>1, <1>2, <2>1 DEF KeyCommitted, KeyPending
    <3>2. CASE s # r
      <4>1. pc[s] \in AfterRecord
        BY <3>2, <1>2, <2>2
      <4>2. call[s].key # call[r].key
        <5>1. RowOf(s) \in inserted[s] /\ RowOf(s).key = call[s].key
          BY <4>1 DEF PrivateRows, RowOf
        <5>. QED
          BY <5>1, <3>2, <2>1 DEF KeyPending
      <4>3. ~KeyCommitted(call[s].key) /\ ~KeyPending(s, call[s].key)
        BY <4>1 DEF KeysUnique
      <4>. QED
        BY <3>2, <1>1, <1>2, <4>2, <4>3, RowsStay DEF KeyCommitted, KeyPending
    <3>. QED
      BY <3>1, <3>2
  <2>. QED
    BY <1>1, <2>2 DEF KeysUnique
<1>7. AnswersFollowCommits' /\ AnswersAreTrue'
  BY <1>1, <1>2, <1>3 DEF AnswersFollowCommits, AnswersAreTrue, Paid
<1>. QED
  BY <1>4, <1>5, <1>6, <1>7

\* A commit: the private row becomes a committed one, whose key is fresh.
LEMMA CommitBook ==
  ASSUME TypeOK, BookInv, NEW r \in Request, NEW next \in {"respond", "done"},
         NEW code \in {"none", "500"}, next = "respond" => code = "none",
         pc[r] = "commit", CommitTransaction(r),
         pc' = [pc EXCEPT ![r] = next],
         status' = [status EXCEPT ![r] = code],
         call' = call
  PROVE  BookInv'
<1>. USE DEF BookInv
<1>1. /\ inserted[r] = {RowOf(r)}
      /\ transactions' = transactions \cup {RowOf(r)}
      /\ inserted' = [inserted EXCEPT ![r] = {}]
  BY DEF CommitTransaction, PrivateRows, AfterRecord
<1>2. \A s \in Request :
        /\ pc'[s] = IF s = r THEN next ELSE pc[s]
        /\ status'[s] = IF s = r THEN code ELSE status[s]
        /\ inserted'[s] = IF s = r THEN {} ELSE inserted[s]
  BY <1>1 DEF TypeOK, DatabaseTypeOK
<1>3. next \notin AfterRecord /\ "commit" \in AfterRecord
  BY DEF AfterRecord
<1>4. PrivateRows'
  BY <1>2, <1>3, RowsStay DEF PrivateRows
<1>5. CommittedRows'
  <2>1. \A row \in transactions : row.id \in Request
    BY DEF TypeOK, DatabaseTypeOK, TransactionRow
  <2>. QED
    BY <1>1, <1>2, <2>1, RowsStay DEF CommittedRows
<1>6. KeysUnique'
  <2>1. ~KeyCommitted(call[r].key) /\ ~KeyPending(r, call[r].key)
    BY <1>3 DEF KeysUnique
  <2>2. \A row1, row2 \in transactions' : row1.key = row2.key => row1 = row2
    BY <1>1, <2>1, RowsStay DEF KeysUnique, KeyCommitted
  <2>3. ASSUME NEW s \in Request, pc'[s] \in AfterRecord
        PROVE  ~KeyCommitted(call[s].key)' /\ ~KeyPending(s, call[s].key)'
    <3>1. s # r /\ pc[s] \in AfterRecord
      BY <1>2, <1>3, <2>3
    <3>2. call[s].key # call[r].key
      <4>1. RowOf(s) \in inserted[s] /\ RowOf(s).key = call[s].key
        BY <3>1 DEF PrivateRows, RowOf
      <4>. QED
        BY <4>1, <3>1, <2>1 DEF KeyPending
    <3>3. ~KeyCommitted(call[s].key) /\ ~KeyPending(s, call[s].key)
      BY <3>1 DEF KeysUnique
    <3>. QED
      BY <1>1, <1>2, <3>2, <3>3, RowsStay DEF KeyCommitted, KeyPending
  <2>. QED
    BY <2>2, <2>3 DEF KeysUnique
<1>7. Paid' = Paid \cup {r}
  BY <1>1, RowsStay DEF Paid
<1>8. AnswersFollowCommits' /\ AnswersAreTrue'
  BY <1>2, <1>7 DEF AnswersFollowCommits, AnswersAreTrue
<1>. QED
  BY <1>4, <1>5, <1>6, <1>8

\* The end of the requests R without a success: their private rows are gone.
LEMMA EndBook ==
  ASSUME TypeOK, BookInv, NEW R \in SUBSET Request,
         \A r \in R : pc[r] # "done",
         pc' = [r \in Request |-> IF r \in R THEN "done" ELSE pc[r]],
         inserted' = [r \in Request |-> IF r \in R THEN {} ELSE inserted[r]],
         \A r \in Request \ R : status'[r] = status[r],
         \A r \in R : /\ status'[r] \notin {"200", "201"}
                      /\ pc[r] = "respond" => status'[r] = "lost",
         UNCHANGED <<call, transactions>>
  PROVE  BookInv'
<1>. USE DEF BookInv
<1>1. "done" \notin AfterRecord
  BY DEF AfterRecord
<1>2. PrivateRows'
  BY <1>1, RowsStay DEF PrivateRows
<1>3. CommittedRows'
  <2>1. \A row \in transactions : row.id \in Request
    BY DEF TypeOK, DatabaseTypeOK, TransactionRow
  <2>. QED
    BY <2>1, RowsStay DEF CommittedRows
<1>4. KeysUnique'
  BY <1>1 DEF KeysUnique, KeyCommitted, KeyPending
<1>5. \A r \in Paid : pc[r] \in {"respond", "done"}
  BY DEF Paid, CommittedRows
<1>6. AnswersFollowCommits' /\ AnswersAreTrue'
  BY <1>5 DEF AnswersFollowCommits, AnswersAreTrue, Paid
<1>. QED
  BY <1>2, <1>3, <1>4, <1>6

\* The end of a single request whose transaction, if any, is rolled back.
LEMMA FailBook ==
  ASSUME TypeOK, BookInv, NEW r \in Request, NEW code \in {"409", "500"},
         pc[r] \in InTransaction, FailWith(r, code)
  PROVE  BookInv'
<1>1. /\ pc' = [s \in Request |-> IF s \in {r} THEN "done" ELSE pc[s]]
      /\ status'[r] = code /\ \A s \in Request \ {r} : status'[s] = status[s]
      /\ inserted' = [s \in Request |-> IF s \in {r} THEN {} ELSE inserted[s]]
      /\ UNCHANGED <<call, transactions>>
  BY DEF FailWith, Answer, Rollback, TypeOK
<1>2. pc[r] \notin {"respond", "done"}
  BY DEF InTransaction
<1>. QED
  BY <1>1, <1>2, EndBook

\* A refusal before the transaction: there is nothing to roll back.
LEMMA RefuseBook ==
  ASSUME TypeOK, BookInv, NEW r \in Request, NEW code \in Status \ {"200", "201"},
         pc[r] = "arrive", Answer(r, code), UNCHANGED databaseVars
  PROVE  BookInv'
<1>1. inserted[r] = {} /\ inserted \in [Request -> SUBSET TransactionRow]
  BY DEF BookInv, PrivateRows, AfterRecord, TypeOK, DatabaseTypeOK
<1>2. /\ pc' = [s \in Request |-> IF s \in {r} THEN "done" ELSE pc[s]]
      /\ status'[r] = code /\ \A s \in Request \ {r} : status'[s] = status[s]
      /\ inserted' = [s \in Request |-> IF s \in {r} THEN {} ELSE inserted[s]]
      /\ UNCHANGED <<call, transactions>>
  BY <1>1 DEF Answer, databaseVars, TypeOK
<1>. QED
  BY <1>2, EndBook

\* Every step preserves the invariant: one step of the proof per kind of action.
LEMMA NextBook == TypeOK /\ BookInv /\ [Next]_vars => BookInv'
<1>. SUFFICES ASSUME TypeOK, BookInv, [Next]_vars PROVE BookInv'
  OBVIOUS
<1>1. ASSUME NEW r \in Request, SendMoney(r) PROVE BookInv'
  <2>. DEFINE refusal == SendRefusal(call[r])
  <2>1. refusal \in Status \ {"200", "201"}
    BY DEF SendRefusal, Status
  <2>2. CASE refusal # "none"
    BY <1>1, <2>1, <2>2, RefuseBook DEF SendMoney
  <2>3. CASE refusal = "none"
    BY <1>1, <2>3, MoveBook DEF SendMoney, GoTo, databaseVars, Statement, AfterRecord
  <2>. QED
    BY <2>2, <2>3
<1>2. ASSUME NEW r \in Request, TopUp(r) PROVE BookInv'
  <2>. DEFINE refusal == TopUpRefusal(call[r])
  <2>1. refusal \in Status \ {"200", "201"}
    BY DEF TopUpRefusal, Status
  <2>2. CASE refusal # "none"
    BY <1>2, <2>1, <2>2, RefuseBook DEF TopUp
  <2>3. CASE refusal = "none"
    BY <1>2, <2>3, MoveBook DEF TopUp, GoTo, databaseVars, Statement, AfterRecord
  <2>. QED
    BY <2>2, <2>3
<1>3. ASSUME NEW r \in Request,
             \/ DebitSender(r) \/ DebitSystem(r) \/ CreditReceiver(r) \/ CreditUser(r)
      PROVE  BookInv'
  <2>1. /\ pc[r] \in {"debit", "credit"}
        /\ pc' = [pc EXCEPT ![r] = IF pc[r] = "debit" THEN "credit" ELSE "record"]
        /\ UNCHANGED <<call, status, inserted, transactions>>
    BY <1>3 DEF DebitSender, DebitSystem, CreditReceiver, CreditUser, UpdateBalance, GoTo
  <2>. QED
    BY <2>1, MoveBook DEF Statement, AfterRecord
<1>4. ASSUME NEW r \in Request,
             LedgerDebit(r) \/ LedgerCredit(r) \/ LedgerIssued(r) \/ LedgerReceived(r)
      PROVE  BookInv'
  <2>1. /\ pc[r] \in {"ledgerOut", "ledgerIn"}
        /\ pc' = [pc EXCEPT ![r] = IF pc[r] = "ledgerOut" THEN "ledgerIn" ELSE "commit"]
        /\ UNCHANGED <<call, status, inserted, transactions>>
    BY <1>4 DEF LedgerDebit, LedgerCredit, LedgerIssued, LedgerReceived, WriteLedger,
                InsertLedgerEntry, GoTo
  <2>. QED
    BY <2>1, MoveBook DEF Statement, AfterRecord
<1>5. ASSUME NEW r \in Request, RecordTransfer(r) \/ RecordTopUp(r) PROVE BookInv'
  BY <1>5, InsertBook DEF RecordTransfer, RecordTopUp, GoTo
<1>6. ASSUME NEW r \in Request, GuardFails(r) PROVE BookInv'
  BY <1>6, FailBook DEF GuardFails, FailWith, InTransaction
<1>7. ASSUME NEW r \in Request, DuplicateKey(r) PROVE BookInv'
  BY <1>7, FailBook DEF DuplicateKey, InTransaction
<1>8. ASSUME NEW r \in Request, DeadlockVictim(r) PROVE BookInv'
  <2>1. pc[r] \in InTransaction
    BY <1>8 DEF DeadlockVictim, WaitCycle, WaitsFor, InTransaction
  <2>. QED
    BY <1>8, <2>1, FailBook DEF DeadlockVictim
<1>9. ASSUME NEW r \in Request, TransactionTimesOut(r) PROVE BookInv'
  BY <1>9, FailBook DEF TransactionTimesOut
<1>10. ASSUME NEW r \in Request, Commit(r) PROVE BookInv'
  <2>1. status' = [status EXCEPT ![r] = "none"]
    BY <1>10 DEF Commit, GoTo, BookInv, AnswersFollowCommits, TypeOK
  <2>. QED
    BY <1>10, <2>1, CommitBook DEF Commit, GoTo
<1>11. ASSUME NEW r \in Request, CommitUnheard(r) PROVE BookInv'
  BY <1>11, CommitBook DEF CommitUnheard, Answer
<1>12. ASSUME NEW r \in Request, Respond(r) PROVE BookInv'
  <2>1. r \in Paid /\ pc[r] = "respond"
    BY <1>12 DEF Respond, BookInv, AnswersFollowCommits
  <2>2. /\ pc' = [pc EXCEPT ![r] = "done"]
        /\ \E code \in {"200", "201"} : status' = [status EXCEPT ![r] = code]
        /\ UNCHANGED <<call, inserted, transactions>>
    BY <1>12 DEF Respond, Answer, databaseVars
  <2>3. PrivateRows'
    BY <2>1, <2>2, RowsStay DEF BookInv, PrivateRows, AfterRecord, TypeOK
  <2>4. CommittedRows'
    <3>1. \A row \in transactions : row.id \in Request
      BY DEF TypeOK, DatabaseTypeOK, TransactionRow
    <3>. QED
      BY <2>2, <3>1, RowsStay DEF BookInv, CommittedRows, TypeOK
  <2>5. KeysUnique'
    BY <2>1, <2>2
       DEF BookInv, KeysUnique, KeyCommitted, KeyPending, AfterRecord, TypeOK
  <2>6. AnswersFollowCommits' /\ AnswersAreTrue'
    BY <2>1, <2>2 DEF BookInv, AnswersFollowCommits, AnswersAreTrue, Paid, TypeOK
  <2>. QED
    BY <2>3, <2>4, <2>5, <2>6 DEF BookInv
<1>13. ASSUME NEW R \in SUBSET Request, Crash(R) PROVE BookInv'
  BY <1>13, EndBook DEF Crash, Rollback, InTransaction
<1>14. CASE UNCHANGED vars
  BY <1>14 DEF vars, requestVars, databaseVars, BookInv, PrivateRows, CommittedRows,
               KeysUnique, KeyCommitted, KeyPending, AnswersFollowCommits, AnswersAreTrue,
               Paid, RowOf, Payer, Payee, Sends
<1>. QED
  BY <1>1, <1>2, <1>3, <1>4, <1>5, <1>6, <1>7, <1>8, <1>9, <1>10, <1>11, <1>12, <1>13,
     <1>14 DEF Next, Step

\* BookInv holds in every reachable state.
THEOREM BookInvariant == Spec => []BookInv
<1>. QED
  BY InitBook, NextBook, TypeCorrect, PTL DEF Spec

\* Success is only reported of a payment that has happened, a 4xx only of one
\* that has not, whatever fails in between.
THEOREM AnswersTrue == Spec => []AnswersAreTrue
<1>1. BookInv => AnswersAreTrue
  BY DEF BookInv
<1>. QED
  BY <1>1, BookInvariant, PTL

(***************************************************************************)
(* The refinement.  Amounts must be whole cents: the column rounds others  *)
(* differently on the two sides of a payment.                              *)
(***************************************************************************)

\* A commit is a payment of the bank.
LEMMA CommitPays ==
  ASSUME WholeCentCalls, LockingInv, BookInv, NEW r \in Request,
         pc[r] = "commit", CommitTransaction(r)
  PROVE  TheBank!Next
<1>. DEFINE p == [key |-> call[r].key, sender |-> Payer(r), receiver |-> Payee(r),
                  amount |-> call[r].amount]
<1>1. /\ Payer(r) \in Account /\ Payee(r) \in Account /\ Payer(r) # Payee(r)
      /\ call[r].amount \in PayableAmounts /\ call[r].key \in Key
      /\ call[r].amount \in Int
      /\ balance[Payer(r)] \in Int /\ balance[Payee(r)] \in Int
      /\ balance[Payer(r)] \in WholeCents /\ balance[Payee(r)] \in WholeCents
  BY CallFacts, TransfersAssumption
     DEF LockingInv, ChecksPassed, InTransaction, TypeOK, DatabaseTypeOK, PayableAmounts,
         WholeCentCalls, BalancesStored
<1>2. p \in TheBank!Payment
  BY <1>1 DEF TheBank!Payment
<1>3. transactions' = transactions \cup {RowOf(r)}
  BY DEF CommitTransaction, BookInv, PrivateRows, AfterRecord
<1>4. Stored(call[r].amount) = call[r].amount
  BY <1>1, StoredFacts DEF PayableAmounts
<1>5. Book' = Book \cup {p}
  <2>. DEFINE Entry(row) == [key |-> row.key, sender |-> row.sender,
                             receiver |-> row.receiver, amount |-> row.amount]
  <2>1. Entry(RowOf(r)) = p
    BY <1>4 DEF RowOf
  <2>2. Book = {Entry(row) : row \in transactions}
    BY DEF Book
  <2>3. Book' = {Entry(row) : row \in transactions'}
    BY DEF Book
  <2>. HIDE DEF Entry, p
  <2>. QED
    BY <1>3, <2>1, <2>2, <2>3
<1>6. \A q \in Book : q.key # p.key
  BY DEF Book, BookInv, KeysUnique, KeyCommitted, AfterRecord
<1>7. /\ working[Payer(r)] = balance[Payer(r)] - call[r].amount
      /\ working[Payee(r)] = balance[Payee(r)] + call[r].amount
      /\ Payer(r) = SystemAccount \/ working[Payer(r)] >= 0
  <2>1. /\ working[Payer(r)] = Stored(balance[Payer(r)] - call[r].amount)
        /\ working[Payee(r)] = Stored(balance[Payee(r)] + call[r].amount)
        /\ Sends(r) => working[Payer(r)] >= 0
    BY DEF LockingInv, WorkingVersions, VersionsOf, GuardHolds, AfterDebit, AfterCredit,
           AfterRecord
  <2>2. /\ balance[Payer(r)] - call[r].amount \in WholeCents
        /\ balance[Payee(r)] + call[r].amount \in WholeCents
    BY <1>1, WholeCentSums DEF PayableAmounts
  <2>3. ~Sends(r) => Payer(r) = SystemAccount
    BY DEF Payer
  <2>. QED
    BY <1>1, <2>1, <2>2, <2>3, StoredFacts DEF WholeCents
<1>8. balance' = [balance EXCEPT ![p.sender] = @ - p.amount,
                                 ![p.receiver] = @ + p.amount]
  <2>1. \A a \in Account : lock[a] = r <=> a \in {Payer(r), Payee(r)}
    BY DEF LockingInv, LocksHeld, AfterDebit, AfterCredit, AfterRecord
  <2>2. balance' = [a \in Account |->
                      IF a \in {Payer(r), Payee(r)} THEN working[a] ELSE balance[a]]
    BY <2>1 DEF CommitTransaction
  <2>. QED
    BY <1>1, <1>7, <2>2 DEF LockingInv, TypeOK, DatabaseTypeOK
<1>9. p.sender = SystemAccount \/ balance[p.sender] >= p.amount
  BY <1>1, <1>7
<1>. QED
  BY <1>1, <1>2, <1>5, <1>6, <1>8, <1>9 DEF TheBank!Next, TheBank!Pay

\* Every other step leaves the balances and the book alone.
LEMMA OtherStepsStutter ==
  ASSUME [Next]_vars, ~\E r \in Request : Commit(r) \/ CommitUnheard(r)
  PROVE  UNCHANGED <<balance, Book>>
<1>1. UNCHANGED <<balance, transactions>>
  BY DEF Next, Step, vars, requestVars, databaseVars, SendMoney, DebitSender, GuardFails,
         CreditReceiver, RecordTransfer, LedgerDebit, LedgerCredit, TopUp, DebitSystem,
         CreditUser, RecordTopUp, LedgerIssued, LedgerReceived, DuplicateKey, Respond,
         DeadlockVictim, TransactionTimesOut, Crash, FailWith, Rollback, UpdateBalance,
         InsertTransaction, WriteLedger, InsertLedgerEntry
<1>. QED
  BY <1>1 DEF Book

\* With whole-cent amounts, the concurrent services implement the bank of Bank.tla:
\* every commit is one indivisible payment, every other step changes nothing.
THEOREM TransfersImplementBank == WholeCentCalls => (Spec => ImplementsBank)
<1>. SUFFICES ASSUME WholeCentCalls PROVE Spec => ImplementsBank
  OBVIOUS
<1>1. Init => TheBank!Init
  BY DEF Init, DatabaseInit, TheBank!Init, Book
<1>2. LockingInv /\ BookInv /\ [Next]_vars => [TheBank!Next]_(TheBank!bankVars)
  <2>. SUFFICES ASSUME LockingInv, BookInv, [Next]_vars
                PROVE  [TheBank!Next]_(TheBank!bankVars)
    OBVIOUS
  <2>1. CASE \E r \in Request : Commit(r) \/ CommitUnheard(r)
    BY <2>1, CommitPays DEF Commit, CommitUnheard
  <2>2. CASE ~\E r \in Request : Commit(r) \/ CommitUnheard(r)
    BY <2>2, OtherStepsStutter DEF TheBank!bankVars
  <2>. QED
    BY <2>1, <2>2
<1>. QED
  BY <1>1, <1>2, LockingInvariant, BookInvariant, PTL DEF Spec, ImplementsBank, TheBank!Spec

(***************************************************************************)
(* The total.  A fold over the accounts cannot be taken apart by recursion *)
(* here, but sums over all sets of accounts can be compared: a set where   *)
(* two of them differ would contain a smaller one.                         *)
(***************************************************************************)

\* Of some sets of accounts, one contains no other: the induction over finite sets.
LEMMA LeastSet ==
  ASSUME NEW T \in SUBSET (SUBSET Account), T # {}
  PROVE  \E m \in T : \A n \in T : n \subseteq m => n = m
<1>. DEFINE R == StrictSubsetOrdering(Account)
<1>1. IsWellFoundedOn(R, SUBSET Account)
  <2>1. IsFiniteSet(Account)
    BY DatabaseAssumption
  <2>. QED
    BY <2>1, FS_StrictSubsetOrderingWellFounded, FS_FiniteSubsetsOfFinite
<1>2. \A m, n \in SUBSET Account : n \subseteq m /\ n # m => <<n, m>> \in R
  BY DEF StrictSubsetOrdering
<1>. HIDE DEF R
<1>3. PICK m \in T : \A n \in T : ~ (<<n, m>> \in R)
  BY <1>1, WFMin
<1>. QED
  BY <1>2, <1>3

\* h has the sums of f over every set of accounts, whichever is taken out first.
IsSum(h, f) ==
  /\ h \in [SUBSET Account -> Int] /\ h[{}] = 0
  /\ \A s \in SUBSET Account : \A x \in s : h[s] = f[x] + h[s \ {x}]

\* Such sums are what SumFunction's fold computes, whichever account it chooses next.
LEMMA SumIs ==
  ASSUME NEW f \in [Account -> Int], NEW h, IsSum(h, f)
  PROVE SumFunction(f) = h[Account]
<1>. DEFINE Some(s) == CHOOSE x \in s : TRUE
            Is(g) == g = [s \in SUBSET Account |->
                            IF s = {} THEN 0 ELSE f[Some(s)] + g[s \ {Some(s)}]]
<1>1. PICK g : g = CHOOSE i : Is(i)
  OBVIOUS
<1>2. SumFunction(f) = g[Account]
  BY <1>1 DEF SumFunction, SumFunctionOnSet, FoldFunctionOnSet, MapThenFoldSet
<1>3. \A s \in SUBSET Account : s # {} => Some(s) \in s
  OBVIOUS
<1>. HIDE DEF Some
<1>4. Is(h)
  <2>1. \A s \in SUBSET Account : h[s] = IF s = {} THEN 0 ELSE f[Some(s)] + h[s \ {Some(s)}]
    BY <1>3 DEF IsSum
  <2>2. h = [s \in SUBSET Account |-> h[s]]
    BY DEF IsSum
  <2>. QED
    BY <2>1, <2>2
<1>5. Is(g)
  BY <1>1, <1>4
<1>6. \A s \in SUBSET Account : g[s] = h[s]
  <2>. DEFINE Bad == {s \in SUBSET Account : g[s] # h[s]}
  <2>. SUFFICES ASSUME Bad # {} PROVE FALSE
    OBVIOUS
  <2>0. Bad \in SUBSET (SUBSET Account)
    OBVIOUS
  <2>1. PICK s \in Bad : \A n \in Bad : n \subseteq s => n = s
    BY <2>0, LeastSet
  <2>2. s # {}
    BY <1>4, <1>5
  <2>3. PICK x \in s : x = Some(s)
    BY <1>3, <2>2
  <2>4. s \ {x} \in SUBSET Account /\ s \ {x} \notin Bad
    BY <2>1, <2>3
  <2>5. g[s \ {x}] = h[s \ {x}]
    BY <2>4
  <2>6. g[s] = f[x] + g[s \ {x}]
    BY <1>5, <2>2, <2>3
  <2>7. h[s] = f[x] + h[s \ {x}]
    BY <1>4, <2>2, <2>3
  <2>. QED
    BY <2>5, <2>6, <2>7
<1>. QED
  BY <1>2, <1>6

\* There are such sums: an account more adds its value to every sum.
LEMMA SumExists ==
  ASSUME NEW f \in [Account -> Int]
  PROVE  \E h : IsSum(h, f)
<1>. DEFINE Sums(h, T) == /\ h[{}] = 0
                          /\ \A s \in SUBSET T : \A x \in s : h[s] = f[x] + h[s \ {x}]
            Bad == {T \in SUBSET Account : ~ \E h \in [SUBSET Account -> Int] : Sums(h, T)}
<1>1. Bad = {}
  <2>. SUFFICES ASSUME Bad # {} PROVE FALSE
    OBVIOUS
  <2>0. Bad \in SUBSET (SUBSET Account)
    OBVIOUS
  <2>. HIDE DEF Sums
  <2>1. PICK T \in Bad : \A U \in Bad : U \subseteq T => U = T
    BY <2>0, LeastSet
  <2>2. T # {}
    <3>. DEFINE none == [s \in SUBSET Account |-> 0]
    <3>1. none \in [SUBSET Account -> Int] /\ Sums(none, {})
      BY DEF Sums
    <3>. QED
      BY <3>1
  <2>3. PICK a \in T : TRUE
    BY <2>2
  <2>4. T \in SUBSET Account /\ T \ {a} \in SUBSET Account /\ a \in Account
    OBVIOUS
  <2>5. PICK h \in [SUBSET Account -> Int] : Sums(h, T \ {a})
    <3>1. T \ {a} \subseteq T /\ T \ {a} # T
      BY <2>3
    <3>2. T \ {a} \notin Bad
      BY <2>1, <3>1
    <3>. QED
      BY <2>4, <3>2
  <2>6. PICK more \in [SUBSET Account -> Int] :
          \A s \in SUBSET Account : more[s] = IF a \in s THEN f[a] + h[s \ {a}] ELSE h[s]
    <3>. DEFINE more == [s \in SUBSET Account |-> IF a \in s THEN f[a] + h[s \ {a}] ELSE h[s]]
    <3>1. more \in [SUBSET Account -> Int]
      BY <2>4
    <3>. QED
      BY <3>1
  <2>7. more[{}] = 0
    BY <2>5, <2>6 DEF Sums
  <2>8. ASSUME NEW s \in SUBSET T, NEW x \in s
        PROVE  more[s] = f[x] + more[s \ {x}]
    <3>1. /\ s \in SUBSET Account /\ s \ {x} \in SUBSET Account
          /\ x \in Account /\ f[x] \in Int /\ f[a] \in Int
      BY <2>4
    <3>2. CASE a \notin s
      <4>1. s \in SUBSET (T \ {a})
        BY <3>2
      <4>2. h[s] = f[x] + h[s \ {x}]
        BY <2>5, <4>1 DEF Sums
      <4>. QED
        BY <2>6, <3>1, <3>2, <4>2
    <3>3. CASE x = a
      <4>1. a \notin s \ {x}
        BY <3>3
      <4>. QED
        BY <2>6, <3>1, <3>3, <4>1
    <3>4. CASE a \in s /\ x # a
      <4>1. s \ {a} \in SUBSET (T \ {a}) /\ x \in s \ {a} /\ a \in s \ {x}
        BY <3>4
      <4>2. (s \ {a}) \ {x} = (s \ {x}) \ {a}
        OBVIOUS
      <4>3. PICK rest \in Int : rest = h[(s \ {x}) \ {a}]
        BY <3>1
      <4>4. h[s \ {a}] = f[x] + rest
        <5>1. h[s \ {a}] = f[x] + h[(s \ {a}) \ {x}]
          BY <2>5, <4>1 DEF Sums
        <5>. QED
          BY <4>2, <4>3, <5>1
      <4>5. more[s] = f[a] + h[s \ {a}] /\ more[s \ {x}] = f[a] + rest
        BY <2>6, <3>1, <3>4, <4>1, <4>3
      <4>. QED
        BY <3>1, <4>4, <4>5
    <3>. QED
      BY <3>2, <3>3, <3>4
  <2>9. Sums(more, T)
    BY <2>7, <2>8 DEF Sums
  <2>. QED
    BY <2>1, <2>9
<1>2. Account \in SUBSET Account /\ Account \notin Bad
  BY <1>1
<1>3. PICK h \in [SUBSET Account -> Int] : Sums(h, Account)
  BY <1>2
<1>. QED
  BY <1>3 DEF IsSum, Sums

SameOn(S, f, g) == \A x \in S : f[x] = g[x]

\* Sums over a set depend on the values there only.
LEMMA SameSum ==
  ASSUME NEW f, NEW g, NEW h, NEW i, IsSum(h, f), IsSum(i, g),
         NEW S \in SUBSET Account, SameOn(S, f, g)
  PROVE  h[S] = i[S]
<1>. DEFINE Bad == {s \in SUBSET S : h[s] # i[s]}
<1>1. Bad = {}
  <2>. SUFFICES ASSUME Bad # {} PROVE FALSE
    OBVIOUS
  <2>0. Bad \in SUBSET (SUBSET Account)
    OBVIOUS
  <2>1. PICK s \in Bad : \A n \in Bad : n \subseteq s => n = s
    BY <2>0, LeastSet
  <2>2. s # {}
    BY DEF IsSum
  <2>3. PICK x \in s : TRUE
    BY <2>2
  <2>4. s \ {x} \in SUBSET S /\ s \ {x} \notin Bad /\ s \in SUBSET Account /\ x \in S
    BY <2>1, <2>3
  <2>5. h[s \ {x}] = i[s \ {x}] /\ f[x] = g[x]
    BY <2>4 DEF SameOn
  <2>6. h[s] = f[x] + h[s \ {x}] /\ i[s] = g[x] + i[s \ {x}]
    BY <2>4 DEF IsSum
  <2>. QED
    BY <2>5, <2>6
<1>. QED
  BY <1>1

\* A sum that one account gives and another receives leaves the total as it was.
LEMMA MovedNotLost ==
  ASSUME NEW f \in [Account -> Int], NEW p \in Account, NEW q \in Account, p # q, NEW x \in Int,
         NEW g \in [Account -> Int],
         g[p] = f[p] - x, g[q] = f[q] + x, SameOn(Account \ {p, q}, f, g)
  PROVE  SumFunction(g) = SumFunction(f)
<1>1. PICK h : IsSum(h, f)
  BY SumExists
<1>2. PICK i : IsSum(i, g)
  BY SumExists
<1>3. PICK S \in SUBSET Account : S = (Account \ {p}) \ {q}
  OBVIOUS
<1>4. h[S] = i[S]
  <2>1. S = Account \ {p, q}
    BY <1>3
  <2>2. SameOn(S, f, g)
    BY <2>1
  <2>. QED
    BY <1>1, <1>2, <1>3, <2>2, SameSum
<1>5. h[Account] = f[p] + (f[q] + h[S]) /\ h[S] \in Int
  <2>1. Account \in SUBSET Account /\ Account \ {p} \in SUBSET Account /\ q \in Account \ {p}
    OBVIOUS
  <2>2. h[Account] = f[p] + h[Account \ {p}] /\ h[Account \ {p}] = f[q] + h[S] /\ h[S] \in Int
    BY <1>1, <1>3, <2>1 DEF IsSum
  <2>. QED
    BY <2>2
<1>6. i[Account] = g[p] + (g[q] + i[S])
  <2>1. Account \in SUBSET Account /\ Account \ {p} \in SUBSET Account /\ q \in Account \ {p}
    OBVIOUS
  <2>2. i[Account] = g[p] + i[Account \ {p}] /\ i[Account \ {p}] = g[q] + i[S]
    BY <1>2, <1>3, <2>1 DEF IsSum
  <2>. QED
    BY <2>2
<1>7. g[p] = f[p] - x /\ g[q] = f[q] + x /\ f[p] \in Int /\ f[q] \in Int
  OBVIOUS
<1>8. h[Account] = i[Account]
  BY <1>4, <1>5, <1>6, <1>7
<1>9. SumFunction(f) = h[Account]
  BY <1>1, SumIs
<1>10. SumFunction(g) = i[Account]
  BY <1>2, SumIs
<1>. QED
  BY <1>8, <1>9, <1>10

\* With whole-cent amounts money is neither made nor lost: the balances of all
\* accounts always add up to what the program started from.
THEOREM MoneyIsConserved == WholeCentCalls => (Spec => []MoneyConserved)
<1>. SUFFICES ASSUME WholeCentCalls PROVE Spec => []MoneyConserved
  OBVIOUS
<1>1. Init => MoneyConserved
  BY DEF Init, DatabaseInit, MoneyConserved
<1>2. LockingInv /\ BookInv /\ MoneyConserved /\ [Next]_vars => MoneyConserved'
  <2>. SUFFICES ASSUME LockingInv, BookInv, MoneyConserved, [Next]_vars PROVE MoneyConserved'
    OBVIOUS
  <2>1. CASE \E r \in Request : Commit(r) \/ CommitUnheard(r)
    <3>1. TheBank!Next
      BY <2>1, CommitPays DEF Commit, CommitUnheard
    <3>2. PICK p \in TheBank!Payment :
            /\ p.sender # p.receiver
            /\ balance' = [balance EXCEPT ![p.sender] = @ - p.amount,
                                          ![p.receiver] = @ + p.amount]
      BY <3>1 DEF TheBank!Next, TheBank!Pay
    <3>3. p.sender \in Account /\ p.receiver \in Account /\ p.amount \in Int
      BY <3>2 DEF TheBank!Payment, PayableAmounts, WholeCents
    <3>4. balance \in [Account -> Int]
      BY DEF LockingInv, TypeOK, DatabaseTypeOK
    <3>5. balance' \in [Account -> Int]
      BY <3>2, <3>3, <3>4
    <3>6. SumFunction(balance') = SumFunction(balance)
      <4>1. PICK from \in Account, to \in Account, x \in Int :
              from = p.sender /\ to = p.receiver /\ x = p.amount
        BY <3>3
      <4>2. PICK f \in [Account -> Int], g \in [Account -> Int] : f = balance /\ g = balance'
        BY <3>4, <3>5
      <4>3. /\ from # to /\ g[from] = f[from] - x /\ g[to] = f[to] + x
            /\ SameOn(Account \ {from, to}, f, g)
        BY <3>2, <4>1, <4>2 DEF SameOn
      <4>4. SumFunction(g) = SumFunction(f)
        BY <4>1, <4>2, <4>3, MovedNotLost
      <4>. QED
        BY <4>2, <4>4
    <3>. QED
      BY <3>6 DEF MoneyConserved
  <2>2. CASE ~\E r \in Request : Commit(r) \/ CommitUnheard(r)
    BY <2>2, OtherStepsStutter DEF MoneyConserved
  <2>. QED
    BY <2>1, <2>2
<1>. QED
  BY <1>1, <1>2, LockingInvariant, BookInvariant, PTL DEF Spec

(***************************************************************************)
(* The ledger: a payment is all or nothing, and explains its balances      *)
(***************************************************************************)

\* A sequence with one more element.
LEMMA OneMore ==
  ASSUME NEW S, NEW s \in Seq(S), NEW e \in S
  PROVE  /\ s \o << >> = s
         /\ s \o <<e>> \in Seq(S)
         /\ Len(s \o <<e>>) = Len(s) + 1
         /\ DOMAIN (s \o <<e>>) = DOMAIN s \cup {Len(s) + 1}
         /\ \A i \in DOMAIN s : (s \o <<e>>)[i] = s[i]
         /\ (s \o <<e>>)[Len(s) + 1] = e
OBVIOUS

(***************************************************************************)
(* What open transactions have written                                     *)
(***************************************************************************)

\* A step of others leaves s, its entries and the balances they quote alone.
Undisturbed(s) ==
  /\ pc'[s] = pc[s]
  /\ entries'[s] = entries[s]
  /\ pc[s] \in AfterRecord => /\ working'[Payer(s)] = working[Payer(s)]
                              /\ working'[Payee(s)] = working[Payee(s)]

\* It is enough to look at the requests R that a step moves.
LEMMA MovePrivate ==
  ASSUME PrivateEntries, call' = call, NEW R \in SUBSET Request,
         \A s \in Request \ R : Undisturbed(s),
         \A r \in R, a \in Account : entries'[r][a] = Written(r, a)'
  PROVE  PrivateEntries'
<1>. SUFFICES ASSUME NEW s \in Request, NEW a \in Account
              PROVE  entries'[s][a] = Written(s, a)'
  BY DEF PrivateEntries
<1>1. Payer(s)' = Payer(s) /\ Payee(s)' = Payee(s) /\ Sends(s)' = Sends(s)
  BY DEF Payer, Payee, Sends
<1>2. CASE s \in R
  BY <1>2
<1>3. CASE s \notin R
  <2>1. entries'[s][a] = Written(s, a)
    BY <1>3 DEF PrivateEntries, Undisturbed
  <2>2. pc[s] \in {"ledgerIn", "commit"} => DebitOf(s)' = DebitOf(s) /\ CreditOf(s)' = CreditOf(s)
    BY <1>1, <1>3 DEF Undisturbed, DebitOf, CreditOf, AfterRecord
  <2>. QED
    BY <1>1, <1>3, <2>1, <2>2 DEF Written, Undisturbed
<1>. QED
  BY <1>2, <1>3

\* A step of r that writes no entry and, if any, changes only balances r may lock.
LEMMA QuietPrivate ==
  ASSUME LockingInv, PrivateEntries, NEW r \in Request,
         NEW next \in Statement \ {"ledgerIn", "commit"},
         pc[r] \notin {"ledgerIn", "commit"},
         pc' = [pc EXCEPT ![r] = next],
         UNCHANGED <<call, entries>>,
         \A a \in Account : lock[a] \notin {r, NoRequest} => working'[a] = working[a]
  PROVE  PrivateEntries'
<1>1. \A s \in Request \ {r} : Undisturbed(s)
  <2>. SUFFICES ASSUME NEW s \in Request \ {r} PROVE Undisturbed(s)
    OBVIOUS
  <2>1. pc'[s] = pc[s] /\ entries'[s] = entries[s]
    BY DEF LockingInv, TypeOK
  <2>2. ASSUME pc[s] \in AfterRecord
        PROVE  working'[Payer(s)] = working[Payer(s)] /\ working'[Payee(s)] = working[Payee(s)]
    <3>1. Payer(s) \in Account /\ Payee(s) \in Account
      BY <2>2 DEF LockingInv, ChecksPassed, InTransaction, AfterRecord
    <3>2. lock[Payer(s)] = s /\ lock[Payee(s)] = s
      BY <2>2, <3>1 DEF LockingInv, LocksHeld, AfterDebit, AfterCredit
    <3>. QED
      BY <3>1, <3>2, DatabaseAssumption
  <2>. QED
    BY <2>1, <2>2 DEF Undisturbed
<1>2. \A a \in Account : entries'[r][a] = Written(r, a)'
  <2>1. pc'[r] = next
    BY DEF LockingInv, TypeOK
  <2>. QED
    BY <2>1 DEF PrivateEntries, Written
<1>3. {r} \in SUBSET Request /\ call' = call
  OBVIOUS
<1>4. \A s \in {r}, a \in Account : entries'[s][a] = Written(s, a)'
  BY <1>2
<1>. QED
  BY <1>1, <1>3, <1>4, MovePrivate

\* An insert into the ledger: the entry r's next statement is to find.
LEMMA WritePrivate ==
  ASSUME LockingInv, PrivateEntries, NEW r \in Request, NEW next \in Statement,
         NEW a \in Account, NEW entry,
         entries' = [entries EXCEPT ![r][a] = Append(@, entry)],
         pc' = [pc EXCEPT ![r] = next],
         UNCHANGED <<call, working>>,
         Payer(r) # Payee(r),
         \/ pc[r] = "ledgerOut" /\ next = "ledgerIn" /\ a = Payer(r) /\ entry = DebitOf(r)
         \/ pc[r] = "ledgerIn" /\ next = "commit" /\ a = Payee(r) /\ entry = CreditOf(r)
  PROVE  PrivateEntries'
<1>1. \A s \in Request \ {r} : Undisturbed(s)
  BY DEF LockingInv, TypeOK, DatabaseTypeOK, Undisturbed
<1>2. /\ pc'[r] = next
      /\ \A b \in Account :
           entries'[r][b] = IF b = a THEN Append(entries[r][a], entry) ELSE entries[r][b]
  BY DEF LockingInv, TypeOK, DatabaseTypeOK
<1>3. entries[r][a] = << >>
  BY DEF PrivateEntries, Written
<1>4. Append(entries[r][a], entry) = <<entry>>
  BY <1>3
<1>5. /\ Payer(r)' = Payer(r) /\ Payee(r)' = Payee(r)
      /\ DebitOf(r)' = DebitOf(r) /\ CreditOf(r)' = CreditOf(r)
  BY DEF DebitOf, CreditOf, Payer, Payee, Sends
<1>6. \A b \in Account : entries'[r][b] = Written(r, b)'
  BY <1>2, <1>4, <1>5 DEF PrivateEntries, Written
<1>7. {r} \in SUBSET Request /\ call' = call
  OBVIOUS
<1>8. \A s \in {r}, b \in Account : entries'[s][b] = Written(s, b)'
  BY <1>6
<1>. QED
  BY <1>1, <1>7, <1>8, MovePrivate

\* The transactions of the requests R end: what they have written is gone from here.
LEMMA EndPrivate ==
  ASSUME LockingInv, PrivateEntries, NEW R \in SUBSET Request,
         call' = call,
         \A s \in Request \ R : pc'[s] = pc[s] /\ entries'[s] = entries[s],
         \A r \in R : pc'[r] \in {"respond", "done"},
         \A r \in R, a \in Account : entries'[r][a] = << >>,
         \A a \in Account : lock[a] \in Request \ R => working'[a] = working[a]
  PROVE  PrivateEntries'
<1>1. \A s \in Request \ R : Undisturbed(s)
  <2>. SUFFICES ASSUME NEW s \in Request \ R, pc[s] \in AfterRecord
                PROVE  working'[Payer(s)] = working[Payer(s)] /\ working'[Payee(s)] = working[Payee(s)]
    BY DEF Undisturbed
  <2>1. Payer(s) \in Account /\ Payee(s) \in Account
    BY DEF LockingInv, ChecksPassed, InTransaction, AfterRecord
  <2>2. lock[Payer(s)] = s /\ lock[Payee(s)] = s
    BY <2>1 DEF LockingInv, LocksHeld, AfterDebit, AfterCredit
  <2>. QED
    BY <2>1, <2>2
<1>2. \A r \in R, a \in Account : entries'[r][a] = Written(r, a)'
  BY DEF Written
<1>. QED
  BY <1>1, <1>2, MovePrivate

\* Every step keeps PrivateEntries.
LEMMA NextPrivate ==
  LockingInv /\ PrivateEntries /\ [Next]_vars => PrivateEntries'
<1>. SUFFICES ASSUME LockingInv, PrivateEntries, [Next]_vars PROVE PrivateEntries'
  OBVIOUS
<1>0. TypeOK /\ ChecksPassed
  BY DEF LockingInv
<1>1. ASSUME NEW r \in Request, SendMoney(r) \/ TopUp(r) \/ Respond(r) PROVE PrivateEntries'
  <2>1. /\ pc[r] \in {"arrive", "respond"}
        /\ pc' = [pc EXCEPT ![r] = "debit"] \/ pc' = [pc EXCEPT ![r] = "done"]
        /\ UNCHANGED <<call, entries, working>>
    BY <1>1 DEF SendMoney, TopUp, Respond, GoTo, Answer, databaseVars
  <2>. QED
    BY <2>1, QuietPrivate DEF Statement
<1>2. ASSUME NEW r \in Request,
             \/ DebitSender(r) \/ DebitSystem(r) \/ CreditReceiver(r) \/ CreditUser(r)
      PROVE  PrivateEntries'
  <2>1. PICK b, delta : UpdateBalance(r, b, delta)
    BY <1>2 DEF DebitSender, DebitSystem, CreditReceiver, CreditUser
  <2>2. \A a \in Account : lock[a] \notin {r, NoRequest} => working'[a] = working[a]
    BY <1>0, <2>1 DEF UpdateBalance, TypeOK, DatabaseTypeOK
  <2>3. /\ pc[r] \in {"debit", "credit"}
        /\ pc' = [pc EXCEPT ![r] = "credit"] \/ pc' = [pc EXCEPT ![r] = "record"]
        /\ UNCHANGED <<call, entries>>
    BY <1>2, <2>1
       DEF DebitSender, DebitSystem, CreditReceiver, CreditUser, GoTo, UpdateBalance
  <2>. QED
    BY <2>2, <2>3, QuietPrivate DEF Statement
<1>3. ASSUME NEW r \in Request, RecordTransfer(r) \/ RecordTopUp(r) PROVE PrivateEntries'
  <2>1. /\ pc[r] = "record"
        /\ pc' = [pc EXCEPT ![r] = "ledgerOut"]
        /\ UNCHANGED <<call, entries, working>>
    BY <1>3 DEF RecordTransfer, RecordTopUp, GoTo, InsertTransaction
  <2>. QED
    BY <2>1, QuietPrivate DEF Statement
<1>4. ASSUME NEW r \in Request, LedgerDebit(r) \/ LedgerIssued(r) PROVE PrivateEntries'
  <2>1. /\ pc[r] = "ledgerOut"
        /\ pc' = [pc EXCEPT ![r] = "ledgerIn"]
        /\ UNCHANGED <<call, working>>
        /\ Payer(r) \in Account /\ Payer(r) # Payee(r)
    BY <1>0, <1>4
       DEF LedgerDebit, LedgerIssued, GoTo, WriteLedger, InsertLedgerEntry, ChecksPassed,
           InTransaction
  <2>2. entries' = [entries EXCEPT ![r][Payer(r)] = Append(@, DebitOf(r))]
    <3>1. Sends(r) => debited[r] = working[Payer(r)]
      BY <2>1 DEF LockingInv, WorkingVersions, VersionsOf, AfterDebit, AfterCredit, AfterRecord
    <3>2. CASE LedgerDebit(r)
      BY <3>1, <3>2 DEF LedgerDebit, WriteLedger, InsertLedgerEntry, DebitOf
    <3>3. CASE LedgerIssued(r)
      BY <1>0, <3>3, CallFacts
         DEF LedgerIssued, WriteLedger, InsertLedgerEntry, DebitOf, Payer
    <3>. QED
      BY <1>4, <3>2, <3>3
  <2>. QED
    BY <2>1, <2>2, WritePrivate DEF Statement
<1>5. ASSUME NEW r \in Request, LedgerCredit(r) \/ LedgerReceived(r) PROVE PrivateEntries'
  <2>1. /\ pc[r] = "ledgerIn"
        /\ pc' = [pc EXCEPT ![r] = "commit"]
        /\ UNCHANGED <<call, working>>
        /\ Payee(r) \in Account /\ Payer(r) # Payee(r)
    BY <1>0, <1>5
       DEF LedgerCredit, LedgerReceived, GoTo, WriteLedger, InsertLedgerEntry, ChecksPassed,
           InTransaction
  <2>2. entries' = [entries EXCEPT ![r][Payee(r)] = Append(@, CreditOf(r))]
    <3>1. credited[r] = working[Payee(r)]
      BY <2>1 DEF LockingInv, WorkingVersions, VersionsOf, AfterCredit, AfterRecord
    <3>2. CASE LedgerCredit(r)
      BY <3>1, <3>2 DEF LedgerCredit, WriteLedger, InsertLedgerEntry, CreditOf
    <3>3. CASE LedgerReceived(r)
      BY <1>0, <3>1, <3>3, CallFacts
         DEF LedgerReceived, WriteLedger, InsertLedgerEntry, CreditOf, Payee
    <3>. QED
      BY <1>5, <3>2, <3>3
  <2>. QED
    BY <2>1, <2>2, WritePrivate DEF Statement
<1>6. ASSUME NEW r \in Request, Commit(r) \/ CommitUnheard(r) PROVE PrivateEntries'
  <2>1. /\ call' = call
        /\ pc'[r] \in {"respond", "done"}
        /\ \A s \in Request \ {r} : pc'[s] = pc[s] /\ entries'[s] = entries[s]
        /\ \A a \in Account : entries'[r][a] = << >>
        /\ working' = working
    BY <1>0, <1>6
       DEF Commit, CommitUnheard, CommitTransaction, GoTo, Answer, TypeOK, DatabaseTypeOK
  <2>2. /\ {r} \in SUBSET Request
        /\ \A s \in {r} : pc'[s] \in {"respond", "done"}
        /\ \A s \in {r}, a \in Account : entries'[s][a] = << >>
    BY <2>1
  <2>. QED
    BY <2>1, <2>2, EndPrivate
<1>7. ASSUME NEW R \in SUBSET Request, Rollback(R), call' = call,
             \A s \in Request \ R : pc'[s] = pc[s],
             \A r \in R : pc'[r] = "done"
      PROVE  PrivateEntries'
  <2>1. /\ \A s \in Request \ R : entries'[s] = entries[s]
        /\ \A r \in R, a \in Account : entries'[r][a] = << >>
        /\ \A a \in Account : lock[a] \in Request \ R => working'[a] = working[a]
    BY <1>0, <1>7 DEF Rollback, TypeOK, DatabaseTypeOK
  <2>. QED
    BY <1>7, <2>1, EndPrivate
<1>8. ASSUME NEW r \in Request,
             GuardFails(r) \/ DuplicateKey(r) \/ DeadlockVictim(r) \/ TransactionTimesOut(r)
      PROVE  PrivateEntries'
  <2>1. Rollback({r}) /\ call' = call /\ pc' = [pc EXCEPT ![r] = "done"]
    BY <1>8
       DEF GuardFails, DuplicateKey, DeadlockVictim, TransactionTimesOut, FailWith, Answer
  <2>. QED
    BY <1>0, <1>7, <2>1 DEF TypeOK
<1>9. ASSUME NEW R \in SUBSET Request, Crash(R) PROVE PrivateEntries'
  BY <1>7, <1>9 DEF Crash
<1>10. CASE UNCHANGED vars
  BY <1>10 DEF vars, requestVars, databaseVars, PrivateEntries, Written, DebitOf, CreditOf,
               Payer, Payee, Sends
<1>. QED
  BY <1>1, <1>2, <1>3, <1>4, <1>5, <1>6, <1>8, <1>9, <1>10 DEF Next, Step
(***************************************************************************)
(* What a commit appends                                                   *)
(***************************************************************************)

\* A commit makes r paid, with a row and one entry on either side.
LEMMA CommitAppends ==
  ASSUME LockingInv, BookInv, PrivateEntries, NEW r \in Request,
         pc[r] = "commit", CommitTransaction(r)
  PROVE  /\ Payer(r) \in Account /\ Payee(r) \in Account /\ Payer(r) # Payee(r)
         /\ transactions' = transactions \cup {RowOf(r)}
         /\ Paid' = Paid \cup {r} /\ r \notin Paid
         /\ DebitOf(r) \in LedgerEntry /\ CreditOf(r) \in LedgerEntry
         /\ \A a \in Account :
              ledger'[a] = ledger[a] \o (IF a = Payer(r) THEN <<DebitOf(r)>>
                                         ELSE IF a = Payee(r) THEN <<CreditOf(r)>>
                                         ELSE << >>)
<1>1. Payer(r) \in Account /\ Payee(r) \in Account /\ Payer(r) # Payee(r)
  BY DEF LockingInv, ChecksPassed, InTransaction
<1>2. transactions' = transactions \cup {RowOf(r)}
  BY DEF CommitTransaction, BookInv, PrivateRows, AfterRecord
<1>3. Paid' = Paid \cup {r}
  <2>1. RowOf(r).id = r
    BY DEF RowOf
  <2>2. Paid' = {row.id : row \in transactions'}
    BY DEF Paid
  <2>. QED
    BY <1>2, <2>1, <2>2 DEF Paid
<1>4. r \notin Paid
  BY DEF Paid, BookInv, CommittedRows
<1>5. DebitOf(r) \in LedgerEntry /\ CreditOf(r) \in LedgerEntry
  <2>1. /\ call[r].amount \in Int
        /\ working[Payer(r)] \in Int /\ working[Payee(r)] \in Int
    BY <1>1, CallFacts DEF LockingInv, TypeOK, DatabaseTypeOK
  <2>2. Stored(-call[r].amount) \in Int /\ Stored(call[r].amount) \in Int
    BY <2>1, StoredFacts
  <2>. QED
    BY <2>1, <2>2 DEF DebitOf, CreditOf, LedgerEntry
<1>6. ASSUME NEW a \in Account
      PROVE  ledger'[a] = ledger[a] \o (IF a = Payer(r) THEN <<DebitOf(r)>>
                                        ELSE IF a = Payee(r) THEN <<CreditOf(r)>>
                                        ELSE << >>)
  BY DEF CommitTransaction, PrivateEntries, Written
<1>. QED
  BY <1>1, <1>2, <1>3, <1>4, <1>5, <1>6

\* Nothing but a commit touches the committed rows, entries and balances.
LEMMA OthersKeepBooks ==
  ASSUME [Next]_vars, ~\E r \in Request : Commit(r) \/ CommitUnheard(r)
  PROVE  UNCHANGED <<call, balance, transactions, ledger>>
BY DEF Next, Step, vars, requestVars, databaseVars, SendMoney, DebitSender, GuardFails,
       CreditReceiver, RecordTransfer, LedgerDebit, LedgerCredit, TopUp, DebitSystem,
       CreditUser, RecordTopUp, LedgerIssued, LedgerReceived, DuplicateKey, Respond,
       DeadlockVictim, TransactionTimesOut, Crash, FailWith, Rollback, UpdateBalance,
       InsertTransaction, WriteLedger, InsertLedgerEntry, GoTo, Answer

\* The entries of s when one entry is appended to a's ledger.
LEMMA EntriesOfAppend ==
  ASSUME TypeOK, NEW a \in Account, NEW e \in LedgerEntry,
         ledger'[a] = ledger[a] \o <<e>>
  PROVE  /\ \A s \in Request :
              EntriesOf(s, a)' = IF s = e.tx THEN EntriesOf(s, a) \cup {Len(ledger[a]) + 1}
                                 ELSE EntriesOf(s, a)
         /\ ledger'[a][Len(ledger[a]) + 1] = e
         /\ Len(ledger[a]) + 1 \in DOMAIN ledger'[a]
         /\ \A i \in DOMAIN ledger[a] : i \in DOMAIN ledger'[a] /\ ledger'[a][i] = ledger[a][i]
<1>1. ledger[a] \in Seq(LedgerEntry)
  BY DEF TypeOK, DatabaseTypeOK
<1>2. /\ DOMAIN ledger'[a] = DOMAIN ledger[a] \cup {Len(ledger[a]) + 1}
      /\ \A i \in DOMAIN ledger[a] : ledger'[a][i] = ledger[a][i]
      /\ ledger'[a][Len(ledger[a]) + 1] = e
  BY <1>1, OneMore
<1>3. Len(ledger[a]) + 1 \notin DOMAIN ledger[a]
  BY <1>1
<1>4. ASSUME NEW s \in Request
      PROVE  EntriesOf(s, a)' = IF s = e.tx THEN EntriesOf(s, a) \cup {Len(ledger[a]) + 1}
                                ELSE EntriesOf(s, a)
  <2>1. EntriesOf(s, a)' = {i \in DOMAIN ledger'[a] : ledger'[a][i].tx = s}
    BY DEF EntriesOf
  <2>. QED
    BY <1>2, <1>3, <2>1 DEF EntriesOf
<1>. QED
  BY <1>2, <1>4

\* A commit keeps AllOrNothing: r's row and entries all appear, nobody else's do.
LEMMA CommitAllOrNothing ==
  ASSUME LockingInv, BookInv, LedgerInv, NEW r \in Request,
         pc[r] = "commit", CommitTransaction(r), call' = call
  PROVE  AllOrNothing'
<1>0. TypeOK /\ AllOrNothing /\ PrivateEntries
  BY DEF LockingInv, LedgerInv
<1>. PICK debit, credit, payer, payee :
       /\ debit = DebitOf(r) /\ credit = CreditOf(r)
       /\ payer = Payer(r) /\ payee = Payee(r)
  OBVIOUS
<1>1. /\ payer \in Account /\ payee \in Account /\ payer # payee
      /\ transactions' = transactions \cup {RowOf(r)}
      /\ Paid' = Paid \cup {r} /\ r \notin Paid
      /\ debit \in LedgerEntry /\ credit \in LedgerEntry
      /\ ledger'[payer] = ledger[payer] \o <<debit>>
      /\ ledger'[payee] = ledger[payee] \o <<credit>>
      /\ \A a \in Account \ {payer, payee} : ledger'[a] = ledger[a] \o << >>
  BY <1>0, CommitAppends
<1>2. /\ debit.tx = r /\ debit.amount = Stored(-call[r].amount)
      /\ credit.tx = r /\ credit.amount = Stored(call[r].amount)
  BY DEF DebitOf, CreditOf
<1>3. \A a \in Account \ {payer, payee} : ledger'[a] = ledger[a]
  BY <1>0, <1>1, OneMore DEF TypeOK, DatabaseTypeOK
<1>4. /\ \A s : RowOf(s)' = RowOf(s) /\ Payer(s)' = Payer(s) /\ Payee(s)' = Payee(s)
      /\ \A a \in Account : EntriesOf(r, a) = {}
  BY <1>0, <1>1 DEF AllOrNothing, RowOf, Payer, Payee, Sends
<1>5. \A a \in Account, s \in Request \ {r} : EntriesOf(s, a)' = EntriesOf(s, a)
  <2>. SUFFICES ASSUME NEW a \in Account, NEW s \in Request \ {r}
                PROVE  EntriesOf(s, a)' = EntriesOf(s, a)
    OBVIOUS
  <2>1. CASE a = payer
    <3>1. debit \in LedgerEntry /\ debit.tx # s /\ ledger'[a] = ledger[a] \o <<debit>>
      BY <1>1, <1>2, <2>1
    <3>. QED
      BY <1>0, <3>1, EntriesOfAppend
  <2>2. CASE a = payee
    <3>1. credit \in LedgerEntry /\ credit.tx # s /\ ledger'[a] = ledger[a] \o <<credit>>
      BY <1>1, <1>2, <2>2
    <3>. QED
      BY <1>0, <3>1, EntriesOfAppend
  <2>3. CASE a \notin {payer, payee}
    <3>1. ledger'[a] = ledger[a]
      BY <2>3, <1>3
    <3>. QED
      BY <3>1 DEF EntriesOf
  <2>. QED
    BY <2>1, <2>2, <2>3
<1>6. /\ EntriesOf(r, payer)' = {Len(ledger[payer]) + 1}
      /\ ledger'[payer][Len(ledger[payer]) + 1] = debit
      /\ Len(ledger[payer]) + 1 \in DOMAIN ledger'[payer]
  <2>1. /\ EntriesOf(r, payer)' = EntriesOf(r, payer) \cup {Len(ledger[payer]) + 1}
        /\ ledger'[payer][Len(ledger[payer]) + 1] = debit
        /\ Len(ledger[payer]) + 1 \in DOMAIN ledger'[payer]
    BY <1>0, <1>1, <1>2, EntriesOfAppend
  <2>. QED
    BY <1>1, <1>4, <2>1
<1>7. /\ EntriesOf(r, payee)' = {Len(ledger[payee]) + 1}
      /\ ledger'[payee][Len(ledger[payee]) + 1] = credit
      /\ Len(ledger[payee]) + 1 \in DOMAIN ledger'[payee]
  <2>1. /\ EntriesOf(r, payee)' = EntriesOf(r, payee) \cup {Len(ledger[payee]) + 1}
        /\ ledger'[payee][Len(ledger[payee]) + 1] = credit
        /\ Len(ledger[payee]) + 1 \in DOMAIN ledger'[payee]
    BY <1>0, <1>1, <1>2, EntriesOfAppend
  <2>. QED
    BY <1>1, <1>4, <2>1
<1>8. \A a \in Account \ {payer, payee} : EntriesOf(r, a)' = {}
  BY <1>3, <1>4 DEF EntriesOf
<1>9. ASSUME NEW s \in Request \ {r}, NEW a \in Account, NEW amount, OneEntry(s, a, amount)
      PROVE  OneEntry(s, a, amount)'
  <2>1. PICK i \in DOMAIN ledger[a] : EntriesOf(s, a) = {i} /\ ledger[a][i].amount = amount
    BY <1>9 DEF OneEntry
  <2>2. i \in DOMAIN ledger'[a] /\ ledger'[a][i] = ledger[a][i]
    <3>1. CASE a = payer
      BY <3>1, <1>0, <1>1, EntriesOfAppend
    <3>2. CASE a = payee
      BY <3>2, <1>0, <1>1, EntriesOfAppend
    <3>3. CASE a \notin {payer, payee}
      BY <3>3, <1>3
    <3>. QED
      BY <3>1, <3>2, <3>3
  <2>. QED
    BY <1>5, <2>1, <2>2 DEF OneEntry
<1>10. ASSUME NEW s \in Request \ {r}, s \in Paid'
       PROVE  /\ RowOf(s)' \in transactions'
              /\ OneEntry(s, Payer(s), Stored(-call[s].amount))'
              /\ OneEntry(s, Payee(s), Stored(call[s].amount))'
              /\ \A a \in Account \ {Payer(s)', Payee(s)'} : EntriesOf(s, a)' = {}
  <2>1. s \in Paid
    BY <1>1, <1>10
  <2>2. Payer(s) \in Account /\ Payee(s) \in Account
    <3>1. RowOf(s) \in TransactionRow
      BY <1>0, <2>1 DEF AllOrNothing, TypeOK, DatabaseTypeOK
    <3>. QED
      BY <3>1 DEF RowOf, TransactionRow
  <2>3. /\ OneEntry(s, Payer(s), Stored(-call[s].amount))
        /\ OneEntry(s, Payee(s), Stored(call[s].amount))
        /\ RowOf(s) \in transactions
        /\ \A a \in Account \ {Payer(s), Payee(s)} : EntriesOf(s, a) = {}
    BY <1>0, <2>1 DEF AllOrNothing
  <2>. QED
    BY <1>1, <1>4, <1>5, <1>9, <2>2, <2>3
<1>11. /\ RowOf(r)' \in transactions'
       /\ OneEntry(r, Payer(r), Stored(-call[r].amount))'
       /\ OneEntry(r, Payee(r), Stored(call[r].amount))'
       /\ \A a \in Account \ {Payer(r)', Payee(r)'} : EntriesOf(r, a)' = {}
  BY <1>1, <1>2, <1>4, <1>6, <1>7, <1>8 DEF OneEntry
<1>12. ASSUME NEW s \in Request, s \notin Paid' PROVE \A a \in Account : EntriesOf(s, a)' = {}
  BY <1>0, <1>1, <1>5, <1>12 DEF AllOrNothing
<1>. QED
  BY <1>10, <1>11, <1>12 DEF AllOrNothing
(***************************************************************************)
(* The results                                                             *)
(***************************************************************************)

\* The initial states have written nothing and paid nothing.
LEMMA InitLedger == Init => LedgerInv
BY DEF Init, DatabaseInit, LedgerInv, PrivateEntries, Written, AllOrNothing, Paid, EntriesOf

\* Every step keeps LedgerInv.
LEMMA NextLedger ==
  LockingInv /\ BookInv /\ LedgerInv /\ [Next]_vars => LedgerInv'
<1>. SUFFICES ASSUME LockingInv, BookInv, LedgerInv, [Next]_vars PROVE LedgerInv'
  OBVIOUS
<1>1. PrivateEntries'
  BY NextPrivate DEF LedgerInv
<1>2. ASSUME NEW r \in Request, Commit(r) \/ CommitUnheard(r) PROVE AllOrNothing'
  <2>1. pc[r] = "commit" /\ CommitTransaction(r) /\ call' = call
    BY <1>2 DEF Commit, CommitUnheard, GoTo, Answer
  <2>. QED
    BY <2>1, CommitAllOrNothing
<1>3. CASE ~\E r \in Request : Commit(r) \/ CommitUnheard(r)
  <2>1. UNCHANGED <<call, transactions, ledger>>
    BY <1>3, OthersKeepBooks
  <2>. QED
    BY <1>1, <2>1
       DEF LedgerInv, AllOrNothing, Paid, OneEntry, EntriesOf, RowOf, Payer, Payee, Sends
<1>. QED
  BY <1>1, <1>2, <1>3 DEF LedgerInv

\* LedgerInv holds in every reachable state.
THEOREM LedgerInvariant == Spec => []LedgerInv
<1>. QED
  BY InitLedger, NextLedger, LockingInvariant, BookInvariant, PTL DEF Spec

\* What an open transaction has written to the ledger follows from its statement.
THEOREM EntriesFollowStatements == Spec => []PrivateEntries
<1>1. LedgerInv => PrivateEntries
  BY DEF LedgerInv
<1>. QED
  BY <1>1, LedgerInvariant, PTL

\* A payment leaves its row and one ledger entry on either side, or nothing at all.
THEOREM WholeOrAbsent == Spec => []AllOrNothing
<1>1. LedgerInv => AllOrNothing
  BY DEF LedgerInv
<1>. QED
  BY <1>1, LedgerInvariant, PTL

\* An entry that quotes the balance it leads to goes on explaining it.
LEMMA ExplainOneMore ==
  ASSUME TypeOK, NEW a \in Account, LedgerExplains(a), NEW e \in LedgerEntry,
         ledger'[a] = ledger[a] \o <<e>>,
         e.balanceAfter = balance[a] + e.amount,
         balance'[a] = e.balanceAfter
  PROVE  LedgerExplains(a)'
<1>0. ledger[a] \in Seq(LedgerEntry)
  BY DEF TypeOK, DatabaseTypeOK
<1>1. PICK n \in Nat : n = Len(ledger[a]) /\ DOMAIN ledger[a] = 1 .. n
  BY <1>0
<1>2. /\ Len(ledger'[a]) = n + 1
      /\ DOMAIN ledger'[a] = 1 .. (n + 1)
      /\ \A i \in 1 .. n : ledger'[a][i] = ledger[a][i]
      /\ ledger'[a][n + 1] = e
  BY <1>0, <1>1, OneMore
<1>3. ASSUME NEW i \in 1 .. (n + 1) PROVE BalanceBefore(a, i)' = BalanceBefore(a, i)
  <2>1. CASE i = 1
    BY <2>1 DEF BalanceBefore
  <2>2. CASE i # 1
    <3>1. i - 1 \in 1 .. n
      BY <2>2
    <3>2. ledger'[a][i - 1] = ledger[a][i - 1]
      BY <1>2, <3>1
    <3>. QED
      BY <2>2, <3>2 DEF BalanceBefore
  <2>. QED
    BY <2>1, <2>2
<1>4. BalanceBefore(a, n + 2)' = e.balanceAfter
  BY <1>1, <1>2 DEF BalanceBefore
<1>5. balance[a] = BalanceBefore(a, n + 1)
  BY <1>1 DEF LedgerExplains
<1>6. ASSUME NEW i \in 1 .. (n + 1)
      PROVE  ledger'[a][i].balanceAfter = BalanceBefore(a, i)' + ledger'[a][i].amount
  <2>1. CASE i = n + 1
    BY <2>1, <1>1, <1>2, <1>3, <1>5
  <2>2. CASE i # n + 1
    <3>1. i \in 1 .. n /\ ledger'[a][i] = ledger[a][i]
      BY <1>2, <2>2
    <3>2. ledger[a][i].balanceAfter = BalanceBefore(a, i) + ledger[a][i].amount
      BY <1>1, <3>1 DEF LedgerExplains
    <3>. QED
      BY <1>3, <3>1, <3>2
  <2>. QED
    BY <2>1, <2>2
<1>7. balance'[a] = BalanceBefore(a, Len(ledger[a]) + 1)'
  <2>1. Len(ledger'[a]) + 1 = n + 2
    BY <1>1, <1>2
  <2>. QED
    BY <1>4, <2>1 DEF BalanceBefore
<1>. QED
  BY <1>2, <1>6, <1>7 DEF LedgerExplains

\* With whole cents, what a commit appends explains the balances it publishes.
LEMMA CommitExplains ==
  ASSUME WholeCentCalls, LockingInv, BookInv, LedgerInv, LedgerExplainsBalances,
         NEW r \in Request, pc[r] = "commit", CommitTransaction(r)
  PROVE  LedgerExplainsBalances'
<1>. SUFFICES ASSUME NEW a \in Account PROVE LedgerExplains(a)'
  BY DEF LedgerExplainsBalances
<1>0. TypeOK /\ PrivateEntries /\ LedgerExplains(a)
  BY DEF LockingInv, LedgerInv, LedgerExplainsBalances
<1>1. lock[a] = r <=> a \in {Payer(r), Payee(r)}
  BY DEF LockingInv, LocksHeld, AfterDebit, AfterCredit, AfterRecord
<1>2. balance'[a] = IF lock[a] = r THEN working[a] ELSE balance[a]
  BY DEF CommitTransaction
<1>3. /\ call[r].amount \in Int /\ call[r].amount \in WholeCents
      /\ balance[a] \in Int /\ balance[a] \in WholeCents
  BY <1>0, CallFacts
     DEF TypeOK, DatabaseTypeOK, WholeCentCalls, LockingInv, BalancesStored
<1>4. /\ Stored(-call[r].amount) = -call[r].amount
      /\ Stored(call[r].amount) = call[r].amount
      /\ Stored(balance[a] - call[r].amount) = balance[a] - call[r].amount
      /\ Stored(balance[a] + call[r].amount) = balance[a] + call[r].amount
  <2>1. /\ -call[r].amount \in WholeCents
        /\ balance[a] - call[r].amount \in WholeCents
        /\ balance[a] + call[r].amount \in WholeCents
    BY <1>3, WholeCentSums
  <2>. QED
    BY <1>3, <2>1, StoredFacts
<1>5. CASE a = Payer(r)
  <2>1. working[a] = balance[a] - call[r].amount
    BY <1>4, <1>5 DEF LockingInv, WorkingVersions, VersionsOf, AfterDebit, AfterCredit, AfterRecord
  <2>2. PICK e \in LedgerEntry : e = DebitOf(r) /\ ledger'[a] = ledger[a] \o <<e>>
    BY <1>0, <1>5, CommitAppends
  <2>3. e.balanceAfter = working[a] /\ e.amount = -call[r].amount
    BY <1>4, <1>5, <2>2 DEF DebitOf
  <2>. QED
    BY <1>0, <1>1, <1>2, <1>3, <1>5, <2>1, <2>2, <2>3, ExplainOneMore
<1>6. CASE a = Payee(r)
  <2>1. working[a] = balance[a] + call[r].amount
    BY <1>4, <1>6 DEF LockingInv, WorkingVersions, VersionsOf, AfterCredit, AfterRecord
  <2>2. PICK e \in LedgerEntry : e = CreditOf(r) /\ ledger'[a] = ledger[a] \o <<e>>
    BY <1>0, <1>6, CommitAppends
  <2>3. e.balanceAfter = working[a] /\ e.amount = call[r].amount
    BY <1>4, <1>6, <2>2 DEF CreditOf
  <2>. QED
    BY <1>0, <1>1, <1>2, <1>3, <1>6, <2>1, <2>2, <2>3, ExplainOneMore
<1>7. CASE a \notin {Payer(r), Payee(r)}
  <2>1. ledger'[a] = ledger[a]
    BY <1>0, <1>7, CommitAppends, OneMore DEF TypeOK, DatabaseTypeOK
  <2>2. balance'[a] = balance[a]
    BY <1>1, <1>2, <1>7
  <2>. QED
    BY <1>0, <2>1, <2>2 DEF LedgerExplains, BalanceBefore
<1>. QED
  BY <1>5, <1>6, <1>7

\* With whole-cent amounts, the ledger explains the balance of every account: each
\* entry's balanceAfter is the one before plus its amount, the last one the balance.
THEOREM LedgerExplainsAll == WholeCentCalls => (Spec => []LedgerExplainsBalances)
<1>. SUFFICES ASSUME WholeCentCalls PROVE Spec => []LedgerExplainsBalances
  OBVIOUS
<1>1. Init => LedgerExplainsBalances
  BY DatabaseAssumption
     DEF Init, DatabaseInit, LedgerExplainsBalances, LedgerExplains, BalanceBefore
<1>2. LockingInv /\ BookInv /\ LedgerInv /\ LedgerExplainsBalances /\ [Next]_vars
        => LedgerExplainsBalances'
  <2>. SUFFICES ASSUME LockingInv, BookInv, LedgerInv, LedgerExplainsBalances, [Next]_vars
                PROVE  LedgerExplainsBalances'
    OBVIOUS
  <2>1. CASE \E r \in Request : Commit(r) \/ CommitUnheard(r)
    BY <2>1, CommitExplains DEF Commit, CommitUnheard
  <2>2. CASE ~\E r \in Request : Commit(r) \/ CommitUnheard(r)
    BY <2>2, OthersKeepBooks DEF LedgerExplainsBalances, LedgerExplains, BalanceBefore
  <2>. QED
    BY <2>1, <2>2
<1>. QED
  BY <1>1, <1>2, LockingInvariant, BookInvariant, LedgerInvariant, PTL DEF Spec

(***************************************************************************)
(* The endpoint: idempotency keys                                          *)
(***************************************************************************)

\* Every step of the endpoint is one of the service or leaves the service alone.
LEMMA EndpointStep == EndpointNext => [Next]_vars
<1>. SUFFICES ASSUME EndpointNext PROVE [Next]_vars
  OBVIOUS
<1>1. ASSUME NEW r \in Request, ServiceStep(r) PROVE Next
  BY <1>1 DEF ServiceStep, Next
<1>2. ASSUME NEW R \in (SUBSET Request) \ {{}}, ServerDies(R) PROVE Next
  BY <1>2 DEF ServerDies, Next
<1>3. ASSUME NEW r \in Request,
             \/ RefuseKey(r) \/ Replay(r) \/ FirstTime(r) \/ LookUpFails(r)
             \/ Store(r) \/ StoreFails(r) \/ Deliver(r)
      PROVE  UNCHANGED vars
  BY <1>3 DEF RefuseKey, Replay, FirstTime, LookUpFails, PassOn, Store, StoreFails, Deliver
<1>4. ASSUME NEW k \in RedisKey, Forget(k) PROVE UNCHANGED vars
  BY <1>4 DEF Forget
<1>. QED
  BY <1>1, <1>2, <1>3, <1>4 DEF EndpointNext

\* The endpoint implements the service's specification.
THEOREM EndpointImplementsTransfers == EndpointSpec => Spec
<1>1. EndpointInit => Init
  BY DEF EndpointInit
<1>2. [EndpointNext]_<<vars, endpointVars>> => [Next]_vars
  BY EndpointStep
<1>. QED
  BY <1>1, <1>2, PTL DEF EndpointSpec, Spec

\* Whose user and key a committed row has.
LEMMA PaidFacts ==
  ASSUME TypeOK, BookInv
  PROVE  /\ Paid \subseteq Request
         /\ \A r \in Paid : RowOf(r) \in transactions /\ RowOf(r).key = call[r].key
<1>1. \A row \in transactions : row.id \in Request /\ row = RowOf(row.id)
  BY DEF TypeOK, DatabaseTypeOK, TransactionRow, BookInv, CommittedRows
<1>. QED
  BY <1>1 DEF Paid, RowOf

\* No key pays twice: the rows' keys are unique.
LEMMA OncePerKey == TypeOK /\ BookInv => KeyPaysOnce
<1>. SUFFICES ASSUME TypeOK, BookInv, NEW r \in Paid, NEW s \in Paid,
                     call[r].key = call[s].key
              PROVE  r = s
  BY DEF KeyPaysOnce, SameOrder
<1>1. RowOf(r) = RowOf(s)
  BY PaidFacts DEF BookInv, KeysUnique
<1>. QED
  BY <1>1 DEF RowOf

\* However often a payment is asked for again, its key pays once.
THEOREM PaysOnce == EndpointSpec => []KeyPaysOnce
BY OncePerKey, TypeCorrect, BookInvariant, EndpointImplementsTransfers, PTL

\* A step of the service keeps calls and payments, and answers 409 only of a
\* committed key.
LEMMA ServiceKeeps ==
  ASSUME TypeOK, ConflictsTrue, [Next]_vars
  PROVE  call' = call /\ transactions \subseteq transactions' /\ ConflictsTrue'
<1>1. call' = call /\ transactions \subseteq transactions'
  BY DEF Next, Step, vars, requestVars, databaseVars, SendMoney, DebitSender, GuardFails,
         CreditReceiver, RecordTransfer, LedgerDebit, LedgerCredit, TopUp, DebitSystem,
         CreditUser, RecordTopUp, LedgerIssued, LedgerReceived, DuplicateKey, Respond,
         DeadlockVictim, TransactionTimesOut, CommitUnheard, Commit, Crash, FailWith, Rollback,
         UpdateBalance, InsertTransaction, WriteLedger, InsertLedgerEntry, CommitTransaction,
         GoTo, Answer
<1>2. ASSUME NEW s \in Request, status'[s] = "409"
      PROVE  status[s] = "409" \/ KeyCommitted(call[s].key)
  <2>1. ASSUME NEW r \in Request, NEW code \in Status, Answer(r, code), code # "409"
        PROVE  status[s] = "409"
    BY <2>1, <1>2 DEF Answer, TypeOK
  <2>2. ASSUME NEW r \in Request, NEW statement, GoTo(r, statement)
        PROVE  status[s] = "409"
    BY <2>2, <1>2 DEF GoTo
  <2>3. ASSUME NEW r \in Request, SendMoney(r) PROVE status[s] = "409"
    <3>1. SendRefusal(call[r]) \in Status \ {"409"}
      BY DEF SendRefusal, Status
    <3>. QED
      BY <2>1, <2>2, <2>3, <3>1 DEF SendMoney
  <2>4. ASSUME NEW r \in Request, TopUp(r) PROVE status[s] = "409"
    <3>1. TopUpRefusal(call[r]) \in Status \ {"409"}
      BY DEF TopUpRefusal, Status
    <3>. QED
      BY <2>1, <2>2, <2>4, <3>1 DEF TopUp
  <2>5. ASSUME NEW r \in Request,
               \/ DebitSender(r) \/ CreditReceiver(r) \/ RecordTransfer(r)
               \/ LedgerDebit(r) \/ LedgerCredit(r) \/ DebitSystem(r) \/ CreditUser(r)
               \/ RecordTopUp(r) \/ LedgerIssued(r) \/ LedgerReceived(r) \/ Commit(r)
        PROVE  status[s] = "409"
    BY <2>5, <2>2
       DEF DebitSender, CreditReceiver, RecordTransfer, LedgerDebit, LedgerCredit,
           DebitSystem, CreditUser, RecordTopUp, LedgerIssued, LedgerReceived, Commit
  <2>6. ASSUME NEW r \in Request,
               \/ GuardFails(r) \/ DeadlockVictim(r) \/ TransactionTimesOut(r)
               \/ CommitUnheard(r)
        PROVE  status[s] = "409"
    BY <2>6, <2>1
       DEF GuardFails, DeadlockVictim, TransactionTimesOut, CommitUnheard, FailWith, Status
  <2>7. ASSUME NEW r \in Request, Respond(r) PROVE status[s] = "409"
    <3>1. (IF Sends(r) THEN "201" ELSE "200") \in Status \ {"409"}
      BY DEF Status
    <3>. QED
      BY <2>7, <2>1, <3>1 DEF Respond
  <2>8. ASSUME NEW r \in Request, DuplicateKey(r)
        PROVE  status[s] = "409" \/ KeyCommitted(call[s].key)
    BY <2>8, <1>2 DEF DuplicateKey, FailWith, Answer, TypeOK
  <2>9. ASSUME NEW R \in SUBSET Request, Crash(R) PROVE status[s] = "409"
    BY <2>9, <1>2 DEF Crash
  <2>10. CASE UNCHANGED vars
    BY <2>10, <1>2 DEF vars, requestVars
  <2>. QED
    BY <2>3, <2>4, <2>5, <2>6, <2>7, <2>8, <2>9, <2>10 DEF Next, Step
<1>3. ConflictsTrue'
  BY <1>1, <1>2 DEF ConflictsTrue, KeyCommitted
<1>. QED
  BY <1>1, <1>3

\* What was paid and said before a step is still true after it.
LEMMA PaymentsStay ==
  ASSUME call' = call, transactions \subseteq transactions'
  PROVE  /\ Paid \subseteq Paid'
         /\ \A r \in Request : KeyCommitted(call[r].key) => KeyCommitted(call[r].key)'
         /\ \A r, s : SameOrder(r, s)' <=> SameOrder(r, s)
         /\ \A r : RedisKeyOf(r)' = RedisKeyOf(r)
BY DEF Paid, KeyCommitted, SameOrder, RedisKeyOf

\* A reply is about a payment, or is lost, or tells no more than a status.
LEMMA ReplyKeeps ==
  ASSUME ReplayInv, NEW r \in Request, NEW code \in Status,
         NEW tx \in Request \cup {NoRequest},
         SendReply(r, code, tx), UNCHANGED <<call, transactions, status, stored>>,
         code \in {"200", "201"} => tx \in Paid /\ SameOrder(tx, r),
         code = "409" => KeyCommitted(call[r].key)
  PROVE  ReplayInv'
<1>. USE DEF ReplayInv
<1>1. EndpointTypeOK'
  BY DEF EndpointTypeOK, SendReply, Reply, Status
<1>2. StoredResponsesTrue' /\ ConflictsTrue'
  BY DEF StoredResponsesTrue, ConflictsTrue, KeyCommitted, Paid, RedisKeyOf
<1>3. \A s \in Request :
        \/ reply'[s] = reply[s]
        \/ s = r /\ reply'[s] = [status |-> code, tx |-> tx]
        \/ reply'[s].status = "lost"
  BY DEF SendReply, EndpointTypeOK
<1>4. RepliesAreTrue'
  BY <1>3, PaymentsStay DEF RepliesAreTrue
<1>5. ConflictMeansPaid'
  BY <1>3 DEF ConflictMeansPaid, KeyCommitted
<1>. QED
  BY <1>1, <1>2, <1>4, <1>5

\* Steps that send no reply.
LEMMA OthersKeep ==
  ASSUME TypeOK, ReplayInv, [Next]_vars, reply' = reply,
         stage' \in [Request -> {"lookUp", "service", "stored", "replied"}],
         stored' \in [RedisKey -> Request \cup {NoRequest}],
         \A k \in RedisKey :
           \/ stored'[k] \in {stored[k], NoRequest}
           \/ stored'[k] \in Paid /\ RedisKeyOf(stored'[k]) = k
  PROVE  ReplayInv'
<1>. USE DEF ReplayInv
<1>0. call' = call /\ transactions \subseteq transactions' /\ ConflictsTrue'
  BY ServiceKeeps
<1>1. EndpointTypeOK'
  BY DEF EndpointTypeOK
<1>2. StoredResponsesTrue'
  BY <1>0, PaymentsStay DEF StoredResponsesTrue
<1>3. RepliesAreTrue' /\ ConflictMeansPaid'
  BY <1>0, PaymentsStay DEF RepliesAreTrue, ConflictMeansPaid
<1>. QED
  BY <1>0, <1>1, <1>2, <1>3

\* The endpoint's initial states satisfy the invariant.
LEMMA InitReplay == EndpointInit => ReplayInv
BY DEF EndpointInit, Init, ReplayInv, EndpointTypeOK, Reply, Status, StoredResponsesTrue,
       ConflictsTrue, RepliesAreTrue, ConflictMeansPaid

\* Every step of the endpoint keeps it.
LEMMA NextReplay ==
  TypeOK /\ BookInv /\ ReplayInv /\ [EndpointNext]_<<vars, endpointVars>> => ReplayInv'
<1>. SUFFICES ASSUME TypeOK, BookInv, ReplayInv, [EndpointNext]_<<vars, endpointVars>>
              PROVE  ReplayInv'
  OBVIOUS
<1>0. /\ EndpointTypeOK
      /\ \A r \in Request : RedisKeyOf(r) \in RedisKey
  BY CallFacts, TransfersAssumption DEF ReplayInv, RedisKeyOf, RedisKey, CallRecord
<1>1. ASSUME NEW r \in Request, RefuseKey(r) PROVE ReplayInv'
  BY <1>1, ReplyKeeps DEF RefuseKey, vars, databaseVars, requestVars, Status
<1>2. ASSUME NEW r \in Request, Replay(r) PROVE ReplayInv'
  <2>1. LET tx == stored[RedisKeyOf(r)] IN
          tx \in Request /\ tx \in Paid /\ SameOrder(tx, r)
    BY <1>0, <1>2
       DEF Replay, ReplayInv, EndpointTypeOK, StoredResponsesTrue, RedisKeyOf, SameOrder
  <2>. QED
    BY <1>2, <2>1, ReplyKeeps DEF Replay, vars, databaseVars, requestVars, Status
<1>3. ASSUME NEW r \in Request, Deliver(r) PROVE ReplayInv'
  <2>1. status[r] \in {"200", "201"} => r \in Paid
    BY DEF BookInv, AnswersAreTrue
  <2>2. /\ status[r] \in Status
        /\ status[r] = "409" => KeyCommitted(call[r].key)
    BY DEF TypeOK, ReplayInv, ConflictsTrue
  <2>3. SameOrder(r, r)
    BY DEF SameOrder
  <2>. QED
    BY <1>3, <2>1, <2>2, <2>3, ReplyKeeps DEF Deliver, vars, databaseVars, requestVars
<1>4. ASSUME NEW r \in Request, FirstTime(r) \/ LookUpFails(r) PROVE ReplayInv'
  BY <1>0, <1>4, OthersKeep DEF FirstTime, LookUpFails, PassOn, EndpointTypeOK
<1>5. ASSUME NEW r \in Request, Store(r) PROVE ReplayInv'
  <2>1. r \in Paid
    BY <1>5 DEF Store, BookInv, AnswersFollowCommits
  <2>. QED
    BY <1>0, <1>5, <2>1, OthersKeep DEF Store, EndpointTypeOK
<1>6. ASSUME NEW r \in Request, StoreFails(r) PROVE ReplayInv'
  BY <1>0, <1>6, OthersKeep DEF StoreFails, EndpointTypeOK
<1>7. ASSUME NEW r \in Request, ServiceStep(r) PROVE ReplayInv'
  <2>1. Next
    BY <1>7 DEF ServiceStep, Next
  <2>. QED
    BY <1>0, <1>7, <2>1, OthersKeep DEF ServiceStep, endpointVars, EndpointTypeOK
<1>8. ASSUME NEW R \in (SUBSET Request) \ {{}}, ServerDies(R) PROVE ReplayInv'
  <2>1. Next
    BY <1>8 DEF ServerDies, Next
  <2>. QED
    BY <1>0, <1>8, <2>1, OthersKeep DEF ServerDies, endpointVars, EndpointTypeOK
<1>9. ASSUME NEW k \in RedisKey, Forget(k) PROVE ReplayInv'
  BY <1>0, <1>9, OthersKeep DEF Forget, EndpointTypeOK
<1>10. CASE UNCHANGED <<vars, endpointVars>>
  BY <1>0, <1>10, OthersKeep DEF endpointVars, EndpointTypeOK
<1>. QED
  BY <1>1, <1>2, <1>3, <1>4, <1>5, <1>6, <1>7, <1>8, <1>9, <1>10 DEF EndpointNext

\* ReplayInv holds in every reachable state of the endpoint.
THEOREM ReplayInvariant == EndpointSpec => []ReplayInv
<1>. QED
  BY InitReplay, NextReplay, TypeCorrect, BookInvariant, EndpointImplementsTransfers, PTL
     DEF EndpointSpec

\* Every success a client hears, also a replayed one, is of a payment made for that
\* user and key, and a 409 is of a paid key.
THEOREM RepliesTrue == EndpointSpec => [](RepliesAreTrue /\ ConflictMeansPaid)
<1>1. ReplayInv => RepliesAreTrue /\ ConflictMeansPaid
  BY DEF ReplayInv
<1>. QED
  BY <1>1, ReplayInvariant, PTL

\* All successes heard for one user and key are of one transaction.
THEOREM RepliesOfOnePayment == EndpointSpec => []RepliesAgree
<1>1. ReplayInv /\ KeyPaysOnce => RepliesAgree
  BY DEF ReplayInv, KeyPaysOnce, RepliesAreTrue, RepliesAgree, SameOrder
<1>. QED
  BY <1>1, ReplayInvariant, PaysOnce, PTL

\* A 409 is only ever answered to a key that has paid.
THEOREM ConflictsOfPaidKeys == EndpointSpec => []ConflictMeansPaid
BY RepliesTrue, PTL
===============================================================================
