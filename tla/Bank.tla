--------------------------------- MODULE Bank ---------------------------------
(***************************************************************************)
(* What the payment service promises its customers, with no database,      *)
(* locks, requests or failures in sight.  A payment happens in one         *)
(* indivisible step or not at all; it takes exactly its amount from one    *)
(* account and gives exactly that to another; no customer pays what they   *)
(* do not have; and the book never holds two payments with one key.        *)
(***************************************************************************)
EXTENDS Integers

CONSTANTS
  Account,        \* the wallets
  SystemAccount,  \* the wallet that funds top-ups; it alone may go below zero
  Key,            \* idempotency keys
  Amount,         \* the sums a payment may move
  OpeningBalance  \* what every wallet holds at the start

VARIABLES
  balance,        \* what every wallet holds
  book            \* the payments made

bankVars == <<balance, book>>

Payment == [key : Key, sender : Account, receiver : Account, amount : Amount]

Init == balance = OpeningBalance /\ book = {}

Pay(p) ==
  /\ p.sender # p.receiver
  /\ \A q \in book : q.key # p.key
  /\ p.sender = SystemAccount \/ balance[p.sender] >= p.amount
  /\ balance' = [balance EXCEPT ![p.sender] = @ - p.amount,
                                ![p.receiver] = @ + p.amount]
  /\ book' = book \cup {p}

Next == \E p \in Payment : Pay(p)

Spec == Init /\ [][Next]_bankVars
==============================================================================
