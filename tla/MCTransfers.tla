------------------------------ MODULE MCTransfers ------------------------------
(***************************************************************************)
(* Instances of Transfers for TLC: four customers and the system account,  *)
(* whole-cent or sub-cent amounts (in quarter cents), some calls that meet *)
(* in every way the services can: two transfers that together overdraw,    *)
(* two that deadlock, two with one idempotency key, top-ups in the same    *)
(* millisecond, a top-up against a transfer to the system account.         *)
(***************************************************************************)
EXTENDS Transfers, TLC

CONSTANTS alice, bob, carol, dave, system, k1, k2, k3, r1, r2, r3

Send(from, to, amount, key) ==
  [op |-> "send", user |-> from, to |-> to, amount |-> amount, key |-> key]

Fund(user, amount, millisecond) ==
  [op |-> "topUp", user |-> user, to |-> NoAccount, amount |-> amount,
   key |-> <<user, millisecond>>]

MCAccount == {alice, bob, carol, dave, system}
MCKey == {k1, k2, k3} \cup ({alice, bob, NoAccount} \X {1, 2})

\* The system account opens with less than the top-ups take out of it.
MCOpening == (alice :> 8) @@ (bob :> 8) @@ (carol :> 4) @@ (dave :> 0) @@ (system :> 4)

\* Requests that wait for each other: for one row, for two rows in opposite order,
\* and, having no row in common, for one key.
WaitingCalls ==
  <<Send(alice, bob, 8, k1), Send(bob, alice, 8, k3), Send(carol, dave, 4, k1),
   Send(carol, alice, 4, k2), Send(alice, bob, 4, k2), Fund(alice, 4, 1)>>

\* Top-ups that share a millisecond, with transfers out of and into their accounts.
FundingCalls ==
  <<Fund(alice, 4, 1), Fund(alice, 8, 1), Fund(alice, 4, 2), Fund(bob, 8, 1),
   Send(alice, system, 8, k1)>>

\* Every early return of the services, beside calls that pass.
RefusedCalls ==
  <<Send(alice, bob, 0, k1), Send(alice, bob, 3, k1), Send(alice, bob, 16, k1),
   Send(alice, alice, 4, k1), Send(alice, NoAccount, 4, k1),
   Send(NoAccount, bob, 4, k1), Send(alice, bob, 12, k1),
   Send(alice, bob, 8, k1),
   Fund(alice, 0, 1), Fund(alice, 16, 1), Fund(NoAccount, 4, 1)>>

\* Fractions of a cent: what the validators let through (isFloat without a precision).
SubCentCalls ==
  {Send(alice, bob, 6, k1), Send(alice, bob, 6, k3), Send(bob, alice, 4, k2),
   Fund(alice, 2, 1)}

\* Three ways for requests to meet.  A behaviour is of one, and since requests are
\* interchangeable, only one order of its calls is tried.
Meetings == {WaitingCalls, FundingCalls, RefusedCalls}

MeetingCalls == UNION {Range(calls) : calls \in Meetings}

MeetingInit ==
  /\ Init
  /\ \E calls \in Meetings : \E pick \in [1 .. 3 -> DOMAIN calls] :
       /\ pick[1] <= pick[2] /\ pick[2] <= pick[3]
       /\ call = [r \in Request |-> calls[CASE r = r1 -> pick[1] [] r = r2 -> pick[2]
                                           [] r = r3 -> pick[3]]]

MeetingSpec == MeetingInit /\ [][Next]_vars /\ Fairness
==============================================================================
