----------------------------- MODULE MCIdempotency -----------------------------
(***************************************************************************)
(* Instances of Idempotency for TLC: a payment and its repetitions, the    *)
(* same key with another amount and from another user, an unusable key,    *)
(* money that comes back, so that a repeated payment finds enough of it    *)
(* again, and amounts of which a quarter or half a cent is missing once    *)
(* another payment is through.  Carol and dave share no row with alice and *)
(* bob, so that two open transactions can hold one key.  Amounts are in    *)
(* quarter cents.                                                          *)
(***************************************************************************)
EXTENDS Idempotency, TLC

CONSTANTS alice, bob, carol, dave, k1, k2, badKey

Send(from, to, amount, key) ==
  [op |-> "send", user |-> from, to |-> to, amount |-> amount, key |-> key]

\* A top-up, which passes no middleware; no system account has been seeded.
Fund(user, amount, millisecond) ==
  [op |-> "topUp", user |-> user, to |-> NoAccount, amount |-> amount,
   key |-> <<user, millisecond>>]

MCAccount == {alice, bob, carol, dave}
MCKey == {k1, k2, badKey, <<alice, 1>>}
MCUnusable == {badKey}
MCOpening == (alice :> 8) @@ (bob :> 4) @@ (carol :> 4) @@ (dave :> 0)

RepeatedCalls ==
  {Send(alice, bob, 8, k1), Send(alice, bob, 4, k1), Send(bob, alice, 4, k1),
   Send(bob, alice, 4, k2), Send(alice, bob, 4, badKey),
   Send(alice, bob, 5, k2), Send(alice, bob, 6, k2),
   Send(carol, dave, 4, k1), Fund(alice, 4, 1)}

Symmetry == Permutations(Request)
==============================================================================
