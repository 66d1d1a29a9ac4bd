-------------------------------- MODULE Money --------------------------------
(***************************************************************************)
(* Amounts of money as the program handles them.  In JavaScript an amount  *)
(* is a Decimal of any precision, and the validators let any fraction in   *)
(* (isFloat with a minimum alone); every column that keeps one is          *)
(* numeric(18,2) (schema.prisma, @db.Decimal(18, 2)), and PostgreSQL       *)
(* rounds what is written there to whole cents, halves away from zero.     *)
(*                                                                         *)
(* An amount is a number of units, Cent of them to a cent: with Cent = 4   *)
(* there are R0.0025, R0.005 and R0.0075, with Cent = 1000 everything up   *)
(* to the fifth decimal.                                                   *)
(***************************************************************************)
EXTENDS Integers

CONSTANT Cent   \* the units in a cent: how fine an amount can be

ASSUME MoneyAssumption == Cent \in Nat \ {0}

\* What a numeric(18,2) column keeps of x: the nearest whole cent, halves
\* rounded away from zero.
Stored(x) ==
  IF x >= 0 THEN ((2 * x + Cent) \div (2 * Cent)) * Cent
            ELSE -(((Cent - 2 * x) \div (2 * Cent)) * Cent)

\* The amounts a numeric(18,2) column keeps as they are.
WholeCents == {x \in Int : x % Cent = 0}
==============================================================================
