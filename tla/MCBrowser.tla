------------------------------- MODULE MCBrowser -------------------------------
(***************************************************************************)
(* Instances of Browser for TLC: two tabs and two users.                   *)
(***************************************************************************)
EXTENDS Browser, TLC

Symmetry == Permutations(Tab) \cup Permutations(Person)
==============================================================================
