---------------------------- MODULE MCRegistration -----------------------------
(***************************************************************************)
(* Instances of Registration for TLC: two spellings of one address, and    *)
(* another address.                                                        *)
(***************************************************************************)
EXTENDS Registration, TLC

CONSTANTS ann, Ann, bea

MCNormalise == (ann :> ann) @@ (Ann :> ann) @@ (bea :> bea)

Symmetry == Permutations(Request)
==============================================================================
