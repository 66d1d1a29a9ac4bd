------------------------------- MODULE MCServer --------------------------------
(***************************************************************************)
(* Instances of Server for TLC: a payment, its retry, and another payment. *)
(***************************************************************************)
EXTENDS Server, TLC

CONSTANTS r1, r2, r3, k1, k2

MCKeyOf == (r1 :> k1) @@ (r2 :> k1) @@ (r3 :> k2)
==============================================================================
