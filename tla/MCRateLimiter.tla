----------------------------- MODULE MCRateLimiter -----------------------------
(***************************************************************************)
(* Instances of RateLimiter for TLC: a client that waits for each answer   *)
(* and one that does not, a Redis that works and one that does not.        *)
(***************************************************************************)
EXTENDS RateLimiter, TLC

Symmetry == Permutations(Request)
==============================================================================
