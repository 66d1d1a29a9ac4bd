------------------------------ MODULE MCDashboard ------------------------------
(***************************************************************************)
(* Instances of Dashboard for TLC: one user, the account and one or two    *)
(* pages of the history.                                                   *)
(***************************************************************************)
EXTENDS Dashboard, TLC

CONSTANTS account, page1, page2

MCTTL == [resource \in Resource |-> IF resource = account THEN 1 ELSE 2]
MCBusted == <<account, page1>>

Symmetry == Permutations(Fetch)
==============================================================================
