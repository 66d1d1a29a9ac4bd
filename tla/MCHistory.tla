------------------------------- MODULE MCHistory -------------------------------
(***************************************************************************)
(* Instances of History for TLC: the reader sends a payment and receives   *)
(* others; one is between strangers.                                       *)
(***************************************************************************)
EXTENDS History, TLC

CONSTANTS p1, p2, p3, p4, ann, bea, cid

MCSender == [p \in Payment |-> IF p = p1 THEN ann ELSE bea]
MCReceiver == [p \in Payment |-> CASE p = p1 -> bea [] p = p4 -> cid [] OTHER -> ann]

Symmetry == Permutations({p2, p3})
==============================================================================
