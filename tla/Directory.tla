------------------------------- MODULE Directory -------------------------------
(***************************************************************************)
(* What registration promises: an address belongs to nobody or, for good,  *)
(* to the one request that got it, and whoever has an address has a        *)
(* wallet.  No step shows how the requests for one address meet.           *)
(***************************************************************************)
CONSTANTS Address, Request, Nobody

VARIABLES owner, wallets

DirectoryInit == owner = [a \in Address |-> Nobody] /\ wallets = {}

Register(a, r) ==
  /\ owner[a] = Nobody /\ r \notin wallets
  /\ owner' = [owner EXCEPT ![a] = r]
  /\ wallets' = wallets \cup {r}

DirectoryNext == \E a \in Address, r \in Request : Register(a, r)

DirectorySpec == DirectoryInit /\ [][DirectoryNext]_<<owner, wallets>>
==============================================================================
