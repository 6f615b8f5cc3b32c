-------------------------- MODULE MCVeyronisEscrow --------------------------
(***************************************************************************)
(* Two escrows between the same two traders, in opposite roles, so that a  *)
(* payment of one can call the other.  hub and judge are contracts, alice  *)
(* is a wallet.  e1 settles directly on verified evidence, e2 does not; e3 *)
(* has the same account as buyer and arbitrator: its constructor fails.    *)
(***************************************************************************)
EXTENDS VeyronisEscrow

CONSTANTS alice, hub, judge, registry, commitment

MCEscrows == {"e1", "e2", "e3"}
MCAccounts == {alice, hub, judge}
MCbuyer == [e1 |-> alice, e2 |-> hub, e3 |-> alice]
MCseller == [e1 |-> hub, e2 |-> alice, e3 |-> hub]
MCarbitrator == [e1 |-> judge, e2 |-> judge, e3 |-> alice]
MCrequiredAmount == [e1 |-> 1, e2 |-> 2, e3 |-> 1]
MCdirect == [e1 |-> TRUE, e2 |-> FALSE, e3 |-> FALSE]
MCregistry == [e \in Escrows |-> registry]
MCcommitment == [e \in Escrows |-> commitment]
=============================================================================
