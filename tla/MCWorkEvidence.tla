--------------------------- MODULE MCWorkEvidence ---------------------------
(***************************************************************************)
(* A tab of the seller and one of the buyer, two requests at a time.       *)
(***************************************************************************)
EXTENDS WorkEvidence, TLC

CONSTANTS sellerTab, buyerTab, s1, s2

MCroleOf == (sellerTab :> "seller") @@ (buyerTab :> "buyer")
Symmetry == Permutations({s1, s2})
=============================================================================
