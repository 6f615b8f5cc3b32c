---------------------------- MODULE EscrowCustody ----------------------------
(***************************************************************************)
(* What an escrow promises about the buyer's money, whatever the           *)
(* participants, the registry or a recipient's code do: it is paid in      *)
(* once, becomes owed to exactly one party, and is paid to that party      *)
(* once.  One transaction may take an escrow, or several of them, through  *)
(* more than one phase (a recipient's code may call other escrows while it *)
(* is being paid); it never takes one back.                                *)
(***************************************************************************)
CONSTANT Escrows
VARIABLE phase

Phases == {"Unfunded", "Cancelled", "Funded",
           "OwedSeller", "PaidSeller", "OwedBuyer", "PaidBuyer"}

\* The phases an escrow can be in after it was in phase p.
From(p) ==
  CASE p = "Unfunded"   -> Phases
    [] p = "Funded"     -> Phases \ {"Unfunded", "Cancelled"}
    [] p = "OwedSeller" -> {"OwedSeller", "PaidSeller"}
    [] p = "OwedBuyer"  -> {"OwedBuyer", "PaidBuyer"}
    [] OTHER            -> {p}

Init == phase = [e \in Escrows |-> "Unfunded"]

Transaction ==
  /\ phase' \in [Escrows -> Phases]
  /\ \A e \in Escrows : phase'[e] \in From(phase[e])

Spec == Init /\ [][Transaction]_phase
=============================================================================
