------------------------ MODULE MCAgreementDashboard ------------------------
(***************************************************************************)
(* One agreement of each mode, three wallets.                              *)
(***************************************************************************)
EXTENDS AgreementDashboard

CONSTANTS bob, sue, art, registry, commitment, f1, f2

MCEscrows == {"only", "work", "both"}
MCAccounts == {bob, sue, art}
MCbuyer == [e \in Escrows |-> bob]
MCseller == [e \in Escrows |-> sue]
MCarbitrator == [e \in Escrows |-> art]
MCrequiredAmount == [e \in Escrows |-> 1]
MCdirect == [e \in Escrows |-> e = "only"]
MCregistry == [e \in Escrows |-> registry]
MCcommitment == [e \in Escrows |-> commitment]
MClifecycle == [only |-> "blockchain_condition_only", work |-> "application_work_evidence",
                both |-> "hybrid"]
\* Every role's page of the escrow with work evidence; of the hybrid one those
\* of the seller and the arbitrator, as the buyer's offers what it does there;
\* other software is used beside the seller's page of the escrow that is
\* settled by the condition alone.  On two of the pages clicks and loads overlap.
Scenario(e, role, outside, flows) ==
  [escrow |-> e, role |-> role, outside |-> outside, flows |-> flows]
MCScenarios ==
  {Scenario("work", "buyer", FALSE, {f1}), Scenario("work", "seller", FALSE, {f1}),
   Scenario("work", "arbitrator", FALSE, {f1, f2}),
   Scenario("both", "seller", FALSE, {f1}), Scenario("both", "arbitrator", FALSE, {f1}),
   Scenario("only", "buyer", FALSE, {f1, f2}), Scenario("only", "seller", TRUE, {f1})}
=============================================================================
