------------------------- MODULE EscrowWizardProofs -------------------------
(***************************************************************************)
(* Proofs about the creation of agreements: first about the backend        *)
(* (AgreementDeployment), for any agreements, any number of concurrent     *)
(* confirmations and any faults, then about the wizard over it, for any    *)
(* number of overlapping flows, of clicks, of changes of the form and of   *)
(* calls besides.                                                          *)
(***************************************************************************)
EXTENDS EscrowWizard, FiniteSetTheorems, TLAPS

(***************************************************************************)
(* The backend.                                                            *)
(***************************************************************************)
\* A request that waits for its deployment, or is past it, has the transaction
\* of its own agreement, mined once the receipt was seen.
RequestsKnowTheirTx ==
  \A r \in Requests :
    /\ request[r].pc \in {"waiting", "reading", "saving"} =>
         txs[request[r].tx].agreement = request[r].agreement
    /\ request[r].pc \in {"reading", "saving"} =>
         txs[request[r].tx].status = "mined"

DeploymentInv == DeploymentTypeOK /\ AddressIsOwnEscrow /\ RequestsKnowTheirTx

\* An update by a request keeps the table's type; a status other than
\* DEPLOYED comes without an address, DEPLOYED with that of a mined deployment.
LEMMA UpdateKeepsRows ==
  ASSUME DeploymentTypeOK, AddressIsOwnEscrow,
         NEW a \in Agreements, NEW status \in Statuses,
         NEW address \in Addresses \cup {NoAddress},
         status = "DEPLOYED" => address # NoAddress,
         address # NoAddress =>
           /\ address \in DOMAIN txs
           /\ txs[address] = [agreement |-> a, status |-> "mined"],
         UpdateDeploymentStatus(a, status, address),
         UNCHANGED txs
  PROVE  /\ row' \in [Agreements -> [status : Statuses,
                                     escrowAddress : Addresses \cup {NoAddress}]]
         /\ AddressIsOwnEscrow'
  <1>1. row' \in [Agreements -> [status : Statuses,
                                 escrowAddress : Addresses \cup {NoAddress}]]
    BY DEF DeploymentTypeOK, UpdateDeploymentStatus
  <1>2. ASSUME NEW b \in Agreements
        PROVE  /\ row'[b].escrowAddress # NoAddress =>
                    /\ row'[b].escrowAddress \in DOMAIN txs
                    /\ txs[row'[b].escrowAddress]
                         = [agreement |-> b, status |-> "mined"]
               /\ row'[b].status = "DEPLOYED" => row'[b].escrowAddress # NoAddress
    <2>1. CASE b = a
      BY <2>1 DEF DeploymentTypeOK, UpdateDeploymentStatus, AddressIsOwnEscrow
    <2>2. CASE b # a
      BY <2>2 DEF DeploymentTypeOK, UpdateDeploymentStatus, AddressIsOwnEscrow
    <2> QED BY <2>1, <2>2
  <1> QED BY <1>1, <1>2 DEF AddressIsOwnEscrow

\* A step that leaves the transactions alone and moves one request keeps what
\* the requests know, if the moved one knows it.
LEMMA MovedRequest ==
  ASSUME DeploymentInv, NEW r \in Requests, NEW new \in RequestRecord,
         request' = [request EXCEPT ![r] = new],
         UNCHANGED txs,
         new.pc # "idle" => new.agreement \in Agreements,
         new.pc \in {"waiting", "reading", "saving"} =>
           /\ new.tx \in DOMAIN txs
           /\ txs[new.tx].agreement = new.agreement,
         new.pc \in {"reading", "saving"} => txs[new.tx].status = "mined"
  PROVE  /\ request' \in [Requests -> RequestRecord]
         /\ \A q \in Requests :
              /\ request'[q].pc # "idle" => request'[q].agreement \in Agreements
              /\ request'[q].pc \in {"waiting", "reading", "saving"} =>
                   request'[q].tx \in DOMAIN txs'
         /\ RequestsKnowTheirTx'
  BY DEF DeploymentInv, DeploymentTypeOK, RequestsKnowTheirTx

\* The steps of requests that only move on or end.
LEMMA GotoOrEnd ==
  ASSUME DeploymentInv, NEW r \in Requests, UNCHANGED txs,
         NEW pc \in Steps \ {"idle"},
         request[r].pc # "idle",
         pc \in {"waiting", "reading", "saving"} =>
           request[r].pc \in {"waiting", "reading", "saving"},
         pc \in {"reading", "saving"} => txs[request[r].tx].status = "mined",
         Goto(r, pc) \/ Ends(r)
  PROVE  /\ request' \in [Requests -> RequestRecord]
         /\ \A q \in Requests :
              /\ request'[q].pc # "idle" => request'[q].agreement \in Agreements
              /\ request'[q].pc \in {"waiting", "reading", "saving"} =>
                   request'[q].tx \in DOMAIN txs'
         /\ RequestsKnowTheirTx'
  <1> DEFINE new == [request[r] EXCEPT !.pc = pc]
  <1>1. request[r] \in RequestRecord BY DEF DeploymentInv, DeploymentTypeOK
  <1>2. CASE Goto(r, pc)
    <2>1. /\ new \in RequestRecord
          /\ new.pc = pc
          /\ new.agreement = request[r].agreement
          /\ new.tx = request[r].tx
      BY <1>1 DEF RequestRecord
    <2>2. request' = [request EXCEPT ![r] = new]
      BY <1>2 DEF Goto
    <2>3. /\ request[r].agreement \in Agreements
          /\ request[r].pc \in {"waiting", "reading", "saving"} =>
               /\ request[r].tx \in DOMAIN txs
               /\ txs[request[r].tx].agreement = request[r].agreement
      BY DEF DeploymentInv, DeploymentTypeOK, RequestsKnowTheirTx
    <2> HIDE DEF new
    <2> QED BY <2>1, <2>2, <2>3, MovedRequest
  <1>3. CASE Ends(r)
    <2>1. Idle \in RequestRecord /\ Idle.pc = "idle"
      BY DEF Idle, RequestRecord, Steps
    <2> QED BY <1>3, <2>1, MovedRequest DEF Ends
  <1> QED BY <1>2, <1>3

\* Mining, or not, keeps a mined transaction and every transaction's agreement.
LEMMA MineKeepsTransactions ==
  ASSUME DeploymentTypeOK, NEW i \in DOMAIN txs, Mine(i)
  PROVE  /\ txs' \in Seq(TxRecord)
         /\ DOMAIN txs' = DOMAIN txs
         /\ Len(txs') = Len(txs)
         /\ \A j \in DOMAIN txs :
              /\ txs'[j].agreement = txs[j].agreement
              /\ txs[j].status = "mined" => txs'[j] = txs[j]
  <1>1. PICK status \in {"mined", "reverted"} :
          txs' = [txs EXCEPT ![i].status = status]
    BY DEF Mine
  <1>2. txs \in Seq(TxRecord) BY DEF DeploymentTypeOK
  <1>3. \A j \in DOMAIN txs : txs[j] \in TxRecord
    BY <1>2
  <1>4. DOMAIN txs' = DOMAIN txs BY <1>1
  <1>5. \A j \in DOMAIN txs : txs'[j] \in TxRecord
    BY <1>1, <1>3 DEF TxRecord
  <1>6. txs' \in Seq(TxRecord) /\ Len(txs') = Len(txs)
    BY <1>1, <1>2, <1>4, <1>5
  <1>7. ASSUME NEW j \in DOMAIN txs
        PROVE  /\ txs'[j].agreement = txs[j].agreement
               /\ txs[j].status = "mined" => txs'[j] = txs[j]
    BY <1>1, <1>3 DEF Mine, TxRecord
  <1> QED BY <1>4, <1>6, <1>7

\* The invariant holds initially.
LEMMA DeploymentInvInit == DeploymentInit => DeploymentInv
  BY DeploymentAssumption
  DEF DeploymentInit, DeploymentInv, DeploymentTypeOK, AddressIsOwnEscrow,
      RequestsKnowTheirTx, Statuses, Addresses, NoAddress, RequestRecord, Steps,
      Idle, TxRecord

\* An update of the table by request r, applied or not, keeps table and addresses.
LEMMA SaveKeepsRows ==
  ASSUME DeploymentInv, NEW r \in Requests, request[r].pc # "idle", UNCHANGED txs,
         NEW status \in Statuses, NEW address \in Addresses \cup {NoAddress},
         NEW next, NEW onFailure,
         status = "DEPLOYED" => address # NoAddress,
         address # NoAddress =>
           /\ address \in DOMAIN txs
           /\ txs[address] = [agreement |-> request[r].agreement,
                              status |-> "mined"],
         Save(r, status, address, next, onFailure)
  PROVE  /\ row' \in [Agreements -> [status : Statuses,
                                     escrowAddress : Addresses \cup {NoAddress}]]
         /\ AddressIsOwnEscrow'
  <1>1. request[r].agreement \in Agreements
    BY DEF DeploymentInv, DeploymentTypeOK
  <1>2. CASE UpdateDeploymentStatus(request[r].agreement, status, address)
    BY <1>1, <1>2, UpdateKeepsRows DEF DeploymentInv
  <1>3. CASE UNCHANGED row
    BY <1>3 DEF DeploymentInv, DeploymentTypeOK, AddressIsOwnEscrow
  <1> QED BY <1>2, <1>3 DEF Save

\* Every step keeps the invariant.
LEMMA DeploymentInvStep ==
  DeploymentInv /\ [DeploymentNext]_deploymentVars => DeploymentInv'
  <1> SUFFICES ASSUME DeploymentInv, [DeploymentNext]_deploymentVars
               PROVE  DeploymentInv'
    OBVIOUS
  <1> DEFINE RowsTyped ==
        row' \in [Agreements -> [status : Statuses,
                                 escrowAddress : Addresses \cup {NoAddress}]]
  <1> DEFINE RequestsKept ==
        /\ request' \in [Requests -> RequestRecord]
        /\ \A q \in Requests :
             /\ request'[q].pc # "idle" => request'[q].agreement \in Agreements
             /\ request'[q].pc \in {"waiting", "reading", "saving"} =>
                  request'[q].tx \in DOMAIN txs'
        /\ RequestsKnowTheirTx'
  <1> DEFINE TxsTyped == txs' \in Seq(TxRecord) /\ Len(txs') <= MaxTxs
  <1> DEFINE AnswersTyped == answered' \in [Agreements -> SUBSET Statuses]
  <1>1. RowsTyped /\ AddressIsOwnEscrow' /\ RequestsKept /\ TxsTyped /\ AnswersTyped
        => DeploymentInv'
    BY DEF DeploymentInv, DeploymentTypeOK
  <1>2. UNCHANGED row /\ UNCHANGED txs => RowsTyped /\ AddressIsOwnEscrow'
    BY DEF DeploymentInv, DeploymentTypeOK, AddressIsOwnEscrow
  <1>3. UNCHANGED request /\ UNCHANGED txs => RequestsKept
    BY DEF DeploymentInv, DeploymentTypeOK, RequestsKnowTheirTx
  <1>4. UNCHANGED txs => TxsTyped
    BY DEF DeploymentInv, DeploymentTypeOK
  <1>5. UNCHANGED answered => AnswersTyped
    BY DEF DeploymentInv, DeploymentTypeOK
  <1> HIDE DEF RowsTyped, RequestsKept, TxsTyped, AnswersTyped
  <1>6. ASSUME NEW a \in Agreements, Prepare(a)
        PROVE  DeploymentInv'
    <2>1. RowsTyped /\ AddressIsOwnEscrow'
      BY <1>6 DEF DeploymentInv, DeploymentTypeOK, AddressIsOwnEscrow, Prepare,
                  RowsTyped, Statuses
    <2> QED BY <1>6, <2>1, <1>1, <1>3, <1>4, <1>5 DEF Prepare
  <1>7. ASSUME NEW r \in Requests, NEW a \in Agreements, Confirm(r, a)
        PROVE  DeploymentInv'
    <2>1. /\ Admitted(a) \in RequestRecord
          /\ Admitted(a).pc = "marking"
          /\ Admitted(a).agreement \in Agreements
      BY DEF Admitted, RequestRecord, Steps
    <2>2. request' = [request EXCEPT ![r] = Admitted(a)] /\ UNCHANGED txs
      BY <1>7 DEF Confirm
    <2>3. RequestsKept
      BY <2>1, <2>2, MovedRequest DEF RequestsKept
    <2> QED BY <1>7, <2>3, <1>1, <1>2, <1>4, <1>5 DEF Confirm
  <1>8. ASSUME NEW r \in Requests, RequestStep(r)
        PROVE  DeploymentInv'
    <2>1. CASE MarkDeploying(r)
      <3>1. /\ UNCHANGED <<txs, answered>>
            /\ request[r].pc = "marking"
            /\ Save(r, "DEPLOYING", NoAddress, Goto(r, "deploying"), Ends(r))
        BY <2>1 DEF MarkDeploying, At
      <3>2. RowsTyped /\ AddressIsOwnEscrow'
        BY <3>1, SaveKeepsRows DEF RowsTyped, Statuses
      <3>3. Goto(r, "deploying") \/ Ends(r)
        BY <3>1 DEF Save
      <3>4. RequestsKept
        BY <3>1, <3>3, GotoOrEnd DEF RequestsKept, Steps
      <3> QED BY <3>1, <3>2, <3>4, <1>1, <1>4, <1>5
    <2>2. CASE SendDeployment(r)
      <3> DEFINE sent == Append(txs, [agreement |-> request[r].agreement,
                                      status |-> "pending"])
      <3>1. /\ request[r].pc = "deploying"
            /\ request[r].agreement \in Agreements
            /\ request[r] \in RequestRecord
            /\ txs \in Seq(TxRecord) /\ Len(txs) < MaxTxs
            /\ UNCHANGED <<row, answered>>
        BY <2>2 DEF SendDeployment, At, DeploymentInv, DeploymentTypeOK
      <3>2. /\ sent \in Seq(TxRecord)
            /\ Len(sent) = Len(txs) + 1
            /\ DOMAIN txs \subseteq DOMAIN sent
            /\ Len(sent) \in DOMAIN sent /\ Len(sent) \in Addresses
            /\ \A j \in DOMAIN txs : sent[j] = txs[j]
            /\ sent[Len(sent)].agreement = request[r].agreement
        BY <3>1, DeploymentAssumption DEF TxRecord, Addresses
      <3>3. txs' \in {txs, sent}
        BY <2>2 DEF SendDeployment
      <3>4. TxsTyped
        BY <3>1, <3>2, <3>3, DeploymentAssumption DEF TxsTyped
      <3>5. /\ DOMAIN txs \subseteq DOMAIN txs'
            /\ \A j \in DOMAIN txs : txs'[j] = txs[j]
        BY <3>2, <3>3
      <3> HIDE DEF sent
      <3>6. RowsTyped /\ AddressIsOwnEscrow'
        BY <3>1, <3>5 DEF RowsTyped, DeploymentInv, DeploymentTypeOK,
                          AddressIsOwnEscrow
      <3>7. \/ /\ txs' = sent
               /\ request' = [request EXCEPT ![r].pc = "waiting",
                                             ![r].tx = Len(sent)]
            \/ request' = [request EXCEPT ![r].pc = "failing"]
        BY <2>2 DEF SendDeployment, Goto, sent
      <3>8. ASSUME NEW q \in Requests, q # r
            PROVE  request'[q] = request[q]
        BY <3>7, <3>8 DEF DeploymentInv, DeploymentTypeOK
      <3>9. /\ request' \in [Requests -> RequestRecord]
            /\ request'[r].agreement = request[r].agreement
            /\ \/ request'[r].pc = "failing"
               \/ /\ request'[r].pc = "waiting"
                  /\ request'[r].tx = Len(sent)
                  /\ txs' = sent
        <4>1. Len(sent) \in Addresses \cup {NoAddress}
          BY <3>2
        <4>2. request \in [Requests -> RequestRecord]
          BY DEF DeploymentInv, DeploymentTypeOK
        <4>3. CASE request' = [request EXCEPT ![r].pc = "failing"]
          BY <3>1, <4>2, <4>3 DEF RequestRecord, Steps
        <4>4. CASE /\ txs' = sent
                   /\ request' = [request EXCEPT ![r].pc = "waiting",
                                                 ![r].tx = Len(sent)]
          <5> DEFINE new == [request[r] EXCEPT !.pc = "waiting", !.tx = Len(sent)]
          <5>1. /\ new \in RequestRecord
                /\ new.pc = "waiting"
                /\ new.tx = Len(sent)
                /\ new.agreement = request[r].agreement
            BY <3>1, <4>1 DEF RequestRecord, Steps
          <5>2. request' = [request EXCEPT ![r] = new]
            BY <4>2, <4>4
          <5> HIDE DEF new
          <5> QED BY <4>2, <4>4, <5>1, <5>2
        <4> QED BY <3>7, <4>3, <4>4
      <3>10. RequestsKept
        <4>1. ASSUME NEW q \in Requests
              PROVE  /\ request'[q].pc # "idle" => request'[q].agreement \in Agreements
                     /\ request'[q].pc \in {"waiting", "reading", "saving"} =>
                          /\ request'[q].tx \in DOMAIN txs'
                          /\ txs'[request'[q].tx].agreement = request'[q].agreement
                     /\ request'[q].pc \in {"reading", "saving"} =>
                          txs'[request'[q].tx].status = "mined"
          <5>1. CASE q = r
            BY <5>1, <3>1, <3>2, <3>9
          <5>2. CASE q # r
            BY <5>2, <3>5, <3>8
            DEF DeploymentInv, DeploymentTypeOK, RequestsKnowTheirTx
          <5> QED BY <5>1, <5>2
        <4> QED BY <4>1, <3>9 DEF RequestsKept, RequestsKnowTheirTx
      <3> QED BY <3>1, <3>4, <3>6, <3>10, <1>1, <1>5
    <2>3. CASE WaitForReceipt(r)
      <3>1. /\ UNCHANGED <<row, txs, answered>>
            /\ request[r].pc = "waiting"
            /\ \/ txs[request[r].tx].status = "mined" /\ Goto(r, "reading")
               \/ Goto(r, "failing")
        BY <2>3 DEF WaitForReceipt, At
      <3>2. RequestsKept
        BY <3>1, GotoOrEnd DEF RequestsKept, Steps
      <3> QED BY <3>1, <3>2, <1>1, <1>2, <1>4, <1>5
    <2>4. CASE ReadImmutables(r)
      <3>1. /\ UNCHANGED <<row, txs, answered>>
            /\ request[r].pc = "reading"
            /\ Goto(r, "saving") \/ Goto(r, "failing")
        BY <2>4 DEF ReadImmutables, At
      <3>2. txs[request[r].tx].status = "mined"
        BY <3>1 DEF DeploymentInv, RequestsKnowTheirTx
      <3>3. RequestsKept
        BY <3>1, <3>2, GotoOrEnd DEF RequestsKept, Steps
      <3> QED BY <3>1, <3>3, <1>1, <1>2, <1>4, <1>5
    <2>5. CASE SaveDeployed(r)
      <3>1. /\ UNCHANGED <<txs, answered>>
            /\ request[r].pc = "saving"
            /\ Save(r, "DEPLOYED", request[r].tx, Goto(r, "answering"),
                    Goto(r, "failing"))
        BY <2>5 DEF SaveDeployed, At
      <3>2. /\ request[r].tx \in DOMAIN txs
            /\ txs[request[r].tx].agreement = request[r].agreement
            /\ txs[request[r].tx].status = "mined"
        BY <3>1 DEF DeploymentInv, DeploymentTypeOK, RequestsKnowTheirTx
      <3>3. txs \in Seq(TxRecord) /\ Len(txs) <= MaxTxs
        BY DEF DeploymentInv, DeploymentTypeOK
      <3>4. txs[request[r].tx]
              = [agreement |-> request[r].agreement, status |-> "mined"]
        <4>1. txs[request[r].tx] \in TxRecord
          BY <3>2, <3>3
        <4> QED BY <4>1, <3>2 DEF TxRecord
      <3>5. request[r].tx \in Addresses /\ request[r].tx # NoAddress
        BY <3>2, <3>3, DeploymentAssumption DEF Addresses, NoAddress
      <3>6. RowsTyped /\ AddressIsOwnEscrow'
        BY <3>1, <3>2, <3>4, <3>5, SaveKeepsRows DEF RowsTyped, Statuses
      <3>7. Goto(r, "answering") \/ Goto(r, "failing")
        BY <3>1 DEF Save
      <3>8. RequestsKept
        BY <3>1, <3>7, GotoOrEnd DEF RequestsKept, Steps
      <3> QED BY <3>1, <3>6, <3>8, <1>1, <1>4, <1>5
    <2>6. CASE SaveFailed(r)
      <3>1. /\ UNCHANGED <<txs, answered>>
            /\ request[r].pc = "failing"
            /\ Save(r, "FAILED", NoAddress, Goto(r, "answering"), Ends(r))
        BY <2>6 DEF SaveFailed, At
      <3>2. RowsTyped /\ AddressIsOwnEscrow'
        BY <3>1, SaveKeepsRows DEF RowsTyped, Statuses
      <3>3. Goto(r, "answering") \/ Ends(r)
        BY <3>1 DEF Save
      <3>4. RequestsKept
        BY <3>1, <3>3, GotoOrEnd DEF RequestsKept, Steps
      <3> QED BY <3>1, <3>2, <3>4, <1>1, <1>4, <1>5
    <2>7. CASE Answer(r)
      <3>1. /\ UNCHANGED <<row, txs>>
            /\ request[r].pc = "answering"
            /\ Ends(r)
        BY <2>7 DEF Answer, At
      <3>2. RequestsKept
        BY <3>1, GotoOrEnd DEF RequestsKept, Steps
      <3>3. request[r].agreement \in Agreements
        BY <3>1 DEF DeploymentInv, DeploymentTypeOK
      <3>4. row[request[r].agreement].status \in Statuses
        BY <3>3 DEF DeploymentInv, DeploymentTypeOK
      <3>5. AnswersTyped
        BY <2>7, <3>3, <3>4
        DEF Answer, AnswersTyped, DeploymentInv, DeploymentTypeOK
      <3> QED BY <3>1, <3>2, <3>5, <1>1, <1>2, <1>4
    <2> QED BY <1>8, <2>1, <2>2, <2>3, <2>4, <2>5, <2>6, <2>7 DEF RequestStep
  <1>9. ASSUME NEW i \in DOMAIN txs, Mine(i)
        PROVE  DeploymentInv'
    <2>1. /\ txs' \in Seq(TxRecord)
          /\ DOMAIN txs' = DOMAIN txs
          /\ Len(txs') = Len(txs)
          /\ \A j \in DOMAIN txs :
               /\ txs'[j].agreement = txs[j].agreement
               /\ txs[j].status = "mined" => txs'[j] = txs[j]
      BY <1>9, MineKeepsTransactions DEF DeploymentInv
    <2>2. UNCHANGED <<row, request, answered>>
      BY <1>9 DEF Mine
    <2>3. RowsTyped /\ AddressIsOwnEscrow'
      BY <2>1, <2>2
      DEF RowsTyped, DeploymentInv, DeploymentTypeOK, AddressIsOwnEscrow
    <2>4. RequestsKept
      BY <2>1, <2>2
      DEF RequestsKept, DeploymentInv, DeploymentTypeOK, RequestsKnowTheirTx
    <2>5. TxsTyped
      BY <2>1 DEF TxsTyped, DeploymentInv, DeploymentTypeOK
    <2> QED BY <2>2, <2>3, <2>4, <2>5, <1>1, <1>5
  <1>10. CASE Crash
    <2>1. /\ request' = [r \in Requests |-> Idle]
          /\ UNCHANGED <<row, txs, answered>>
      BY <1>10 DEF Crash
    <2>2. Idle \in RequestRecord /\ Idle.pc = "idle"
      BY DEF Idle, RequestRecord, Steps
    <2>3. RequestsKept
      BY <2>1, <2>2 DEF RequestsKept, RequestsKnowTheirTx
    <2> QED BY <2>1, <2>3, <1>1, <1>2, <1>4, <1>5
  <1>11. CASE UNCHANGED deploymentVars
    BY <1>11, <1>1, <1>2, <1>3, <1>4, <1>5 DEF deploymentVars
  <1> QED
    BY <1>6, <1>7, <1>8, <1>9, <1>10, <1>11 DEF DeploymentNext

(* The invariant of deployments, which the theorems below rest on.         *)
LEMMA DeploymentInvariant == DeploymentSpec => []DeploymentInv
  BY DeploymentInvInit, DeploymentInvStep, PTL DEF DeploymentSpec

(* Rows, requests and transactions keep their types.                       *)
THEOREM DeploymentTypeCorrect == DeploymentSpec => []DeploymentTypeOK
  <1>1. DeploymentInv => DeploymentTypeOK
    BY DEF DeploymentInv
  <1> QED BY <1>1, DeploymentInvariant, PTL

(* The address confirmAndDeploy and its catch block leave in the table is  *)
(* that of a created escrow of the same agreement, for any number of       *)
(* concurrent confirmations and any of the faults.                         *)
THEOREM RecordedAddressIsOwnEscrow == DeploymentSpec => []AddressIsOwnEscrow
  <1>1. DeploymentInv => AddressIsOwnEscrow
    BY DEF DeploymentInv
  <1> QED BY <1>1, DeploymentInvariant, PTL

\* The updates of a request never write NoAddress over an address.
LEMMA SaveKeepsAddresses ==
  ASSUME DeploymentInv, NEW r \in Requests,
         NEW status \in Statuses, NEW address \in Addresses \cup {NoAddress},
         NEW next, NEW onFailure,
         Save(r, status, address, next, onFailure),
         NEW a \in Agreements, row[a].escrowAddress # NoAddress
  PROVE  row'[a].escrowAddress # NoAddress
  <1>1. CASE UpdateDeploymentStatus(request[r].agreement, status, address)
    BY <1>1 DEF UpdateDeploymentStatus, DeploymentInv, DeploymentTypeOK
  <1>2. CASE UNCHANGED row
    BY <1>2
  <1> QED BY <1>1, <1>2 DEF Save

(* An agreement whose escrow is recorded never loses it: COALESCE in       *)
(* updateDeploymentStatus protects it from every report of a failure.      *)
THEOREM AddressesAreKept == DeploymentSpec => AddressIsKept
  <1>1. ASSUME DeploymentInv, [DeploymentNext]_deploymentVars,
               NEW a \in Agreements, row[a].escrowAddress # NoAddress
        PROVE  row'[a].escrowAddress # NoAddress
    <2>1. UNCHANGED row => row'[a].escrowAddress # NoAddress
      BY <1>1
    <2>2. ASSUME NEW b \in Agreements, Prepare(b)
          PROVE  row'[a].escrowAddress # NoAddress
      BY <1>1, <2>2 DEF Prepare, DeploymentInv, DeploymentTypeOK
    <2>3. ASSUME NEW r \in Requests, RequestStep(r)
          PROVE  row'[a].escrowAddress # NoAddress
      <3>1. CASE MarkDeploying(r)
        BY <1>1, <3>1, SaveKeepsAddresses DEF MarkDeploying, Statuses
      <3>2. CASE SaveDeployed(r)
        <4>1. request[r].tx \in Addresses \cup {NoAddress}
          BY <1>1 DEF DeploymentInv, DeploymentTypeOK, RequestRecord
        <4> QED BY <1>1, <3>2, <4>1, SaveKeepsAddresses DEF SaveDeployed, Statuses
      <3>3. CASE SaveFailed(r)
        BY <1>1, <3>3, SaveKeepsAddresses DEF SaveFailed, Statuses
      <3>4. CASE SendDeployment(r) \/ WaitForReceipt(r) \/ ReadImmutables(r) \/ Answer(r)
        BY <2>1, <3>4 DEF SendDeployment, WaitForReceipt, ReadImmutables, Answer
      <3> QED BY <2>3, <3>1, <3>2, <3>3, <3>4 DEF RequestStep
    <2>4. CASE UNCHANGED deploymentVars
      BY <2>1, <2>4 DEF deploymentVars
    <2>5. CASE \/ \E r \in Requests, b \in Agreements : Confirm(r, b)
               \/ \E i \in DOMAIN txs : Mine(i)
               \/ Crash
      BY <2>1, <2>5 DEF Confirm, Mine, Crash
    <2> QED BY <1>1, <2>2, <2>3, <2>4, <2>5 DEF DeploymentNext
  <1>2. DeploymentInv /\ [DeploymentNext]_deploymentVars =>
          [\A a \in Agreements :
             row[a].escrowAddress # NoAddress =>
               row'[a].escrowAddress # NoAddress]_deploymentVars
    BY <1>1
  <1> QED
    BY <1>2, DeploymentInvariant, PTL DEF DeploymentSpec, AddressIsKept

(***************************************************************************)
(* With one confirmation at a time.                                        *)
(***************************************************************************)
Fresh == {"none", "AWAITING_CONFIRMATION"}

Deployed(a) == \E i \in DOMAIN txs : txs[i].agreement = a

\* An agreement whose escrow was sent, and that of a request past `marking',
\* is not awaiting confirmation; a request that has yet to send is the first.
SerialInv ==
  /\ \A i \in DOMAIN txs : row[txs[i].agreement].status \notin Fresh
  /\ \A r \in Requests :
       /\ request[r].pc \in {"marking", "deploying"} =>
            ~Deployed(request[r].agreement)
       /\ request[r].pc \notin {"idle", "marking"} =>
            row[request[r].agreement].status \notin Fresh
  /\ \A i, j \in DOMAIN txs : txs[i].agreement = txs[j].agreement => i = j

\* A step that sends nothing, makes no agreement fresh again and lets a request
\* only go on or end keeps the serial invariant.
LEMMA SerialQuietStep ==
  ASSUME DeploymentInv, DeploymentInv', SerialInv,
         DOMAIN txs' = DOMAIN txs,
         \A j \in DOMAIN txs : txs'[j].agreement = txs[j].agreement,
         \A a \in Agreements :
           row[a].status \notin Fresh => row'[a].status \notin Fresh,
         \A r \in Requests : request'[r].pc # "idle" =>
           /\ request'[r].agreement = request[r].agreement
           /\ request'[r].pc \in {"marking", "deploying"} =>
                request[r].pc \in {"marking", "deploying"}
           /\ request'[r].pc # "marking" =>
                \/ request[r].pc \notin {"idle", "marking"}
                \/ row'[request[r].agreement].status \notin Fresh
  PROVE  SerialInv'
  <1>1. \A j \in DOMAIN txs : txs[j].agreement \in Agreements
    <2>1. txs \in Seq(TxRecord) BY DEF DeploymentInv, DeploymentTypeOK
    <2>2. \A j \in DOMAIN txs : txs[j] \in TxRecord BY <2>1
    <2> QED BY <2>2 DEF TxRecord
  <1>2. \A i \in DOMAIN txs' : row'[txs'[i].agreement].status \notin Fresh
    BY <1>1 DEF SerialInv
  <1>3. \A i, j \in DOMAIN txs' : txs'[i].agreement = txs'[j].agreement => i = j
    BY DEF SerialInv
  <1>4. ASSUME NEW r \in Requests
        PROVE  request'[r].pc \notin {"idle", "marking"} =>
                 row'[request'[r].agreement].status \notin Fresh
    BY DEF SerialInv, DeploymentInv, DeploymentTypeOK
  <1>5. ASSUME NEW r \in Requests, request'[r].pc \in {"marking", "deploying"}
        PROVE  \A i \in DOMAIN txs' : txs'[i].agreement # request'[r].agreement
    <2>1. /\ request'[r].agreement = request[r].agreement
          /\ request[r].pc \in {"marking", "deploying"}
      BY <1>5
    <2> QED BY <2>1 DEF SerialInv, Deployed
  <1> QED BY <1>2, <1>3, <1>4, <1>5 DEF SerialInv, Deployed

\* An update of the table makes no agreement fresh again.
LEMMA SaveLeavesFresh ==
  ASSUME DeploymentInv, NEW r \in Requests, request[r].pc # "idle",
         NEW status \in Statuses \ Fresh, NEW address, NEW next, NEW onFailure,
         Save(r, status, address, next, onFailure)
  PROVE  /\ \A a \in Agreements :
              row[a].status \notin Fresh => row'[a].status \notin Fresh
         /\ \/ row'[request[r].agreement].status \notin Fresh
            \/ UNCHANGED row /\ onFailure
  <1>1. request[r].agreement \in Agreements
    BY DEF DeploymentInv, DeploymentTypeOK
  <1>2. CASE UpdateDeploymentStatus(request[r].agreement, status, address)
    BY <1>1, <1>2 DEF UpdateDeploymentStatus, DeploymentInv, DeploymentTypeOK
  <1>3. CASE UNCHANGED row /\ onFailure
    BY <1>3
  <1> QED BY <1>2, <1>3 DEF Save

\* Moving one request, or ending it, leaves the others alone.
LEMMA GotoMovesOne ==
  ASSUME DeploymentInv, NEW r \in Requests, NEW pc, Goto(r, pc)
  PROVE  /\ \A q \in Requests \ {r} : request'[q] = request[q]
         /\ request'[r].pc = pc
         /\ request'[r].agreement = request[r].agreement
  <1>1. request \in [Requests -> RequestRecord]
    BY DEF DeploymentInv, DeploymentTypeOK
  <1> QED BY <1>1 DEF Goto, RequestRecord

\* Ending a request leaves the others alone.
LEMMA EndsMovesOne ==
  ASSUME DeploymentInv, NEW r \in Requests, Ends(r)
  PROVE  /\ \A q \in Requests \ {r} : request'[q] = request[q]
         /\ request'[r].pc = "idle"
  <1>1. request \in [Requests -> RequestRecord]
    BY DEF DeploymentInv, DeploymentTypeOK
  <1> QED BY <1>1 DEF Ends, Idle

\* Of each agreement at most one confirmation is running.
OneRequestEach ==
  \A p, q \in Requests :
    /\ request[p].pc # "idle" /\ request[q].pc # "idle"
    /\ request[p].agreement = request[q].agreement
    => p = q

\* With one confirmation of an agreement at a time, every step keeps the serial
\* invariant.
LEMMA SerialInvStep ==
  ASSUME OneRequestEach,
         DeploymentInv, DeploymentInv', SerialInv, [DeploymentNext]_deploymentVars
  PROVE  SerialInv'
  <1> DEFINE SameTxs == /\ DOMAIN txs' = DOMAIN txs
                        /\ \A j \in DOMAIN txs : txs'[j].agreement = txs[j].agreement
  <1> DEFINE StillStarted ==
        \A a \in Agreements : row[a].status \notin Fresh => row'[a].status \notin Fresh
  <1> DEFINE MovesOn(r) ==
        request'[r].pc # "idle" =>
           /\ request'[r].agreement = request[r].agreement
           /\ request'[r].pc \in {"marking", "deploying"} =>
                request[r].pc \in {"marking", "deploying"}
           /\ request'[r].pc # "marking" =>
                \/ request[r].pc \notin {"idle", "marking"}
                \/ row'[request[r].agreement].status \notin Fresh
  <1>1. SameTxs /\ StillStarted /\ (\A r \in Requests : MovesOn(r)) => SerialInv'
    BY SerialQuietStep
  <1>2. UNCHANGED txs => SameTxs OBVIOUS
  <1>3. UNCHANGED row => StillStarted OBVIOUS
  <1>4. UNCHANGED request => \A r \in Requests : MovesOn(r) OBVIOUS
  <1>5. ASSUME NEW r \in Requests, UNCHANGED txs, StillStarted, MovesOn(r),
               \A q \in Requests \ {r} : request'[q] = request[q]
        PROVE  SerialInv'
    <2>1. \A q \in Requests \ {r} : MovesOn(q)
      BY <1>5
    <2> HIDE DEF SameTxs, StillStarted, MovesOn
    <2> QED BY <1>1, <1>2, <1>5, <2>1
  <1> HIDE DEF SameTxs, StillStarted, MovesOn
  <1>6. ASSUME NEW a \in Agreements, Prepare(a)
        PROVE  SerialInv'
    <2>1. StillStarted
      BY <1>6 DEF Prepare, StillStarted, Fresh, DeploymentInv, DeploymentTypeOK
    <2>2. UNCHANGED <<request, txs>> BY <1>6 DEF Prepare
    <2> QED BY <2>1, <2>2, <1>1, <1>2, <1>4
  <1>7. ASSUME NEW r \in Requests, NEW a \in Agreements, Confirm(r, a)
        PROVE  SerialInv'
    <2>1. UNCHANGED <<row, txs>> /\ row[a].status \in Fresh
      BY <1>7 DEF Confirm, Fresh
    <2>2. request'[r].pc = "marking" /\ request'[r].agreement = a
      BY <1>7 DEF Confirm, Admitted, DeploymentInv, DeploymentTypeOK
    <2>3. \A q \in Requests \ {r} : request'[q] = request[q]
      BY <1>7 DEF Confirm, DeploymentInv, DeploymentTypeOK
    <2> QED BY <2>1, <2>2, <2>3 DEF SerialInv, Deployed
  <1>8. ASSUME NEW r \in Requests, RequestStep(r)
        PROVE  SerialInv'
    <2>1. CASE MarkDeploying(r)
      <3>1. /\ UNCHANGED txs
            /\ request[r].pc = "marking"
            /\ Save(r, "DEPLOYING", NoAddress, Goto(r, "deploying"), Ends(r))
        BY <2>1 DEF MarkDeploying, At
      <3>2. /\ StillStarted
            /\ \/ row'[request[r].agreement].status \notin Fresh
               \/ Ends(r)
        BY <3>1, SaveLeavesFresh DEF StillStarted, Statuses, Fresh
      <3>3. Goto(r, "deploying") \/ Ends(r)
        BY <3>1 DEF Save
      <3>4. MovesOn(r)
        BY <3>1, <3>2, <3>3, GotoMovesOne, EndsMovesOne DEF MovesOn
      <3> QED BY <3>1, <3>2, <3>3, <3>4, <1>5, GotoMovesOne, EndsMovesOne
    <2>2. CASE SendDeployment(r)
      <3> DEFINE sent == Append(txs, [agreement |-> request[r].agreement,
                                      status |-> "pending"])
      <3>1. /\ request[r].pc = "deploying"
            /\ txs \in Seq(TxRecord)
            /\ UNCHANGED row
        BY <2>2 DEF SendDeployment, At, DeploymentInv, DeploymentTypeOK
      <3>2. /\ DOMAIN sent = DOMAIN txs \cup {Len(txs) + 1}
            /\ \A j \in DOMAIN txs : sent[j] = txs[j]
            /\ sent[Len(txs) + 1].agreement = request[r].agreement
        BY <3>1
      <3> HIDE DEF sent
      <3>3. /\ request'[r].agreement = request[r].agreement
            /\ request'[r].pc \in {"waiting", "failing"}
            /\ txs' \in {txs, sent}
            /\ \A q \in Requests \ {r} : request'[q] = request[q]
        BY <2>2, GotoMovesOne
        DEF SendDeployment, sent, DeploymentInv, DeploymentTypeOK, RequestRecord
      <3>4. /\ ~Deployed(request[r].agreement)
            /\ row[request[r].agreement].status \notin Fresh
        BY <3>1 DEF SerialInv
      <3>5. \A i \in DOMAIN txs' : row'[txs'[i].agreement].status \notin Fresh
        BY <3>1, <3>2, <3>3, <3>4 DEF SerialInv
      <3>6. \A i, j \in DOMAIN txs' : txs'[i].agreement = txs'[j].agreement => i = j
        BY <3>2, <3>3, <3>4 DEF SerialInv, Deployed
      <3>7. ASSUME NEW q \in Requests
            PROVE  /\ request'[q].pc \in {"marking", "deploying"} =>
                        \A i \in DOMAIN txs' : txs'[i].agreement # request'[q].agreement
                   /\ request'[q].pc \notin {"idle", "marking"} =>
                        row'[request'[q].agreement].status \notin Fresh
        <4>1. CASE q = r
          BY <3>1, <3>3, <3>4, <4>1
        <4>2. CASE q # r
          <5>1. request'[q] = request[q]
            BY <3>3, <4>2
          <5>2. request[q].pc # "idle" =>
                  request[q].agreement # request[r].agreement
            BY <3>1, <4>2 DEF OneRequestEach
          <5> QED BY <3>1, <3>2, <3>3, <5>1, <5>2 DEF SerialInv, Deployed
        <4> QED BY <4>1, <4>2
      <3> QED BY <3>5, <3>6, <3>7 DEF SerialInv, Deployed
    <2>3. CASE WaitForReceipt(r)
      <3>1. /\ UNCHANGED <<row, txs>>
            /\ request[r].pc = "waiting"
            /\ Goto(r, "reading") \/ Goto(r, "failing")
        BY <2>3 DEF WaitForReceipt, At
      <3>2. MovesOn(r)
        BY <3>1, GotoMovesOne DEF MovesOn
      <3> QED BY <3>1, <3>2, <1>3, <1>5, GotoMovesOne, EndsMovesOne
    <2>4. CASE ReadImmutables(r)
      <3>1. /\ UNCHANGED <<row, txs>>
            /\ request[r].pc = "reading"
            /\ Goto(r, "saving") \/ Goto(r, "failing")
        BY <2>4 DEF ReadImmutables, At
      <3>2. MovesOn(r)
        BY <3>1, GotoMovesOne DEF MovesOn
      <3> QED BY <3>1, <3>2, <1>3, <1>5, GotoMovesOne, EndsMovesOne
    <2>5. CASE SaveDeployed(r)
      <3>1. /\ UNCHANGED txs
            /\ request[r].pc = "saving"
            /\ Save(r, "DEPLOYED", request[r].tx, Goto(r, "answering"),
                    Goto(r, "failing"))
        BY <2>5 DEF SaveDeployed, At
      <3>2. StillStarted
        BY <3>1, SaveLeavesFresh DEF StillStarted, Statuses, Fresh
      <3>3. Goto(r, "answering") \/ Goto(r, "failing")
        BY <3>1 DEF Save
      <3>4. MovesOn(r)
        BY <3>1, <3>3, GotoMovesOne DEF MovesOn
      <3> QED BY <3>1, <3>2, <3>3, <3>4, <1>5, GotoMovesOne, EndsMovesOne
    <2>6. CASE SaveFailed(r)
      <3>1. /\ UNCHANGED txs
            /\ request[r].pc = "failing"
            /\ Save(r, "FAILED", NoAddress, Goto(r, "answering"), Ends(r))
        BY <2>6 DEF SaveFailed, At
      <3>2. StillStarted
        BY <3>1, SaveLeavesFresh DEF StillStarted, Statuses, Fresh
      <3>3. Goto(r, "answering") \/ Ends(r)
        BY <3>1 DEF Save
      <3>4. MovesOn(r)
        BY <3>1, <3>3, GotoMovesOne, EndsMovesOne DEF MovesOn
      <3> QED BY <3>1, <3>2, <3>3, <3>4, <1>5, GotoMovesOne, EndsMovesOne
    <2>7. CASE Answer(r)
      <3>1. UNCHANGED <<row, txs>> /\ Ends(r)
        BY <2>7 DEF Answer
      <3>2. MovesOn(r)
        BY <3>1, EndsMovesOne DEF MovesOn
      <3> QED BY <3>1, <3>2, <1>3, <1>5, GotoMovesOne, EndsMovesOne
    <2> QED BY <1>8, <2>1, <2>2, <2>3, <2>4, <2>5, <2>6, <2>7 DEF RequestStep
  <1>9. ASSUME NEW i \in DOMAIN txs, Mine(i)
        PROVE  SerialInv'
    <2>1. SameTxs
      BY <1>9, MineKeepsTransactions DEF DeploymentInv, SameTxs
    <2>2. UNCHANGED <<row, request>>
      BY <1>9 DEF Mine
    <2> QED BY <2>1, <2>2, <1>1, <1>3, <1>4
  <1>10. CASE Crash
    <2>1. UNCHANGED <<row, txs>> /\ \A r \in Requests : request'[r].pc = "idle"
      BY <1>10 DEF Crash, Idle
    <2>2. \A r \in Requests : MovesOn(r)
      BY <2>1 DEF MovesOn
    <2> QED BY <2>1, <2>2, <1>1, <1>2, <1>3
  <1>11. CASE UNCHANGED deploymentVars
    BY <1>11, <1>1, <1>2, <1>3, <1>4 DEF deploymentVars
  <1> QED
    BY <1>6, <1>7, <1>8, <1>9, <1>10, <1>11 DEF DeploymentNext

(* If the confirmations of an agreement run one at a time, it never gets a *)
(* second deployment: not after a failure, a lost answer or a restart,     *)
(* since the status left behind is never AWAITING_CONFIRMATION again.      *)
THEOREM OneEscrowWhenAlone ==
  DeploymentSpec /\ []OneRequestEach => []OneEscrowPerAgreement
  <1>1. DeploymentInit => SerialInv
    BY DEF DeploymentInit, SerialInv, Idle, Deployed
  <1>2. OneRequestEach /\ DeploymentInv /\ DeploymentInv' /\ SerialInv
        /\ [DeploymentNext]_deploymentVars
        => SerialInv'
    BY SerialInvStep
  <1>3. SerialInv => OneEscrowPerAgreement
    BY DEF SerialInv, OneEscrowPerAgreement
  <1> QED
    BY <1>1, <1>2, <1>3, DeploymentInvariant, PTL DEF DeploymentSpec

(* In particular if the backend runs one confirmation at a time.           *)
THEOREM OneEscrowWhenSerial ==
  ASSUME \A p, q \in Requests : p = q
  PROVE  DeploymentSpec => []OneEscrowPerAgreement
  <1>1. OneRequestEach
    BY DEF OneRequestEach
  <1> QED
    BY <1>1, OneEscrowWhenAlone, PTL

(***************************************************************************)
(* Who reports a deployment.                                               *)
(***************************************************************************)
\* A request of the agreement that has yet to write what became of it.
Reporting(r, a) ==
  /\ request[r].agreement = a
  /\ request[r].pc \in {"deploying", "waiting", "reading", "saving", "failing"}

\* It is not enough that a request is under way: one that is answering writes
\* nothing any more.  Where one is under way, another has yet to write.
HasReporter ==
  \A a \in Agreements :
    row[a].status = "DEPLOYING" /\ UnderWay(a) => \E r \in Requests : Reporting(r, a)

(* What a step of a request does to the requests and the table.            *)
LEMMA RequestStepEffect ==
  ASSUME DeploymentInv, NEW r \in Requests, RequestStep(r)
  PROVE  /\ request[r].pc # "idle"
         /\ \A q \in Requests \ {r} : request'[q] = request[q]
         /\ request'[r].pc # "idle" => request'[r].agreement = request[r].agreement
         /\ \A a \in Agreements \ {request[r].agreement} : row'[a] = row[a]
         /\ UNCHANGED row \/ row'[request[r].agreement].status # "none"
         /\ At(r, "answering") => UNCHANGED row
  <1> DEFINE b == request[r].agreement
  <1>1. /\ request \in [Requests -> RequestRecord]
        /\ row \in [Agreements -> [status : Statuses,
                                   escrowAddress : Addresses \cup {NoAddress}]]
    BY DEF DeploymentInv, DeploymentTypeOK
  <1> DEFINE Moves == /\ \A q \in Requests \ {r} : request'[q] = request[q]
                      /\ request'[r].pc # "idle" => request'[r].agreement = b
             Updates == /\ \A a \in Agreements \ {b} : row'[a] = row[a]
                        /\ UNCHANGED row \/ row'[b].status # "none"
  <1>2. ASSUME NEW next, Goto(r, next)
        PROVE  Moves
    BY <1>2, GotoMovesOne
  <1>3. ASSUME Ends(r)
        PROVE  Moves
    BY <1>3, EndsMovesOne
  <1>4. ASSUME NEW status \in Statuses \ {"none"}, NEW address, NEW next, NEW onFailure,
               Save(r, status, address, next, onFailure), b \in Agreements
        PROVE  Updates
    <2>1. CASE UpdateDeploymentStatus(b, status, address)
      BY <1>1, <1>4, <2>1 DEF UpdateDeploymentStatus
    <2>2. CASE UNCHANGED row
      BY <2>2
    <2> QED BY <1>4, <2>1, <2>2 DEF Save
  <1>5. request[r].pc # "idle" => b \in Agreements
    BY DEF DeploymentInv, DeploymentTypeOK
  <1> HIDE DEF Moves, Updates
  <1>6. CASE MarkDeploying(r)
    <2>1. /\ request[r].pc = "marking"
          /\ Save(r, "DEPLOYING", NoAddress, Goto(r, "deploying"), Ends(r))
      BY <1>6 DEF MarkDeploying, At
    <2>2. Updates
      BY <1>4, <1>5, <2>1 DEF Statuses
    <2>3. Moves
      BY <1>2, <1>3, <2>1 DEF Save
    <2> QED BY <2>1, <2>2, <2>3 DEF Moves, Updates, At
  <1>7. CASE SendDeployment(r)
    <2>1. request[r].pc = "deploying" /\ UNCHANGED row
      BY <1>7 DEF SendDeployment, At
    <2>2. Moves
      <3>1. \/ \E t : request' = [request EXCEPT ![r].pc = "waiting", ![r].tx = t]
            \/ Goto(r, "failing")
        BY <1>7 DEF SendDeployment
      <3> QED BY <1>1, <1>2, <3>1 DEF Moves, RequestRecord
    <2> QED BY <2>1, <2>2 DEF Moves, At
  <1>8. CASE WaitForReceipt(r)
    <2>1. request[r].pc = "waiting" /\ UNCHANGED row /\ \E next : Goto(r, next)
      BY <1>8 DEF WaitForReceipt, At
    <2> QED BY <1>2, <2>1 DEF Moves, At
  <1>9. CASE ReadImmutables(r)
    <2>1. request[r].pc = "reading" /\ UNCHANGED row /\ \E next : Goto(r, next)
      BY <1>9 DEF ReadImmutables, At
    <2> QED BY <1>2, <2>1 DEF Moves, At
  <1>10. CASE SaveDeployed(r)
    <2>1. /\ request[r].pc = "saving"
          /\ Save(r, "DEPLOYED", request[r].tx, Goto(r, "answering"), Goto(r, "failing"))
      BY <1>10 DEF SaveDeployed, At
    <2>2. Updates
      BY <1>4, <1>5, <2>1 DEF Statuses
    <2>3. Moves
      BY <1>2, <2>1 DEF Save
    <2> QED BY <2>1, <2>2, <2>3 DEF Moves, Updates, At
  <1>11. CASE SaveFailed(r)
    <2>1. /\ request[r].pc = "failing"
          /\ Save(r, "FAILED", NoAddress, Goto(r, "answering"), Ends(r))
      BY <1>11 DEF SaveFailed, At
    <2>2. Updates
      BY <1>4, <1>5, <2>1 DEF Statuses
    <2>3. Moves
      BY <1>2, <1>3, <2>1 DEF Save
    <2> QED BY <2>1, <2>2, <2>3 DEF Moves, Updates, At
  <1>12. CASE Answer(r)
    <2>1. request[r].pc = "answering" /\ UNCHANGED row /\ Ends(r)
      BY <1>12 DEF Answer, At
    <2> QED BY <1>3, <2>1 DEF Moves, At
  <1> QED
    BY <1>6, <1>7, <1>8, <1>9, <1>10, <1>11, <1>12 DEF RequestStep

\* A step of a request that reports: it goes on reporting, or has written.
LEMMA ReporterGoesOn ==
  ASSUME "db" \notin Faults, DeploymentInv, NEW a \in Agreements, NEW r \in Requests,
         Reporting(r, a), RequestStep(r)
  PROVE  Reporting(r, a)' \/ row'[a].status # "DEPLOYING"
  <1>1. row \in [Agreements -> [status : Statuses,
                                escrowAddress : Addresses \cup {NoAddress}]]
    BY DEF DeploymentInv, DeploymentTypeOK
  <1>2. request \in [Requests -> RequestRecord]
    BY DEF DeploymentInv, DeploymentTypeOK
  <1>3. ASSUME NEW status, NEW address, UpdateDeploymentStatus(a, status, address)
        PROVE  row'[a].status = status
    BY <1>1, <1>3 DEF UpdateDeploymentStatus
  <1>4. ASSUME NEW pc \in {"waiting", "reading", "saving", "failing"}, Goto(r, pc)
        PROVE  Reporting(r, a)'
    BY <1>4, GotoMovesOne DEF Reporting
  <1>5. CASE SendDeployment(r)
    <2>1. CASE \E t : request' = [request EXCEPT ![r].pc = "waiting", ![r].tx = t]
      BY <1>2, <2>1 DEF Reporting, RequestRecord
    <2> QED BY <1>4, <1>5, <2>1 DEF SendDeployment
  <1>6. CASE WaitForReceipt(r) \/ ReadImmutables(r)
    BY <1>4, <1>6 DEF WaitForReceipt, ReadImmutables
  <1>7. CASE SaveDeployed(r)
    BY <1>3, <1>7 DEF SaveDeployed, Save, Fault, Reporting
  <1>8. CASE SaveFailed(r)
    BY <1>3, <1>8 DEF SaveFailed, Save, Fault, Reporting
  <1>9. ~MarkDeploying(r) /\ ~Answer(r)
    BY DEF MarkDeploying, Answer, At, Reporting
  <1> QED BY <1>5, <1>6, <1>7, <1>8, <1>9 DEF RequestStep

\* A step of anyone but a restart keeps a reporter, until it has written.
LEMMA ReporterStays ==
  ASSUME "db" \notin Faults, DeploymentInv, [DeploymentNext]_deploymentVars, ~Crash,
         NEW a \in Agreements, NEW r \in Requests, Reporting(r, a)
  PROVE  Reporting(r, a)' \/ row'[a].status # "DEPLOYING"
  <1>1. request'[r] = request[r] => Reporting(r, a)'
    BY DEF Reporting
  <1>2. ASSUME NEW s \in Requests, RequestStep(s)
        PROVE  Reporting(r, a)' \/ row'[a].status # "DEPLOYING"
    <2>1. CASE s = r
      BY <1>2, <2>1, ReporterGoesOn
    <2>2. CASE s # r
      <3>1. request'[r] = request[r]
        BY <1>2, <2>2, RequestStepEffect
      <3> QED BY <1>1, <3>1
    <2> QED BY <2>1, <2>2
  <1>3. ASSUME NEW s \in Requests, NEW b \in Agreements, Confirm(s, b)
        PROVE  request'[r] = request[r]
    <2>1. s # r
      BY <1>3 DEF Confirm, At, Reporting
    <2> QED BY <1>3, <2>1 DEF Confirm, DeploymentInv, DeploymentTypeOK
  <1>4. \/ \E b \in Agreements : Prepare(b)
        \/ \E i \in DOMAIN txs : Mine(i)
        \/ UNCHANGED deploymentVars
        => request'[r] = request[r]
    BY DEF Prepare, Mine, deploymentVars
  <1> QED BY <1>1, <1>2, <1>3, <1>4 DEF DeploymentNext

\* Whoever is under way after a step was so before, or has marked its agreement
\* in this step and is about to deploy.
LEMMA UnderWayBefore ==
  ASSUME "db" \notin Faults, DeploymentInv, [DeploymentNext]_deploymentVars,
         NEW a \in Agreements, row'[a].status = "DEPLOYING", UnderWay(a)'
  PROVE  \/ row[a].status = "DEPLOYING" /\ UnderWay(a)
         \/ \E r \in Requests : Reporting(r, a)'
  <1> DEFINE Result == \/ row[a].status = "DEPLOYING" /\ UnderWay(a)
                       \/ \E r \in Requests : Reporting(r, a)'
  <1>1. PICK q \in Requests :
          request'[q].agreement = a /\ request'[q].pc \notin {"idle", "marking"}
    BY DEF UnderWay
  <1>2. /\ row \in [Agreements -> [status : Statuses,
                                   escrowAddress : Addresses \cup {NoAddress}]]
        /\ request \in [Requests -> RequestRecord]
    BY DEF DeploymentInv, DeploymentTypeOK
  <1>3. ASSUME UNCHANGED <<row, request>> PROVE Result
    BY <1>1, <1>3 DEF UnderWay
  <1>4. ASSUME NEW b \in Agreements, Prepare(b) PROVE Result
    <2>1. row[a].status = "DEPLOYING" /\ request' = request
      BY <1>2, <1>4 DEF Prepare
    <2> QED BY <1>1, <2>1 DEF UnderWay
  <1>5. ASSUME NEW s \in Requests, NEW b \in Agreements, Confirm(s, b) PROVE Result
    <2>1. row' = row /\ s # q
      BY <1>1, <1>2, <1>5 DEF Confirm, Admitted
    <2>2. request'[q] = request[q]
      BY <1>2, <1>5, <2>1 DEF Confirm
    <2> QED BY <1>1, <2>1, <2>2 DEF UnderWay
  <1>6. ASSUME NEW s \in Requests, RequestStep(s) PROVE Result
    <2>1. CASE MarkDeploying(s)
      <3>1. /\ request[s].agreement \in Agreements
            /\ UpdateDeploymentStatus(request[s].agreement, "DEPLOYING", NoAddress)
            /\ Goto(s, "deploying")
        BY <2>1 DEF MarkDeploying, Save, Fault, At, DeploymentInv, DeploymentTypeOK
      <3>2. request'[s].agreement = request[s].agreement /\ request'[s].pc = "deploying"
        BY <3>1, GotoMovesOne
      <3>3. CASE request[s].agreement = a
        BY <3>2, <3>3 DEF Reporting
      <3>4. CASE request[s].agreement # a
        <4>1. q # s
          BY <1>1, <3>2, <3>4
        <4>2. request'[q] = request[q] /\ row'[a] = row[a]
          BY <1>6, <3>4, <4>1, RequestStepEffect
        <4> QED BY <1>1, <4>2 DEF UnderWay
      <3> QED BY <3>3, <3>4
    <2>2. CASE ~MarkDeploying(s)
      <3>1. row[a].status = "DEPLOYING"
        <4>1. ASSUME NEW b \in Agreements, NEW status \in {"DEPLOYED", "FAILED"}, NEW address,
                     UpdateDeploymentStatus(b, status, address)
              PROVE  row[a].status = "DEPLOYING"
          BY <1>2, <4>1 DEF UpdateDeploymentStatus
        <4>2. At(s, "saving") \/ At(s, "failing") => request[s].agreement \in Agreements
          BY DEF At, DeploymentInv, DeploymentTypeOK
        <4>3. CASE SaveDeployed(s) \/ SaveFailed(s)
          BY <4>1, <4>2, <4>3 DEF SaveDeployed, SaveFailed, Save
        <4>4. CASE SendDeployment(s) \/ WaitForReceipt(s) \/ ReadImmutables(s) \/ Answer(s)
          BY <4>4 DEF SendDeployment, WaitForReceipt, ReadImmutables, Answer
        <4> QED BY <1>6, <2>2, <4>3, <4>4 DEF RequestStep
      <3>2. CASE q # s
        <4>1. request'[q] = request[q]
          BY <1>6, <3>2, RequestStepEffect
        <4> QED BY <1>1, <3>1, <4>1 DEF UnderWay
      <3>3. CASE q = s
        <4>1. request[s].agreement = a /\ request[s].pc # "idle"
          BY <1>1, <1>6, <3>3, RequestStepEffect
        <4>2. request[s].pc # "marking"
          BY <1>6, <2>2 DEF RequestStep, SendDeployment, WaitForReceipt, ReadImmutables,
             SaveDeployed, SaveFailed, Answer, At
        <4> QED BY <3>1, <4>1, <4>2 DEF UnderWay
      <3> QED BY <3>2, <3>3
    <2> QED BY <2>1, <2>2
  <1>7. ~Crash
    BY <1>1 DEF Crash, Idle
  <1>8. (\E i \in DOMAIN txs : Mine(i)) \/ UNCHANGED deploymentVars
          => UNCHANGED <<row, request>>
    BY DEF Mine, deploymentVars
  <1> QED BY <1>3, <1>4, <1>5, <1>6, <1>7, <1>8 DEF DeploymentNext

LEMMA HasReporterStep ==
  ASSUME "db" \notin Faults, DeploymentInv, HasReporter, [DeploymentNext]_deploymentVars
  PROVE  HasReporter'
  <1>1. ASSUME NEW a \in Agreements, row'[a].status = "DEPLOYING", UnderWay(a)'
        PROVE  \E r \in Requests : Reporting(r, a)'
    <2>1. CASE row[a].status = "DEPLOYING" /\ UnderWay(a)
      <3>1. PICK r \in Requests : Reporting(r, a)
        BY <2>1 DEF HasReporter
      <3>2. ~Crash
        BY <1>1 DEF Crash, Idle, UnderWay
      <3> QED BY <1>1, <3>1, <3>2, ReporterStays
    <2> QED BY <1>1, <2>1, UnderWayBefore
  <1> QED BY <1>1 DEF HasReporter, Reporting, UnderWay

(* As long as the database answers and the process lives, an agreement     *)
(* that is being deployed has a request that will report it, however many  *)
(* confirmations of it overlap and whatever the node does.                 *)
THEOREM ReportIsOwed ==
  ASSUME "db" \notin Faults
  PROVE  DeploymentSpec => UnderWayUntilReported
  <1>1. DeploymentInit => HasReporter
    BY DEF DeploymentInit, HasReporter
  <1>2. DeploymentInv /\ HasReporter /\ [DeploymentNext]_deploymentVars => HasReporter'
    BY HasReporterStep
  <1>3. ASSUME DeploymentInv, HasReporter, [DeploymentNext]_deploymentVars,
               NEW a \in Agreements, row[a].status = "DEPLOYING", UnderWay(a)
        PROVE  row'[a].status # "DEPLOYING" \/ UnderWay(a)' \/ Crash
    <2>1. PICK r \in Requests : Reporting(r, a)
      BY <1>3 DEF HasReporter
    <2>2. Reporting(r, a)' => UnderWay(a)'
      BY DEF Reporting, UnderWay
    <2> QED BY <1>3, <2>1, <2>2, ReporterStays
  <1>4. DeploymentInv /\ HasReporter /\ [DeploymentNext]_deploymentVars =>
          [\A a \in Agreements :
             row[a].status = "DEPLOYING" /\ UnderWay(a) =>
               row'[a].status # "DEPLOYING" \/ UnderWay(a)' \/ Crash]_deploymentVars
    BY <1>3
  <1> QED
    BY <1>1, <1>2, <1>4, DeploymentInvariant, PTL
       DEF DeploymentSpec, UnderWayUntilReported

(***************************************************************************)
(* The wizard.                                                             *)
(***************************************************************************)
Calls == [kind : {"authorize", "pay"}, payload : Payloads]

Fundings == {"details", "signing", "waiting", "reconciling", "refreshing"}

\* The agreement of the flow is created.
Holding == {"prepared", "confirming"} \cup Fundings

FlowPcs == {"idle", "asking", "preparing"} \cup Holding

Outcomes == {"none", "RPC_ERROR", "USER_REJECTED", "TRANSACTION_REVERTED",
             "COMPLETE", "AWAITING_RECONCILIATION", "RECONCILIATION_FAILED"}

Forms == [mode : Modes, payload : Payloads, id : Agreements \cup {NoAgreement},
          part : [Parts -> Contents]]

Pages == [open : BOOLEAN, deploying : BOOLEAN, shown : Agreements \cup {NoAgreement},
          result : [id : Agreements \cup {NoAgreement}, funded : BOOLEAN]]

FlowRecord == [pc : FlowPcs, id : Agreements \cup {NoAgreement},
               call : Requests \cup {NoRequest}, tx : Outcomes, sent : Nat]

Fees == [host : BOOLEAN, stage : {"idle", "pending", "success", "failure"},
         account : BOOLEAN]

ChainStates == {"AwaitingPayment", "AwaitingDelivery", "Cancelled"}

DepositRecord == [agreement : Agreements, escrow : Addresses \cup {NoAddress},
                  status : {"pending", "mined", "reverted"}]

(* The wizard's state has the values the code gives it.                    *)
WizardTypeOK ==
  /\ form \in Forms
  /\ step \in 1..LastStep
  /\ ui \in Pages
  /\ flow \in [Flows -> FlowRecord]
  /\ fee \in Fees
  /\ calls \in Seq(Calls)
  /\ payments \in Seq(Payloads)
  /\ chain \in [Addresses -> ChainStates]
  /\ deposits \in Seq(DepositRecord)

\* A form with an agreement has its payload.
FormOK == form.id # NoAgreement => payloadOf[form.id] = form.payload

\* A flow has an agreement, which it created before it went further; it waits
\* for a request of this agreement only.
FlowOK(f) ==
  /\ flow[f].pc # "idle" => flow[f].id \in Agreements
  /\ flow[f].call # NoRequest =>
       /\ flow[f].pc = "confirming"
       /\ request[flow[f].call].pc # "idle"
       /\ request[flow[f].call].agreement = flow[f].id
  /\ flow[f].pc \in Holding => row[flow[f].id].status # "none"
  /\ flow[f].pc \in Fundings => row[flow[f].id].escrowAddress # NoAddress

FlowsOK == \A f \in Flows : FlowOK(f)

\* An agreement is created once, so one flow has it.
OneHolder ==
  \A f, g \in Flows :
    /\ flow[f].pc \in Holding /\ flow[g].pc \in Holding
    /\ flow[f].id = flow[g].id
    => f = g

\* A confirmation is sent once for each creation.
ConfirmedOnce ==
  /\ \A r \in Requests :
       request[r].pc # "idle" => row[request[r].agreement].status # "none"
  /\ \A f \in Flows, r \in Requests :
       flow[f].pc = "prepared" /\ request[r].pc # "idle" =>
         request[r].agreement # flow[f].id

WizardFlow == WizardTypeOK /\ FormOK /\ FlowsOK /\ OneHolder

Unsigned == {"prepared", "confirming", "details", "signing"}

\* A deposit of an agreement goes into its escrow.
DepositsOK ==
  /\ \A i, j \in DOMAIN deposits : deposits[i].agreement = deposits[j].agreement => i = j
  /\ \A i \in DOMAIN deposits :
       /\ deposits[i].escrow # NoAddress
       /\ deposits[i].escrow = row[deposits[i].agreement].escrowAddress
       /\ row[deposits[i].agreement].status # "none"
       /\ deposits[i].status = "mined" => chain[deposits[i].escrow] = "AwaitingDelivery"

OwnDeposit(f) ==
  flow[f].sent \in DOMAIN deposits /\ deposits[flow[f].sent].agreement = flow[f].id

\* A flow signs a deposit when there is none for its agreement; what it and
\* the page say of the deposit is true.
SignedOnce(f) ==
  /\ flow[f].pc \in Unsigned =>
       \A i \in DOMAIN deposits : deposits[i].agreement # flow[f].id
  /\ flow[f].pc = "waiting" => OwnDeposit(f)
  /\ flow[f].pc = "reconciling" \/ flow[f].tx = "COMPLETE" =>
       OwnDeposit(f) /\ deposits[flow[f].sent].status = "mined"

Funded(a) == \E i \in DOMAIN deposits :
               deposits[i].agreement = a /\ deposits[i].status = "mined"

DepositInv ==
  /\ DepositsOK
  /\ \A f \in Flows : SignedOnce(f)
  /\ ui.result.funded => Funded(ui.result.id)

\* The payloads of the agreements that are created, that running flows may
\* create, and that the form may start a flow for.
Created == {payloadOf[a] : a \in {b \in Agreements : row[b].status # "none"}}

Launched == {payloadOf[flow[f].id] : f \in {g \in Flows : flow[g].pc # "idle"}}

Launching == step = LastStep /\ ui.shown = NoAgreement

Earned == IF Paid \/ Launching THEN {form.payload} ELSE {}

Spent == Created \cup Launched \cup Earned

\* Each of these payloads was paid for.
FeeOK == fee.host => IsFiniteSet(Spent) /\ Cardinality(Spent) <= Len(payments)

(***************************************************************************)
(* The steps shown.                                                        *)
(***************************************************************************)
(* Continue goes on by at least one step and past no visible one: the      *)
(* review comes before the deployment, and a condition before the review.  *)
LEMMA NextStepOK ==
  ASSUME NEW s \in 1..(LastStep - 1), NEW mode \in Modes
  PROVE  /\ NextStep(s, mode) \in (s + 1)..LastStep
         /\ s < 6 => NextStep(s, mode) <= 6
         /\ s < 5 /\ mode # "work" => NextStep(s, mode) <= 5
  <1> DEFINE Next1(n) == Visible(n, mode)
                         /\ \A k \in (s + 1)..(n - 1) : ~Visible(k, mode)
  <1>1. \E n \in (s + 1)..LastStep : Next1(n)
    <2>1. CASE s \in {1, 2, 6}
      <3>1. s + 1 \in (s + 1)..LastStep /\ Next1(s + 1)
        BY <2>1 DEF LastStep, Visible
      <3> QED BY <3>1
    <2>2. CASE s = 3
      <3>1. CASE mode = "external"
        <4>1. 5 \in (s + 1)..LastStep /\ Next1(5)
          BY <2>2, <3>1 DEF LastStep, Visible
        <4> QED BY <4>1
      <3>2. CASE mode # "external"
        <4>1. 4 \in (s + 1)..LastStep /\ Next1(4)
          BY <2>2, <3>2 DEF LastStep, Visible
        <4> QED BY <4>1
      <3> QED BY <3>1, <3>2
    <2>3. CASE s = 4
      <3>1. CASE mode = "work"
        <4>1. 6 \in (s + 1)..LastStep /\ Next1(6)
          BY <2>3, <3>1 DEF LastStep, Visible
        <4> QED BY <4>1
      <3>2. CASE mode # "work"
        <4>1. 5 \in (s + 1)..LastStep /\ Next1(5)
          BY <2>3, <3>2 DEF LastStep, Visible
        <4> QED BY <4>1
      <3> QED BY <3>1, <3>2
    <2>4. CASE s = 5
      <3>1. 6 \in (s + 1)..LastStep /\ Next1(6)
        BY <2>4 DEF LastStep, Visible
      <3> QED BY <3>1
    <2> QED BY <2>1, <2>2, <2>3, <2>4 DEF LastStep
  <1> DEFINE n == NextStep(s, mode)
  <1>2. n \in (s + 1)..LastStep /\ Next1(n)
    BY <1>1 DEF NextStep
  <1>3. s < 6 => n <= 6
    BY <1>2 DEF Visible, LastStep
  <1>4. s < 5 /\ mode # "work" => n <= 5
    BY <1>2 DEF Visible, LastStep
  <1> QED BY <1>2, <1>3, <1>4

(* Back goes back by at least one step.                                    *)
LEMMA PreviousStepOK ==
  ASSUME NEW s \in 2..LastStep, NEW mode \in Modes
  PROVE  PreviousStep(s, mode) \in 1..(s - 1)
  <1> DEFINE Previous(n) == Visible(n, mode)
                            /\ \A k \in (n + 1)..(s - 1) : ~Visible(k, mode)
  <1>1. \E n \in 1..(s - 1) : Previous(n)
    <2>1. CASE s \in {2, 3, 4, 7}
      <3>1. s - 1 \in 1..(s - 1) /\ Previous(s - 1)
        BY <2>1 DEF LastStep, Visible
      <3> QED BY <3>1
    <2>2. CASE s = 5
      <3>1. CASE mode = "external"
        <4>1. 3 \in 1..(s - 1) /\ Previous(3)
          BY <2>2, <3>1 DEF LastStep, Visible
        <4> QED BY <4>1
      <3>2. CASE mode # "external"
        <4>1. 4 \in 1..(s - 1) /\ Previous(4)
          BY <2>2, <3>2 DEF LastStep, Visible
        <4> QED BY <4>1
      <3> QED BY <3>1, <3>2
    <2>3. CASE s = 6
      <3>1. CASE mode = "work"
        <4>1. 4 \in 1..(s - 1) /\ Previous(4)
          BY <2>3, <3>1 DEF LastStep, Visible
        <4> QED BY <4>1
      <3>2. CASE mode # "work"
        <4>1. 5 \in 1..(s - 1) /\ Previous(5)
          BY <2>3, <3>2 DEF LastStep, Visible
        <4> QED BY <4>1
      <3> QED BY <3>1, <3>2
    <2> QED BY <2>1, <2>2, <2>3 DEF LastStep
  <1> QED BY <1>1 DEF PreviousStep

(***************************************************************************)
(* The backend under the wizard.                                           *)
(***************************************************************************)
(* No step of a request takes an address away, and while an agreement has  *)
(* one escrow none replaces it by another.                                 *)
LEMMA AddressStays ==
  ASSUME DeploymentInv, NEW r \in Requests, RequestStep(r),
         NEW a \in Agreements, row[a].escrowAddress # NoAddress
  PROVE  /\ row'[a].escrowAddress # NoAddress
         /\ OneEscrowPerAgreement => row'[a].escrowAddress = row[a].escrowAddress
  <1>1. row \in [Agreements -> [status : Statuses,
                                escrowAddress : Addresses \cup {NoAddress}]]
    BY DEF DeploymentInv, DeploymentTypeOK
  <1>2. CASE UNCHANGED row
    BY <1>2
  <1>3. ASSUME NEW status \in Statuses, NEW next, NEW onFailure,
               Save(r, status, NoAddress, next, onFailure)
        PROVE  row'[a].escrowAddress = row[a].escrowAddress
    BY <1>1, <1>3 DEF Save, UpdateDeploymentStatus
  <1>4. CASE SaveDeployed(r)
    <2> DEFINE b == request[r].agreement
               tx == request[r].tx
    <2>1. /\ request[r].pc = "saving"
          /\ Save(r, "DEPLOYED", tx, Goto(r, "answering"), Goto(r, "failing"))
      BY <1>4 DEF SaveDeployed, At
    <2>2. /\ tx \in DOMAIN txs
          /\ txs[tx].agreement = b
          /\ txs[tx].status = "mined"
          /\ txs \in Seq(TxRecord)
      BY <2>1 DEF DeploymentInv, DeploymentTypeOK, RequestsKnowTheirTx
    <2>3. tx # NoAddress
      BY <2>2 DEF NoAddress
    <2>4. a = b /\ OneEscrowPerAgreement => tx = row[a].escrowAddress
      <3> DEFINE old == row[a].escrowAddress
      <3>1. old \in DOMAIN txs /\ txs[old] = [agreement |-> a, status |-> "mined"]
        BY DEF DeploymentInv, AddressIsOwnEscrow
      <3>2. txs[old].agreement = a /\ txs[old].status = "mined"
        BY <3>1
      <3> HIDE DEF old
      <3>3. a = b /\ OneEscrowPerAgreement => tx = old
        BY <2>2, <3>1, <3>2 DEF OneEscrowPerAgreement
      <3> QED BY <3>3 DEF old
    <2>5. CASE UNCHANGED row
      BY <2>5
    <2>6. CASE UpdateDeploymentStatus(b, "DEPLOYED", tx)
      BY <1>1, <2>3, <2>4, <2>6 DEF UpdateDeploymentStatus
    <2> QED BY <2>1, <2>5, <2>6 DEF Save
  <1>5. CASE MarkDeploying(r)
    BY <1>3, <1>5 DEF MarkDeploying, Statuses
  <1>6. CASE SaveFailed(r)
    BY <1>3, <1>6 DEF SaveFailed, Statuses
  <1> QED
    BY <1>2, <1>4, <1>5, <1>6
    DEF RequestStep, SendDeployment, WaitForReceipt, ReadImmutables, Answer

(* The answer the wizard hears of is about a deployed agreement.           *)
LEMMA HeardIsDeployed ==
  ASSUME DeploymentInv, NEW r \in Requests, RequestStep(r),
         At(r, "answering"), HearsDeployed(r)
  PROVE  /\ request[r].agreement \in Agreements
         /\ row'[request[r].agreement].escrowAddress # NoAddress
  <1>1. request[r].agreement \in Agreements
    BY DEF At, DeploymentInv, DeploymentTypeOK
  <1>2. UNCHANGED row
    BY RequestStepEffect
  <1> QED BY <1>1, <1>2 DEF HearsDeployed

(***************************************************************************)
(* What the steps of the wizard change.                                    *)
(***************************************************************************)
\* At most flow f moves.
Moved(f) ==
  flow' \in [Flows -> FlowRecord] /\ \A g \in Flows \ {f} : flow'[g] = flow[g]

FundingStep(f) ==
  \/ CheckFunding(f) \/ SignDeposit(f) \/ DepositReceipt(f) \/ ReceiptFails(f)
  \/ Reconcile(f) \/ Refresh(f)

OutsideStep ==
  \/ \E i \in DOMAIN calls : HostAnswers(i)
  \/ \E i \in DOMAIN deposits : MineDeposit(i)
  \/ \E i \in DOMAIN txs : BackendMines(i) \/ OtherTab(i)

(* The kinds of steps.                                                     *)
LEMMA WizardSteps ==
  ASSUME [WizardNext]_wizardVars
  PROVE  \/ UNCHANGED wizardVars
         \/ Filling
         \/ \E f \in Flows : DeployAndFund(f) \/ ChainAnswers(f)
         \/ \E f \in Flows : PrepareAgreement(f) \/ ConfirmAgreement(f)
         \/ \E f \in Flows : FundingStep(f)
         \/ \E r \in Requests : BackendStep(r)
         \/ OutsideStep
         \/ BackendCrash
  <1>1. (\E f \in Flows : FlowNext(f)) =>
          \E f \in Flows : \/ DeployAndFund(f) \/ ChainAnswers(f)
                           \/ PrepareAgreement(f) \/ ConfirmAgreement(f)
                           \/ FundingStep(f)
    BY DEF FlowNext, Flowing, FundingStep
  <1>2. OutsideStep <=>
          \/ \E i \in DOMAIN calls : HostAnswers(i)
          \/ \E i \in DOMAIN deposits : MineDeposit(i)
          \/ \E i \in DOMAIN txs : BackendMines(i) \/ OtherTab(i)
    BY DEF OutsideStep
  <1> QED BY <1>1, <1>2, Zenon DEF WizardNext

(* A page stays one, and shows what it showed, when a flow changes         *)
(* something else of it.                                                   *)
LEMMA PageStays ==
  ASSUME ui \in Pages, NEW new \in Pages, Page(new), new.shown = ui.shown
  PROVE  /\ ui' \in Pages /\ ui'.shown = ui.shown
         /\ ui' = ui \/ ui' = new
  BY DEF Page

(* A flow that ends is over, and the result may be a new one.              *)
LEMMA EndMoves ==
  ASSUME WizardTypeOK, NEW f \in Flows,
         NEW result \in [id : Agreements \cup {NoAgreement}, funded : BOOLEAN],
         FlowEndsWith(f, result)
  PROVE  /\ Moved(f) /\ flow'[f] = NoFlow
         /\ ui' \in Pages /\ ui'.shown = ui.shown
         /\ ui'.result \in {ui.result, result}
  <1>1. NoFlow \in FlowRecord
    BY DEF NoFlow, FlowRecord, FlowPcs, Outcomes
  <1>2. Moved(f) /\ flow'[f] = NoFlow
    BY <1>1 DEF Moved, FlowEndsWith, WizardTypeOK
  <1> DEFINE new == [ui EXCEPT !.deploying = FALSE, !.result = result]
  <1>3. ui \in Pages /\ new \in Pages /\ new.shown = ui.shown /\ new.result = result
    BY DEF WizardTypeOK, Pages
  <1>4. Page(new)
    BY DEF FlowEndsWith
  <1> HIDE DEF new
  <1> QED BY <1>2, <1>3, <1>4, PageStays

(* The same, for a flow that fails: the result is the last one.            *)
LEMMA FailMoves ==
  ASSUME WizardTypeOK, NEW f \in Flows, FlowFails(f)
  PROVE  /\ Moved(f) /\ flow'[f] = NoFlow
         /\ ui' \in Pages /\ ui'.shown = ui.shown /\ ui'.result = ui.result
  <1>1. ui.result \in [id : Agreements \cup {NoAgreement}, funded : BOOLEAN]
    BY DEF WizardTypeOK, Pages
  <1>2. FlowEndsWith(f, ui.result)
    BY DEF FlowFails
  <1> QED BY <1>1, <1>2, EndMoves

(* A flow that goes to another step.                                       *)
LEMMA GoMoves ==
  ASSUME WizardTypeOK, NEW f \in Flows, NEW pc \in FlowPcs, FlowGoesTo(f, pc)
  PROVE  /\ Moved(f) /\ flow'[f].pc = pc /\ flow'[f].id = flow[f].id
         /\ flow'[f].call = flow[f].call /\ flow'[f].tx = flow[f].tx
         /\ flow'[f].sent = flow[f].sent
  BY DEF Moved, FlowGoesTo, WizardTypeOK, FlowRecord

(* A click, and the answer of the wallet to it.                            *)
LEMMA LaunchMoves ==
  ASSUME WizardFlow, NEW f \in Flows, DeployAndFund(f) \/ ChainAnswers(f)
  PROVE  /\ UNCHANGED <<row, request, txs, answered, form, step, fee, calls, payments,
                        chain, deposits>>
         /\ Moved(f)
         /\ \/ flow'[f] = NoFlow
            \/ /\ flow'[f].pc \in {"asking", "preparing"}
               /\ flow'[f].call = NoRequest
               /\ flow'[f].id \in Agreements
         /\ \/ flow'[f].tx = "none" /\ flow[f].pc = "idle"
               /\ (Launching /\ flow'[f].id = form.id)
            \/ flow'[f] = NoFlow
            \/ /\ flow'[f].id = flow[f].id /\ flow'[f].tx = flow[f].tx
               /\ flow'[f].sent = flow[f].sent /\ flow[f].pc # "idle"
         /\ ui' \in Pages /\ ui'.shown = ui.shown /\ ui'.result = ui.result
  <1>1. WizardTypeOK /\ flow \in [Flows -> FlowRecord] /\ FlowOK(f)
    BY DEF WizardFlow, WizardTypeOK, FlowsOK
  <1>2. CASE DeployAndFund(f)
    <2>1. /\ UNCHANGED <<row, request, txs, answered, form, step, fee, calls, payments,
                         chain, deposits, ui>>
          /\ flow[f] = NoFlow /\ Launching /\ form.id # NoAgreement
          /\ flow' = [flow EXCEPT ![f].pc = "asking", ![f].id = form.id]
      BY <1>2 DEF DeployAndFund, InUse, Preview, Launching, deploymentVars, formVars,
                  feeVars, chainVars
    <2>2. form.id \in Agreements /\ ui \in Pages
      BY <1>1, <2>1 DEF WizardTypeOK, Forms
    <2>3. /\ Moved(f) /\ flow'[f].pc = "asking" /\ flow'[f].id = form.id
          /\ flow'[f].call = NoRequest /\ flow'[f].tx = "none"
      BY <1>1, <2>1, <2>2 DEF Moved, FlowRecord, FlowPcs, NoFlow
    <2>4. flow[f].pc = "idle"
      BY <2>1 DEF NoFlow
    <2> QED BY <2>1, <2>2, <2>3, <2>4
  <1>3. CASE ChainAnswers(f)
    <2>1. /\ UNCHANGED <<row, request, txs, answered, form, step, fee, calls, payments,
                         chain, deposits>>
          /\ flow[f].pc = "asking"
      BY <1>3 DEF ChainAnswers, deploymentVars, formVars, feeVars, chainVars
    <2>2. flow[f].id \in Agreements /\ flow[f].call = NoRequest
      BY <1>1, <2>1 DEF FlowOK
    <2>3. CASE FlowGoesTo(f, "preparing") /\ Page([ui EXCEPT !.deploying = TRUE])
      <3>1. /\ [ui EXCEPT !.deploying = TRUE] \in Pages
            /\ [ui EXCEPT !.deploying = TRUE].shown = ui.shown
            /\ [ui EXCEPT !.deploying = TRUE].result = ui.result
            /\ ui \in Pages
        BY <1>1 DEF WizardTypeOK, Pages
      <3>2. ui' \in Pages /\ ui'.shown = ui.shown /\ ui'.result = ui.result
        BY <2>3, <3>1, PageStays
      <3>3. "preparing" \in FlowPcs
        BY DEF FlowPcs
      <3> QED BY <1>1, <2>1, <2>2, <2>3, <3>2, <3>3, GoMoves
    <2>4. CASE flow' = [flow EXCEPT ![f] = NoFlow] /\ UNCHANGED ui
      <3>1. NoFlow \in FlowRecord
        BY DEF NoFlow, FlowRecord, FlowPcs, Outcomes
      <3>2. ui \in Pages
        BY <1>1 DEF WizardTypeOK
      <3> QED BY <1>1, <2>1, <2>4, <3>1, <3>2 DEF Moved
    <2> QED BY <1>3, <2>3, <2>4 DEF ChainAnswers
  <1> QED BY <1>2, <1>3

(* The creation of the agreement, and the request that deploys it.         *)
LEMMA CreationMoves ==
  ASSUME DeploymentInv, WizardFlow, NEW f \in Flows,
         PrepareAgreement(f) \/ ConfirmAgreement(f)
  PROVE  /\ UNCHANGED <<txs, answered, form, step, fee, calls, payments, chain, deposits>>
         /\ ui' \in Pages /\ ui'.shown = ui.shown /\ ui'.result = ui.result
         /\ Moved(f) /\ flow[f].id \in Agreements /\ flow[f].call = NoRequest
         /\ flow[f].pc \in {"preparing", "prepared"}
         /\ \/ flow'[f] = NoFlow
            \/ /\ flow'[f].id = flow[f].id /\ flow'[f].tx = flow[f].tx
               /\ flow'[f].sent = flow[f].sent
               /\ flow'[f].pc \in {"prepared", "confirming"}
         /\ \/ UNCHANGED <<row, request>> /\ flow'[f] = NoFlow
            \/ /\ flow[f].pc = "preparing" /\ Prepare(flow[f].id)
               /\ flow'[f] # NoFlow =>
                    flow'[f].pc = "prepared" /\ flow'[f].call = NoRequest
            \/ /\ flow[f].pc = "prepared"
               /\ \E r \in Requests :
                    /\ Confirm(r, flow[f].id)
                    /\ flow'[f] # NoFlow =>
                         flow'[f].pc = "confirming" /\ flow'[f].call = r
  <1>1. /\ WizardTypeOK /\ flow \in [Flows -> FlowRecord] /\ FlowOK(f) /\ ui \in Pages
        /\ "prepared" \in FlowPcs
    BY DEF WizardFlow, WizardTypeOK, FlowsOK, FlowPcs, Holding
  <1>2. /\ UNCHANGED <<txs, answered, form, step, fee, calls, payments, chain, deposits>>
        /\ flow[f].pc \in {"preparing", "prepared"}
    BY DEF PrepareAgreement, ConfirmAgreement, Prepare, Confirm, deploymentVars,
           formVars, feeVars, chainVars
  <1>3. flow[f].id \in Agreements /\ flow[f].call = NoRequest
    BY <1>1, <1>2 DEF FlowOK
  <1>4. CASE UNCHANGED deploymentVars /\ FlowFails(f)
    BY <1>1, <1>2, <1>3, <1>4, FailMoves DEF deploymentVars
  <1>5. CASE flow[f].pc = "preparing" /\ Prepare(flow[f].id) /\ FlowFails(f)
    BY <1>1, <1>2, <1>3, <1>5, FailMoves
  <1>6. CASE /\ flow[f].pc = "preparing" /\ Prepare(flow[f].id)
             /\ FlowGoesTo(f, "prepared") /\ UNCHANGED ui
    BY <1>1, <1>2, <1>3, <1>6, GoMoves
  <1>7. ASSUME NEW r \in Requests, flow[f].pc = "prepared", Confirm(r, flow[f].id),
               \/ flow' = [flow EXCEPT ![f].pc = "confirming", ![f].call = r] /\ UNCHANGED ui
               \/ FlowFails(f)
        PROVE  /\ ui' \in Pages /\ ui'.shown = ui.shown /\ ui'.result = ui.result
               /\ Moved(f)
               /\ \/ flow'[f] = NoFlow
                  \/ /\ flow'[f].id = flow[f].id /\ flow'[f].tx = flow[f].tx
                     /\ flow'[f].sent = flow[f].sent
                     /\ flow'[f].pc = "confirming" /\ flow'[f].call = r
    <2>1. CASE FlowFails(f)
      BY <1>1, <2>1, FailMoves
    <2>2. CASE flow' = [flow EXCEPT ![f].pc = "confirming", ![f].call = r] /\ UNCHANGED ui
      BY <1>1, <2>2 DEF Moved, FlowRecord, FlowPcs, Holding
    <2> QED BY <1>7, <2>1, <2>2
  <1>8. CASE PrepareAgreement(f)
    BY <1>4, <1>5, <1>6, <1>8 DEF PrepareAgreement
  <1>9. CASE ConfirmAgreement(f)
    <2>1. CASE \E r \in Requests :
                 /\ Confirm(r, flow[f].id)
                 /\ \/ /\ flow' = [flow EXCEPT ![f].pc = "confirming", ![f].call = r]
                       /\ UNCHANGED ui
                    \/ FlowFails(f)
      <3>1. flow[f].pc = "prepared"
        BY <1>9 DEF ConfirmAgreement
      <3> QED BY <1>2, <1>3, <1>7, <2>1, <3>1
    <2> QED BY <1>4, <1>9, <2>1 DEF ConfirmAgreement
  <1> QED BY <1>8, <1>9

(* A step of the funding: the deposits are as they were, or one is signed. *)
LEMMA FundingMoves ==
  ASSUME WizardFlow, NEW f \in Flows, FundingStep(f)
  PROVE  /\ UNCHANGED <<row, request, txs, answered, form, step, fee, calls, payments,
                        chain>>
         /\ flow[f].pc \in Fundings /\ flow[f].id \in Agreements
         /\ flow[f].call = NoRequest
         /\ Moved(f)
         /\ \/ flow'[f] = NoFlow
            \/ /\ flow'[f].id = flow[f].id /\ flow'[f].call = NoRequest
               /\ flow'[f].pc \in Fundings
         /\ ui' \in Pages /\ ui'.shown = ui.shown
         /\ \/ UNCHANGED deposits
            \/ SignDeposit(f)
  <1>1. /\ WizardTypeOK /\ flow \in [Flows -> FlowRecord] /\ FlowOK(f) /\ ui \in Pages
        /\ deposits \in Seq(DepositRecord)
    BY DEF WizardFlow, WizardTypeOK, FlowsOK
  <1>2. /\ UNCHANGED <<row, request, txs, answered, form, step, fee, calls, payments,
                       chain>>
        /\ flow[f].pc \in Fundings
        /\ UNCHANGED deposits \/ SignDeposit(f)
    BY DEF FundingStep, CheckFunding, SignDeposit, DepositReceipt, ReceiptFails,
           Reconcile, Refresh, deploymentVars, formVars, feeVars, chainVars, Fundings
  <1>3. flow[f].id \in Agreements /\ flow[f].call = NoRequest
    BY <1>1, <1>2 DEF FlowOK, Holding, Fundings
  <1>4. ASSUME NEW pc \in Fundings, FlowGoesTo(f, pc)
        PROVE  Moved(f) /\ flow'[f].id = flow[f].id /\ flow'[f].call = NoRequest
               /\ flow'[f].pc \in Fundings
    BY <1>1, <1>3, <1>4, GoMoves DEF FlowPcs, Holding
  <1>5. ASSUME NEW tx \in Outcomes, Funding(f, tx)
        PROVE  Moved(f) /\ flow'[f].id = flow[f].id /\ flow'[f].call = NoRequest
               /\ flow'[f].pc \in Fundings
    BY <1>1, <1>3, <1>5 DEF Funding, Moved, FlowRecord, FlowPcs, Holding, Fundings
  <1>6. CASE SignDeposit(f) /\ flow' = [flow EXCEPT ![f].pc = "waiting",
                                                    ![f].sent = Len(deposits) + 1]
    <2>1. Len(deposits) + 1 \in Nat
      BY <1>1
    <2> QED BY <1>1, <1>2, <1>3, <1>6, <2>1
        DEF SignDeposit, Moved, FlowRecord, FlowPcs, Holding, Fundings
  <1>7. CASE Refresh(f)
    <2>1. PICK seen \in {chain[Escrow(f)], "unknown"} :
            FlowEndsWith(f, [id |-> flow[f].id, funded |-> IsFunded(f, seen)])
      BY <1>7 DEF Refresh
    <2>2. [id |-> flow[f].id, funded |-> IsFunded(f, seen)]
            \in [id : Agreements \cup {NoAgreement}, funded : BOOLEAN]
      BY <1>3 DEF IsFunded
    <2> QED BY <1>1, <1>2, <1>3, <2>1, <2>2, EndMoves
  <1>8. /\ {"signing", "reconciling"} \subseteq Fundings
        /\ {"RPC_ERROR", "USER_REJECTED", "TRANSACTION_REVERTED", "COMPLETE",
            "AWAITING_RECONCILIATION", "RECONCILIATION_FAILED"} \subseteq Outcomes
    BY DEF Fundings, Outcomes
  <1>9. CASE ~Refresh(f)
    <2>1. UNCHANGED ui
      BY <1>9 DEF FundingStep, CheckFunding, SignDeposit, DepositReceipt, ReceiptFails,
                  Reconcile
    <2>2. \/ \E pc \in {"signing", "reconciling"} : FlowGoesTo(f, pc)
          \/ \E tx \in Outcomes : Funding(f, tx)
          \/ SignDeposit(f) /\ flow' = [flow EXCEPT ![f].pc = "waiting",
                                                    ![f].sent = Len(deposits) + 1]
      BY <1>8, <1>9 DEF FundingStep, CheckFunding, SignDeposit, DepositReceipt,
                        ReceiptFails, Reconcile
    <2> QED BY <1>1, <1>2, <1>3, <1>4, <1>5, <1>6, <1>8, <2>1, <2>2
  <1> QED BY <1>7, <1>9

(* A step of the backend: the flow that waits for the request hears of its *)
(* end, and shows what it heard of.                                        *)
LEMMA BackendMoves ==
  ASSUME DeploymentInv, WizardFlow, NEW r \in Requests, BackendStep(r)
  PROVE  /\ RequestStep(r)
         /\ UNCHANGED <<form, fee, calls, payments, chain, deposits>>
         /\ \/ /\ UNCHANGED <<flow, ui, step>>
               /\ \/ request'[r].pc # "idle"
                  \/ \A f \in Flows : flow[f].call # r
            \/ \E f \in Flows :
                 /\ flow[f].call = r /\ request'[r].pc = "idle" /\ Moved(f)
                 /\ ui' \in Pages /\ ui'.result = ui.result
                 /\ \/ flow'[f] = NoFlow /\ ui'.shown = ui.shown /\ step' = step
                    \/ /\ At(r, "answering") /\ HearsDeployed(r)
                       /\ flow'[f].pc = "details" /\ flow'[f].call = NoRequest
                       /\ flow'[f].id = flow[f].id
                       /\ flow'[f].tx = flow[f].tx /\ flow'[f].sent = flow[f].sent
                       /\ \/ ui'.shown = ui.shown /\ step' = step
                          \/ ui'.shown = flow[f].id /\ step' = LastStep
  <1>1. /\ WizardTypeOK /\ flow \in [Flows -> FlowRecord] /\ ui \in Pages
    BY DEF WizardFlow, WizardTypeOK
  <1>2. RequestStep(r) /\ UNCHANGED <<form, fee, calls, payments, chain, deposits>>
    BY DEF BackendStep, feeVars, chainVars
  <1>3. CASE request'[r].pc # "idle" \/ {f \in Flows : flow[f].call = r} = {}
    <2>1. UNCHANGED <<flow, ui, step>>
      BY <1>3 DEF BackendStep, flowVars
    <2>2. request'[r].pc # "idle" \/ \A f \in Flows : flow[f].call # r
      BY <1>3
    <2> QED BY <1>2, <2>1, <2>2
  <1>4. ASSUME request'[r].pc = "idle", NEW f \in Flows, flow[f].call = r,
               \/ FlowFails(f) /\ UNCHANGED step
               \/ At(r, "answering") /\ HearsDeployed(r) /\ ShowsDeployed(f)
        PROVE  /\ Moved(f)
               /\ ui' \in Pages /\ ui'.result = ui.result
               /\ \/ flow'[f] = NoFlow /\ ui'.shown = ui.shown /\ step' = step
                  \/ /\ At(r, "answering") /\ HearsDeployed(r)
                     /\ flow'[f].pc = "details" /\ flow'[f].call = NoRequest
                     /\ flow'[f].id = flow[f].id
                     /\ flow'[f].tx = flow[f].tx /\ flow'[f].sent = flow[f].sent
                     /\ \/ ui'.shown = ui.shown /\ step' = step
                        \/ ui'.shown = flow[f].id /\ step' = LastStep
    <2>1. CASE FlowFails(f) /\ UNCHANGED step
      BY <1>1, <2>1, FailMoves
    <2>2. CASE At(r, "answering") /\ HearsDeployed(r) /\ ShowsDeployed(f)
      <3>1. flow[f].id \in Agreements \cup {NoAgreement}
        BY <1>1 DEF FlowRecord
      <3>2. /\ Moved(f) /\ flow'[f].pc = "details" /\ flow'[f].call = NoRequest
            /\ flow'[f].id = flow[f].id
            /\ flow'[f].tx = flow[f].tx /\ flow'[f].sent = flow[f].sent
        BY <1>1, <2>2 DEF ShowsDeployed, Moved, FlowRecord, FlowPcs, Holding, Fundings
      <3>3. [ui EXCEPT !.shown = flow[f].id] \in Pages
        BY <1>1, <3>1 DEF Pages
      <3>4. /\ [ui EXCEPT !.shown = flow[f].id].shown = flow[f].id
            /\ [ui EXCEPT !.shown = flow[f].id].result = ui.result
        BY <1>1 DEF Pages
      <3>5. IF ui.open THEN ui' = [ui EXCEPT !.shown = flow[f].id] /\ step' = LastStep
                       ELSE UNCHANGED <<ui, step>>
        BY <2>2 DEF ShowsDeployed, Page
      <3> QED BY <1>1, <2>2, <3>2, <3>3, <3>4, <3>5
    <2> QED BY <1>4, <2>1, <2>2
  <1>5. CASE ~(request'[r].pc # "idle" \/ {f \in Flows : flow[f].call = r} = {})
    <2>1. \E f \in {g \in Flows : flow[g].call = r} :
            \/ FlowFails(f) /\ UNCHANGED step
            \/ At(r, "answering") /\ HearsDeployed(r) /\ ShowsDeployed(f)
      BY <1>5 DEF BackendStep
    <2> QED BY <1>2, <1>4, <1>5, <2>1
  <1> QED BY <1>3, <1>5


(* A change of the form: it has the payload of the agreement it commits to.*)
LEMMA ChangesOK ==
  ASSUME NEW new \in Forms, Changes(new)
  PROVE  form' \in Forms /\ FormOK' /\ form'.payload = new.payload
  <1>1. PICK a \in Commitments(new) : form' = [new EXCEPT !.id = a]
    BY DEF Changes
  <1>2. (a \in Agreements /\ payloadOf[a] = new.payload) \/ a = NoAgreement
    BY DEF Commitments
  <1> QED BY <1>1, <1>2 DEF Forms, FormOK

(* Filling in the form, going through the steps, closing the wizard and    *)
(* calling the host.                                                       *)
LEMMA FillingMoves ==
  ASSUME WizardFlow, Filling
  PROVE  /\ UNCHANGED <<row, request, txs, answered, flow, payments, chain, deposits>>
         /\ form' \in Forms /\ FormOK' /\ step' \in 1..LastStep
         /\ fee' \in Fees /\ fee'.host = fee.host /\ calls' \in Seq(Calls)
         /\ ui' \in Pages /\ ui'.result \in {ui.result, NoResult}
         /\ UNCHANGED ui \/ Close
  <1> DEFINE Kept == /\ UNCHANGED <<row, request, txs, answered, flow, payments, chain,
                                    deposits, ui>>
             Result == /\ Kept
                       /\ form' \in Forms /\ FormOK' /\ step' \in 1..LastStep
                       /\ fee' \in Fees /\ fee'.host = fee.host /\ calls' \in Seq(Calls)
  <1> USE DEF WizardFlow
  <1>1. /\ form \in Forms /\ FormOK /\ step \in 1..LastStep /\ fee \in Fees
        /\ calls \in Seq(Calls) /\ ui \in Pages
    BY DEF WizardTypeOK
  <1>2. UNCHANGED form => FormOK'
    BY <1>1 DEF FormOK
  <1>3. ASSUME NEW content \in Contents,
               \/ EditTerms(content) \/ EditDeliverables(content)
               \/ EditRequirements(content) \/ EditCondition(content)
        PROVE  Result
    <2>1. PICK p \in Parts : Edit(p, content)
      BY <1>3 DEF EditTerms, EditDeliverables, EditRequirements, EditCondition, Parts
    <2>2. Kept /\ UNCHANGED <<step, fee, calls>> /\ Changes([form EXCEPT !.part[p] = content])
      BY <2>1 DEF Edit, deploymentVars, flowVars, feeVars, chainVars
    <2>3. [form EXCEPT !.part[p] = content] \in Forms
      BY <1>1 DEF Forms
    <2> QED BY <1>1, <2>2, <2>3, ChangesOK
  <1>4. ASSUME NEW mode \in Modes, SelectMode(mode)
        PROVE  Result
    <2> DEFINE new == [form EXCEPT !.mode = mode,
                         !.part["work"] = IF mode = "external" THEN "missing" ELSE @]
    <2>1. Kept /\ UNCHANGED <<step, fee, calls>> /\ Changes(new)
      BY <1>4 DEF SelectMode, deploymentVars, flowVars, feeVars, chainVars
    <2>2. new \in Forms
      BY <1>1 DEF Forms, Contents, Parts
    <2> QED BY <1>1, <2>1, <2>2, ChangesOK
  <1>5. ASSUME NEW p \in Payloads, EditNonce(p)
        PROVE  Result
    <2>1. /\ Kept /\ UNCHANGED <<step, calls>> /\ fee' = [fee EXCEPT !.stage = "idle"]
          /\ Changes([form EXCEPT !.payload = p])
      BY <1>5 DEF EditNonce, deploymentVars, flowVars, chainVars
    <2>2. [form EXCEPT !.payload = p] \in Forms
      BY <1>1 DEF Forms
    <2>3. fee' \in Fees /\ fee'.host = fee.host
      BY <1>1, <2>1 DEF Fees
    <2> QED BY <1>1, <2>1, <2>2, <2>3, ChangesOK
  <1>6. CASE Continue \/ Back
    <2>1. Kept /\ UNCHANGED <<form, fee, calls>>
      BY <1>6 DEF Continue, Back, deploymentVars, flowVars, feeVars, chainVars
    <2>2. form.mode \in Modes
      BY <1>1 DEF Forms
    <2>3. CASE Continue
      <3>1. step \in 1..(LastStep - 1) /\ step' = NextStep(step, form.mode)
        BY <1>1, <2>3 DEF Continue, LastStep
      <3>2. step' \in 1..LastStep
        BY <2>2, <3>1, NextStepOK DEF LastStep
      <3> QED BY <1>1, <1>2, <2>1, <3>2
    <2>4. CASE Back
      <3>1. step \in 2..LastStep /\ step' = PreviousStep(step, form.mode)
        BY <1>1, <2>4 DEF Back, LastStep
      <3>2. step' \in 1..LastStep
        BY <2>2, <3>1, PreviousStepOK DEF LastStep
      <3> QED BY <1>1, <1>2, <2>1, <3>2
    <2> QED BY <1>6, <2>3, <2>4
  <1>7. CASE Close
    <2>1. /\ UNCHANGED <<row, request, txs, answered, flow, payments, chain, deposits>>
          /\ ui' = [open |-> FALSE, deploying |-> FALSE, shown |-> NoAgreement,
                    result |-> NoResult]
          /\ form' = BlankForm /\ step' = 1 /\ calls' = <<>>
          /\ fee' = [fee EXCEPT !.stage = "idle", !.account = FALSE]
      BY <1>7 DEF Close, deploymentVars, chainVars
    <2>2. BlankForm \in Forms /\ BlankForm.id = NoAgreement
      BY WizardAssumption DEF BlankForm, Forms, Modes, Parts, Contents
    <2>3. ui' \in Pages /\ ui'.result = NoResult
      BY <2>1 DEF Pages, NoResult
    <2>4. fee' \in Fees /\ fee'.host = fee.host
      BY <1>1, <2>1 DEF Fees
    <2>5. FormOK' /\ step' \in 1..LastStep
      BY <2>1, <2>2 DEF FormOK, LastStep
    <2>6. calls' \in Seq(Calls)
      BY <2>1
    <2> QED BY <1>7, <2>1, <2>2, <2>3, <2>4, <2>5, <2>6
  <1>8. CASE Authorize \/ Pay
    <2>1. PICK kind \in {"authorize", "pay"} :
            /\ calls' = Append(calls, [kind |-> kind, payload |-> form.payload])
            /\ fee' = [fee EXCEPT !.stage = "pending"]
            /\ Kept /\ UNCHANGED <<form, step>>
      BY <1>8 DEF Authorize, Pay, CallsHost, deploymentVars, formVars, flowVars, chainVars
    <2>2. [kind |-> kind, payload |-> form.payload] \in Calls
      BY <1>1 DEF Calls, Forms
    <2>3. calls' \in Seq(Calls)
      BY <1>1, <2>1, <2>2
    <2>4. fee' \in Fees /\ fee'.host = fee.host
      BY <1>1, <2>1 DEF Fees
    <2> QED BY <1>1, <1>2, <2>1, <2>3, <2>4
  <1>9. CASE Result
    BY <1>1, <1>9
  <1> QED
    BY <1>3, <1>4, <1>5, <1>6, <1>7, <1>8, <1>9, Zenon DEF Filling

(* The host's answers, and the chain.                                      *)
LEMMA OutsideMoves ==
  ASSUME WizardFlow, OutsideStep
  PROVE  /\ UNCHANGED <<row, request, answered, form, step, flow, ui>>
         /\ fee' \in Fees /\ fee'.host = fee.host
         /\ calls' \in Seq(Calls) /\ payments' \in Seq(Payloads)
         /\ chain' \in [Addresses -> ChainStates] /\ deposits' \in Seq(DepositRecord)
         /\ \/ UNCHANGED txs
            \/ \E i \in DOMAIN txs : Mine(i) /\ UNCHANGED <<chain, deposits>>
  <1>1. /\ fee \in Fees /\ calls \in Seq(Calls) /\ payments \in Seq(Payloads)
        /\ chain \in [Addresses -> ChainStates] /\ deposits \in Seq(DepositRecord)
    BY DEF WizardFlow, WizardTypeOK
  <1>2. ASSUME NEW i \in DOMAIN calls, HostAnswers(i)
        PROVE  /\ UNCHANGED <<row, request, txs, answered, form, step, flow, ui, chain,
                              deposits>>
               /\ fee' \in Fees /\ fee'.host = fee.host
               /\ calls' \in Seq(Calls) /\ payments' \in Seq(Payloads)
    <2>1. i \in 1..Len(calls) /\ calls[i] \in Calls
      BY <1>1
    <2>2. calls' \in Seq(Calls)
      <3>1. calls' = [k \in 1..(Len(calls) - 1) |-> calls[IF k < i THEN k ELSE k + 1]]
        BY <1>2 DEF HostAnswers, AccountsAnswer, PaymentAnswer, CallFails, Answered
      <3>2. Len(calls) - 1 \in Nat
        BY <1>1, <2>1
      <3>3. \A k \in 1..(Len(calls) - 1) : calls[IF k < i THEN k ELSE k + 1] \in Calls
        BY <1>1, <2>1
      <3> QED BY <3>1, <3>2, <3>3
    <2>3. payments' \in Seq(Payloads)
      <3>1. \/ UNCHANGED payments
            \/ payments' = Append(payments, calls[i].payload)
        BY <1>2 DEF HostAnswers, AccountsAnswer, PaymentAnswer, CallFails
      <3>2. calls[i].payload \in Payloads
        BY <2>1 DEF Calls
      <3>3. Append(payments, calls[i].payload) \in Seq(Payloads)
        BY <1>1, <3>2
      <3> QED BY <1>1, <3>1, <3>3
    <2>4. fee' \in Fees /\ fee'.host = fee.host
      BY <1>1, <1>2 DEF HostAnswers, AccountsAnswer, PaymentAnswer, CallFails, Fees
    <2>5. UNCHANGED <<row, request, txs, answered, form, step, flow, ui, chain, deposits>>
      BY <1>2 DEF HostAnswers, AccountsAnswer, PaymentAnswer, CallFails, deploymentVars,
                  formVars, flowVars, chainVars
    <2> QED BY <2>2, <2>3, <2>4, <2>5
  <1>3. ASSUME NEW i \in DOMAIN deposits, MineDeposit(i)
        PROVE  /\ UNCHANGED <<row, request, txs, answered, form, step, flow, ui, fee,
                              calls, payments>>
               /\ chain' \in [Addresses -> ChainStates] /\ deposits' \in Seq(DepositRecord)
    <2>1. UNCHANGED <<row, request, txs, answered, form, step, flow, ui, fee, calls, payments>>
      BY <1>3 DEF MineDeposit, deploymentVars, formVars, flowVars, feeVars
    <2>2. chain' \in [Addresses -> ChainStates]
      BY <1>1, <1>3 DEF MineDeposit, ChainStates
    <2>3. PICK status \in {"mined", "reverted"} : deposits' = [deposits EXCEPT ![i].status = status]
      BY <1>3 DEF MineDeposit
    <2>4. i \in 1..Len(deposits) /\ deposits[i] \in DepositRecord
      BY <1>1
    <2>5. [deposits[i] EXCEPT !.status = status] \in DepositRecord
      BY <2>4 DEF DepositRecord
    <2>6. deposits' = [deposits EXCEPT ![i] = [deposits[i] EXCEPT !.status = status]]
      BY <2>3
    <2>7. deposits' \in Seq(DepositRecord)
      BY <1>1, <2>4, <2>5, <2>6
    <2> QED BY <2>1, <2>2, <2>7
  <1>4. ASSUME NEW i \in DOMAIN txs, BackendMines(i)
        PROVE  /\ UNCHANGED <<row, request, answered, form, step, flow, ui, fee, calls,
                              payments, chain, deposits>>
               /\ Mine(i)
    BY <1>4 DEF BackendMines, Mine, formVars, flowVars, feeVars, chainVars
  <1>5. ASSUME NEW i \in DOMAIN txs, OtherTab(i)
        PROVE  /\ UNCHANGED <<row, request, txs, answered, form, step, flow, ui, fee, calls,
                              payments, deposits>>
               /\ chain' \in [Addresses -> ChainStates]
    BY <1>1, <1>5 DEF OtherTab, deploymentVars, formVars, flowVars, feeVars, ChainStates
  <1> QED BY <1>1, <1>2, <1>3, <1>4, <1>5 DEF OutsideStep

(* A restart of the backend: the flows that wait for it fail.              *)
LEMMA CrashMoves ==
  ASSUME WizardFlow, BackendCrash
  PROVE  /\ UNCHANGED <<row, txs, answered, form, step, fee, calls, payments, chain,
                        deposits>>
         /\ \A r \in Requests : request'[r].pc = "idle"
         /\ flow' \in [Flows -> FlowRecord]
         /\ \A f \in Flows : \/ flow'[f] = NoFlow
                             \/ flow'[f] = flow[f] /\ flow[f].call = NoRequest
         /\ ui' \in Pages /\ ui'.shown = ui.shown /\ ui'.result = ui.result
  <1>1. flow \in [Flows -> FlowRecord] /\ ui \in Pages
    BY DEF WizardFlow, WizardTypeOK
  <1>2. NoFlow \in FlowRecord
    BY DEF NoFlow, FlowRecord, FlowPcs, Outcomes
  <1>3. /\ UNCHANGED <<row, txs, answered, form, step, fee, calls, payments, chain, deposits>>
        /\ \A r \in Requests : request'[r].pc = "idle"
    BY DEF BackendCrash, Crash, Idle, formVars, feeVars, chainVars
  <1> DEFINE new == [ui EXCEPT !.deploying = FALSE]
  <1>4. new \in Pages /\ new.shown = ui.shown /\ new.result = ui.result
    BY <1>1 DEF Pages
  <1>5. UNCHANGED ui \/ Page(new)
    BY DEF BackendCrash
  <1>6. ui' \in Pages /\ ui'.shown = ui.shown /\ ui'.result = ui.result
    <2> HIDE DEF new
    <2> QED BY <1>1, <1>4, <1>5, PageStays
  <1>7. flow' = [f \in Flows |-> IF f \in {g \in Flows : flow[g].call # NoRequest}
                                 THEN NoFlow ELSE flow[f]]
    BY DEF BackendCrash
  <1>8. /\ flow' \in [Flows -> FlowRecord]
        /\ \A f \in Flows : \/ flow'[f] = NoFlow
                            \/ flow'[f] = flow[f] /\ flow[f].call = NoRequest
    BY <1>1, <1>2, <1>7
  <1> QED BY <1>3, <1>6, <1>8

(***************************************************************************)
(* The flows and what they know of their agreements: kept by every kind of *)
(* step.                                                                   *)
(***************************************************************************)
LEMMA WizardFlowInit == WizardInit => WizardFlow
  <1> SUFFICES ASSUME WizardInit PROVE WizardFlow
    OBVIOUS
  <1>1. form \in Forms /\ form.id = NoAgreement
    BY WizardAssumption DEF WizardInit, BlankForm, Forms, Modes, Parts, Contents
  <1>2. flow \in [Flows -> FlowRecord] /\ \A f \in Flows : flow[f] = NoFlow
    BY DEF WizardInit, NoFlow, FlowRecord, FlowPcs, Outcomes
  <1>3. fee \in Fees /\ ui \in Pages /\ chain \in [Addresses -> ChainStates]
    BY DEF WizardInit, Fees, Pages, NoResult, ChainStates
  <1>4. step \in 1..LastStep
    BY DEF WizardInit, LastStep
  <1>5. calls \in Seq(Calls) /\ payments \in Seq(Payloads) /\ deposits \in Seq(DepositRecord)
    BY DEF WizardInit
  <1>6. WizardTypeOK
    BY <1>1, <1>2, <1>3, <1>4, <1>5 DEF WizardTypeOK
  <1>7. FormOK /\ FlowsOK /\ OneHolder
    BY <1>1, <1>2 DEF FormOK, FlowsOK, FlowOK, OneHolder, NoFlow, Holding, Fundings
  <1> QED BY <1>6, <1>7 DEF WizardFlow

\* A flow that stays, or moves on with the agreement it holds, while nothing
\* is taken away from the rows.
LEMMA FlowsStay ==
  ASSUME WizardFlow,
         \A a \in Agreements : row[a].status # "none" => row'[a].status # "none",
         \A a \in Agreements :
           row[a].escrowAddress # NoAddress => row'[a].escrowAddress # NoAddress,
         \A f \in Flows :
           \/ /\ FlowOK(f)'
              /\ flow'[f].pc \in Holding =>
                   flow[f].pc \in Holding /\ flow'[f].id = flow[f].id
           \/ /\ flow'[f] = flow[f]
              /\ flow[f].call # NoRequest =>
                   /\ request'[flow[f].call].pc # "idle"
                   /\ request'[flow[f].call].agreement = request[flow[f].call].agreement
  PROVE  FlowsOK' /\ OneHolder'
  <1>1. ASSUME NEW f \in Flows
        PROVE  /\ FlowOK(f)'
               /\ flow'[f].pc \in Holding =>
                    flow[f].pc \in Holding /\ flow'[f].id = flow[f].id
    <2>1. CASE /\ flow'[f] = flow[f]
               /\ flow[f].call # NoRequest =>
                    /\ request'[flow[f].call].pc # "idle"
                    /\ request'[flow[f].call].agreement = request[flow[f].call].agreement
      <3>1. FlowOK(f)
        BY DEF WizardFlow, FlowsOK
      <3>2. flow[f].pc \in Holding \cup Fundings => flow[f].id \in Agreements
        BY <3>1 DEF FlowOK, Holding, Fundings
      <3> QED BY <2>1, <3>1, <3>2 DEF FlowOK
    <2> QED BY <2>1
  <1>2. FlowsOK'
    BY <1>1 DEF FlowsOK
  <1>3. OneHolder'
    BY <1>1 DEF OneHolder, WizardFlow
  <1> QED BY <1>2, <1>3

\* A flow that is over is in order.
LEMMA OverIsOK ==
  ASSUME NEW f \in Flows, flow'[f] = NoFlow
  PROVE  FlowOK(f)' /\ flow'[f].pc \notin Holding
  BY DEF FlowOK, NoFlow, Holding, Fundings

LEMMA LaunchFlow ==
  ASSUME WizardFlow, NEW f \in Flows, DeployAndFund(f) \/ ChainAnswers(f)
  PROVE  WizardFlow'
  <1>1. /\ UNCHANGED <<row, request, form, step, fee, calls, payments, chain, deposits>>
        /\ Moved(f) /\ ui' \in Pages
        /\ \/ flow'[f] = NoFlow
           \/ /\ flow'[f].pc \in {"asking", "preparing"}
              /\ flow'[f].call = NoRequest
              /\ flow'[f].id \in Agreements
    BY LaunchMoves
  <1>2. WizardTypeOK' /\ FormOK'
    BY <1>1 DEF WizardFlow, WizardTypeOK, FormOK, Moved
  <1>3. FlowOK(f)' /\ flow'[f].pc \notin Holding
    BY <1>1, OverIsOK DEF FlowOK, Holding, Fundings
  <1>4. \A g \in Flows \ {f} : flow'[g] = flow[g] /\ FlowOK(g)
    BY <1>1 DEF Moved, WizardFlow, FlowsOK
  <1>5. FlowsOK' /\ OneHolder'
    <2>1. \A g \in Flows \ {f} : FlowOK(g)'
      BY <1>1, <1>4 DEF FlowOK
    <2> QED BY <1>1, <1>3, <1>4, <2>1, FlowsStay
  <1> QED BY <1>2, <1>5 DEF WizardFlow

LEMMA CreationFlow ==
  ASSUME DeploymentInv, WizardFlow, NEW f \in Flows,
         PrepareAgreement(f) \/ ConfirmAgreement(f)
  PROVE  WizardFlow'
  <1> DEFINE a == flow[f].id
  <1>1. /\ UNCHANGED <<txs, answered, form, step, fee, calls, payments, chain, deposits>>
        /\ ui' \in Pages /\ Moved(f) /\ flow[f].call = NoRequest /\ a \in Agreements
    BY CreationMoves
  <1>2. WizardTypeOK' /\ FormOK'
    BY <1>1 DEF WizardFlow, WizardTypeOK, FormOK, Moved
  <1>3. \A g \in Flows \ {f} : flow'[g] = flow[g] /\ FlowOK(g)
    BY <1>1 DEF Moved, WizardFlow, FlowsOK
  <1>4. /\ row \in [Agreements -> [status : Statuses,
                                   escrowAddress : Addresses \cup {NoAddress}]]
        /\ request \in [Requests -> RequestRecord]
    BY DEF DeploymentInv, DeploymentTypeOK
  <1>5. CASE UNCHANGED <<row, request>> /\ flow'[f] = NoFlow
    <2>1. \A g \in Flows \ {f} : FlowOK(g)'
      BY <1>3, <1>5 DEF FlowOK
    <2>2. FlowsOK' /\ OneHolder'
      BY <1>3, <1>5, <2>1, OverIsOK, FlowsStay
    <2> QED BY <1>2, <2>2 DEF WizardFlow
  <1>6. CASE /\ flow[f].pc = "preparing" /\ Prepare(a)
             /\ \/ flow'[f] = NoFlow
                \/ /\ flow'[f].pc = "prepared" /\ flow'[f].call = NoRequest
                   /\ flow'[f].id = a
    <2>1. /\ UNCHANGED request /\ row[a].status = "none" /\ row'[a].status # "none"
          /\ row'[a].escrowAddress = row[a].escrowAddress
          /\ \A b \in Agreements \ {a} : row'[b] = row[b]
      BY <1>1, <1>4, <1>6 DEF Prepare
    <2>2. ASSUME NEW g \in Flows \ {f}
          PROVE  FlowOK(g)' /\ (flow'[g].pc \in Holding => flow'[g].id # a)
      <3>1. flow[g].pc \in Holding \cup Fundings => flow[g].id \in Agreements
        BY <1>3, <2>2 DEF FlowOK, Holding, Fundings
      <3> QED BY <1>3, <2>1, <2>2, <3>1 DEF FlowOK
    <2>3. FlowOK(f)'
      BY <1>1, <1>6, <2>1, OverIsOK DEF FlowOK, Holding, Fundings
    <2>4. FlowsOK'
      BY <2>2, <2>3 DEF FlowsOK
    <2>5. OneHolder'
      <3>1. flow'[f].pc \in Holding => flow'[f].id = a
        BY <1>6, OverIsOK
      <3> QED BY <1>3, <2>2, <3>1 DEF OneHolder, WizardFlow
    <2> QED BY <1>2, <2>4, <2>5 DEF WizardFlow
  <1>7. ASSUME NEW r \in Requests, flow[f].pc = "prepared", Confirm(r, a),
               \/ flow'[f] = NoFlow
               \/ /\ flow'[f].pc = "confirming" /\ flow'[f].call = r
                  /\ flow'[f].id = a
        PROVE  WizardFlow'
    <2>1. /\ UNCHANGED row /\ request[r].pc = "idle" /\ row[a].status # "none"
          /\ request'[r].pc # "idle" /\ request'[r].agreement = a
          /\ \A q \in Requests \ {r} : request'[q] = request[q]
      BY <1>4, <1>7 DEF Confirm, Admitted, At
    <2>2. ASSUME NEW g \in Flows \ {f}
          PROVE  FlowOK(g)'
      <3>1. flow[g].call # NoRequest => flow[g].call \in Requests \ {r}
        <4>1. flow[g].call \in Requests \cup {NoRequest}
          BY DEF WizardFlow, WizardTypeOK, FlowRecord
        <4> QED BY <1>3, <2>1, <2>2, <4>1 DEF FlowOK
      <3> QED BY <1>3, <2>1, <2>2, <3>1 DEF FlowOK
    <2>3. FlowOK(f)'
      BY <1>1, <1>7, <2>1, OverIsOK DEF FlowOK, Holding, Fundings
    <2>4. "prepared" \in Holding
      BY DEF Holding
    <2>5. FlowsOK' /\ OneHolder'
      BY <1>3, <1>7, <2>1, <2>2, <2>3, <2>4, OverIsOK, FlowsStay
    <2> QED BY <1>2, <2>5 DEF WizardFlow
  <1> QED BY <1>5, <1>6, <1>7, CreationMoves

LEMMA FundingFlow ==
  ASSUME DeploymentInv, WizardFlow, NEW f \in Flows, FundingStep(f)
  PROVE  WizardFlow'
  <1>1. /\ UNCHANGED <<row, request, txs, answered, form, step, fee, calls, payments, chain>>
        /\ flow[f].pc \in Fundings /\ flow[f].id \in Agreements
        /\ flow[f].call = NoRequest
        /\ Moved(f)
        /\ \/ flow'[f] = NoFlow
           \/ /\ flow'[f].id = flow[f].id /\ flow'[f].call = NoRequest
              /\ flow'[f].pc \in Fundings
        /\ ui' \in Pages
        /\ UNCHANGED deposits \/ SignDeposit(f)
    BY FundingMoves
  <1>2. deposits \in Seq(DepositRecord)
    BY DEF WizardFlow, WizardTypeOK
  <1>3. deposits' \in Seq(DepositRecord)
    <2>1. [agreement |-> flow[f].id, escrow |-> Escrow(f), status |-> "pending"]
            \in DepositRecord
      BY <1>1 DEF Escrow, DeploymentInv, DeploymentTypeOK, DepositRecord
    <2>2. \/ UNCHANGED deposits
          \/ deposits' = Append(deposits, [agreement |-> flow[f].id, escrow |-> Escrow(f),
                                           status |-> "pending"])
      BY <1>1 DEF SignDeposit
    <2> QED BY <1>2, <2>1, <2>2
  <1>4. WizardTypeOK' /\ FormOK'
    BY <1>1, <1>3 DEF WizardFlow, WizardTypeOK, FormOK, Moved
  <1>5. \A g \in Flows \ {f} : flow'[g] = flow[g] /\ FlowOK(g)
    BY <1>1 DEF Moved, WizardFlow, FlowsOK
  <1>6. FlowOK(f) /\ Fundings \subseteq Holding
    BY DEF WizardFlow, FlowsOK, Holding
  <1>7. FlowOK(f)'
    BY <1>1, <1>6, OverIsOK DEF FlowOK
  <1>8. \A g \in Flows \ {f} : FlowOK(g)'
    BY <1>1, <1>5 DEF FlowOK
  <1>9. FlowsOK' /\ OneHolder'
    BY <1>1, <1>5, <1>6, <1>7, <1>8, OverIsOK, FlowsStay
  <1> QED BY <1>4, <1>9 DEF WizardFlow

\* A request of the backend takes nothing away from the rows.
LEMMA RowsStay ==
  ASSUME DeploymentInv, NEW r \in Requests, RequestStep(r), NEW a \in Agreements
  PROVE  /\ row[a].status # "none" => row'[a].status # "none"
         /\ row[a].escrowAddress # NoAddress => row'[a].escrowAddress # NoAddress
  BY RequestStepEffect, AddressStays

LEMMA BackendFlow ==
  ASSUME DeploymentInv, WizardFlow, NEW r \in Requests, BackendStep(r)
  PROVE  WizardFlow'
  <1>1. RequestStep(r) /\ UNCHANGED <<form, fee, calls, payments, chain, deposits>>
    BY BackendMoves
  <1>2. /\ flow \in [Flows -> FlowRecord] /\ step \in 1..LastStep /\ ui \in Pages
        /\ WizardTypeOK
    BY DEF WizardFlow, WizardTypeOK
  <1>3. /\ \A q \in Requests \ {r} : request'[q] = request[q]
        /\ request'[r].pc # "idle" => request'[r].agreement = request[r].agreement
    BY <1>1, RequestStepEffect
  <1>4. \A a \in Agreements :
          /\ row[a].status # "none" => row'[a].status # "none"
          /\ row[a].escrowAddress # NoAddress => row'[a].escrowAddress # NoAddress
    BY <1>1, RowsStay
  <1>5. FormOK'
    BY <1>1 DEF WizardFlow, FormOK
  <1>6. ASSUME NEW g \in Flows, flow[g].call # r \/ request'[r].pc # "idle",
               flow[g].call # NoRequest
        PROVE  /\ request'[flow[g].call].pc # "idle"
               /\ request'[flow[g].call].agreement = request[flow[g].call].agreement
    <2>1. flow[g].call \in Requests /\ request[flow[g].call].pc # "idle"
      BY <1>2, <1>6 DEF WizardFlow, FlowsOK, FlowOK, FlowRecord
    <2> QED BY <1>3, <1>6, <2>1
  <1>7. CASE /\ UNCHANGED <<flow, ui, step>>
             /\ request'[r].pc # "idle" \/ \A f \in Flows : flow[f].call # r
    <2>1. WizardTypeOK'
      BY <1>1, <1>2, <1>7 DEF WizardTypeOK
    <2>2. FlowsOK' /\ OneHolder'
      BY <1>4, <1>6, <1>7, FlowsStay
    <2> QED BY <1>5, <2>1, <2>2 DEF WizardFlow
  <1>8. ASSUME NEW f \in Flows, flow[f].call = r, request'[r].pc = "idle", Moved(f),
               ui' \in Pages, step' \in 1..LastStep,
               \/ flow'[f] = NoFlow
               \/ /\ At(r, "answering") /\ HearsDeployed(r)
                  /\ flow'[f].pc = "details" /\ flow'[f].call = NoRequest
                  /\ flow'[f].id = flow[f].id
        PROVE  WizardFlow'
    <2>1. WizardTypeOK'
      BY <1>1, <1>2, <1>8 DEF WizardTypeOK, Moved
    <2>2. /\ flow[f].pc = "confirming" /\ flow[f].id = request[r].agreement
          /\ row[flow[f].id].status # "none" /\ flow[f].id \in Agreements
          /\ "confirming" \in Holding
      BY <1>8, WizardAssumption DEF WizardFlow, FlowsOK, FlowOK, Holding
    <2>3. \A g \in Flows \ {f} : flow'[g] = flow[g] /\ flow[g].call # r
      <3>1. ASSUME NEW g \in Flows, flow[g].call = r
            PROVE  g = f
        <4>1. flow[g].pc = "confirming" /\ flow[g].id = request[r].agreement
          BY <3>1, WizardAssumption DEF WizardFlow, FlowsOK, FlowOK
        <4> QED BY <2>2, <4>1 DEF WizardFlow, OneHolder
      <3> QED BY <1>8, <3>1 DEF Moved
    <2>4. FlowOK(f)'
      <3>1. CASE flow'[f] = NoFlow
        BY <3>1, OverIsOK
      <3>2. CASE /\ At(r, "answering") /\ HearsDeployed(r)
                 /\ flow'[f].pc = "details" /\ flow'[f].call = NoRequest
                 /\ flow'[f].id = flow[f].id
        <4>1. row'[flow[f].id].escrowAddress # NoAddress
          BY <1>1, <2>2, <3>2, HeardIsDeployed
        <4> QED BY <1>4, <2>2, <3>2, <4>1 DEF FlowOK
      <3> QED BY <1>8, <3>1, <3>2
    <2>5. flow'[f].pc \in Holding => flow[f].pc \in Holding /\ flow'[f].id = flow[f].id
      BY <1>8, <2>2, OverIsOK
    <2>6. FlowsOK' /\ OneHolder'
      BY <1>4, <1>6, <2>3, <2>4, <2>5, FlowsStay
    <2> QED BY <1>5, <2>1, <2>6 DEF WizardFlow
  <1>9. LastStep \in 1..LastStep
    BY DEF LastStep
  <1> QED BY <1>2, <1>7, <1>8, <1>9, BackendMoves

LEMMA CrashFlow ==
  ASSUME WizardFlow, BackendCrash
  PROVE  WizardFlow'
  <1>1. /\ UNCHANGED <<row, txs, answered, form, step, fee, calls, payments, chain, deposits>>
        /\ flow' \in [Flows -> FlowRecord]
        /\ \A f \in Flows : \/ flow'[f] = NoFlow
                            \/ flow'[f] = flow[f] /\ flow[f].call = NoRequest
        /\ ui' \in Pages
    BY CrashMoves
  <1>2. WizardTypeOK' /\ FormOK'
    BY <1>1 DEF WizardFlow, WizardTypeOK, FormOK
  <1>3. FlowsOK' /\ OneHolder'
    BY <1>1, OverIsOK, FlowsStay
  <1> QED BY <1>2, <1>3 DEF WizardFlow

LEMMA QuietFlow ==
  ASSUME WizardFlow, Filling \/ OutsideStep \/ UNCHANGED wizardVars
  PROVE  WizardFlow'
  <1>1. UNCHANGED <<row, request, flow>> /\ WizardTypeOK' /\ FormOK'
    <2>1. CASE Filling
      BY <2>1, FillingMoves DEF WizardFlow, WizardTypeOK
    <2>2. CASE OutsideStep
      BY <2>2, OutsideMoves DEF WizardFlow, WizardTypeOK, FormOK
    <2>3. CASE UNCHANGED wizardVars
      BY <2>3 DEF wizardVars, deploymentVars, formVars, flowVars, feeVars, chainVars,
                  WizardFlow, WizardTypeOK, FormOK
    <2> QED BY <2>1, <2>2, <2>3
  <1>2. FlowsOK' /\ OneHolder'
    BY <1>1 DEF WizardFlow, FlowsOK, FlowOK, OneHolder
  <1> QED BY <1>1, <1>2 DEF WizardFlow

LEMMA WizardFlowStep ==
  ASSUME DeploymentInv, WizardFlow, [WizardNext]_wizardVars
  PROVE  WizardFlow'
  BY WizardSteps, QuietFlow, LaunchFlow, CreationFlow, FundingFlow, BackendFlow, CrashFlow

(* A step of the wizard is a step of the backend, or leaves it alone.      *)
LEMMA WizardDeploymentStep ==
  ASSUME DeploymentInv, WizardFlow, [WizardNext]_wizardVars
  PROVE  [DeploymentNext]_deploymentVars
  <1>1. CASE UNCHANGED wizardVars
    BY <1>1 DEF wizardVars
  <1>2. CASE Filling
    BY <1>2, FillingMoves DEF deploymentVars
  <1>3. ASSUME NEW f \in Flows, DeployAndFund(f) \/ ChainAnswers(f)
        PROVE  UNCHANGED deploymentVars
    BY <1>3, LaunchMoves DEF deploymentVars
  <1>4. ASSUME NEW f \in Flows, PrepareAgreement(f) \/ ConfirmAgreement(f)
        PROVE  [DeploymentNext]_deploymentVars
    <2>1. flow[f].id \in Agreements
      BY <1>4, CreationMoves
    <2> QED BY <1>4, <2>1 DEF PrepareAgreement, ConfirmAgreement, DeploymentNext
  <1>5. ASSUME NEW f \in Flows, FundingStep(f)
        PROVE  UNCHANGED deploymentVars
    BY <1>5, FundingMoves DEF deploymentVars
  <1>6. ASSUME NEW r \in Requests, BackendStep(r)
        PROVE  DeploymentNext
    BY <1>6 DEF BackendStep, DeploymentNext
  <1>7. CASE OutsideStep
    BY <1>7, OutsideMoves DEF DeploymentNext, deploymentVars
  <1>8. CASE BackendCrash
    BY <1>8 DEF BackendCrash, DeploymentNext
  <1> QED BY <1>1, <1>2, <1>3, <1>4, <1>5, <1>6, <1>7, <1>8, WizardSteps

LEMMA WizardBase == WizardSpec => [](DeploymentInv /\ WizardFlow)
  <1>1. WizardInit => DeploymentInv /\ WizardFlow
    BY DeploymentInvInit, WizardFlowInit DEF WizardInit
  <1>2. DeploymentInv /\ WizardFlow /\ [WizardNext]_wizardVars
        => (DeploymentInv /\ WizardFlow)'
    BY WizardDeploymentStep, DeploymentInvStep, WizardFlowStep
  <1> QED BY <1>1, <1>2, PTL DEF WizardSpec

(* The wizard's state keeps its types: every flow's place, agreement,      *)
(* request and outcome, the form, the page, the payments and the deposits. *)
THEOREM WizardTypeCorrect == WizardSpec => []WizardTypeOK
  BY WizardBase, PTL DEF WizardFlow

(* With the wizard's flows as its clients the backend is still the one of  *)
(* AgreementDeployment: what is proved of that holds here.                 *)
THEOREM WizardImplementsDeployment == WizardSpec => DeploymentSpec
  <1>1. WizardInit => DeploymentInit
    BY DEF WizardInit
  <1>2. DeploymentInv /\ WizardFlow /\ [WizardNext]_wizardVars
        => [DeploymentNext]_deploymentVars
    BY WizardDeploymentStep
  <1> QED BY <1>1, <1>2, WizardBase, PTL DEF WizardSpec, DeploymentSpec

(***************************************************************************)
(* One confirmation, hence one escrow, for an agreement.                   *)
(***************************************************************************)
\* A step that starts no request keeps what is said of the requests, if it
\* un-creates no agreement and no flow is newly prepared.
LEMMA NoNewRequest ==
  ASSUME OneRequestEach, ConfirmedOnce,
         \A r \in Requests : request'[r].pc # "idle" =>
           request[r].pc # "idle" /\ request'[r].agreement = request[r].agreement,
         \A r \in Requests :
           request[r].pc # "idle" /\ row[request[r].agreement].status # "none" =>
             row'[request[r].agreement].status # "none",
         \A f \in Flows : flow'[f].pc = "prepared" => flow'[f] = flow[f]
  PROVE  (OneRequestEach /\ ConfirmedOnce)'
  BY DEF OneRequestEach, ConfirmedOnce

LEMMA ConfirmedOnceStep ==
  ASSUME DeploymentInv, WizardFlow, OneRequestEach, ConfirmedOnce,
         [WizardNext]_wizardVars
  PROVE  (OneRequestEach /\ ConfirmedOnce)'
  <1>1. ASSUME UNCHANGED <<row, request>>,
               \A f \in Flows : flow'[f].pc = "prepared" => flow'[f] = flow[f]
        PROVE  (OneRequestEach /\ ConfirmedOnce)'
    BY <1>1, NoNewRequest
  <1>2. ASSUME NEW f \in Flows, Moved(f), flow'[f].pc # "prepared"
        PROVE  \A g \in Flows : flow'[g].pc = "prepared" => flow'[g] = flow[g]
    BY <1>2 DEF Moved
  <1>3. CASE UNCHANGED wizardVars
    BY <1>1, <1>3 DEF wizardVars, deploymentVars, flowVars
  <1>4. CASE Filling \/ OutsideStep
    BY <1>1, <1>4, FillingMoves, OutsideMoves
  <1>5. ASSUME NEW f \in Flows, DeployAndFund(f) \/ ChainAnswers(f)
        PROVE  (OneRequestEach /\ ConfirmedOnce)'
    BY <1>1, <1>2, <1>5, LaunchMoves DEF NoFlow
  <1>6. ASSUME NEW f \in Flows, PrepareAgreement(f) \/ ConfirmAgreement(f)
        PROVE  (OneRequestEach /\ ConfirmedOnce)'
    <2> DEFINE a == flow[f].id
    <2>1. a \in Agreements /\ Moved(f) /\ (flow'[f] # NoFlow => flow'[f].id = a)
      BY <1>6, CreationMoves
    <2>2. CASE UNCHANGED <<row, request>> /\ flow'[f] = NoFlow
      BY <1>1, <1>2, <2>1, <2>2 DEF NoFlow
    <2>3. CASE Prepare(a)
      <3>1. /\ row[a].status = "none" /\ UNCHANGED request /\ row'[a].status # "none"
            /\ \A b : b # a => row'[b] = row[b]
        BY <2>1, <2>3 DEF Prepare, DeploymentInv, DeploymentTypeOK
      <3>2. \A r \in Requests : request[r].pc # "idle" => request[r].agreement # a
        BY <3>1 DEF ConfirmedOnce
      <3>3. flow'[f].pc = "prepared" => flow'[f].id = a
        BY <2>1 DEF NoFlow
      <3>4. \A g \in Flows \ {f} : flow'[g] = flow[g]
        BY <2>1 DEF Moved
      <3> QED BY <3>1, <3>2, <3>3, <3>4 DEF OneRequestEach, ConfirmedOnce
    <2>4. ASSUME NEW r \in Requests, flow[f].pc = "prepared", Confirm(r, a),
                 flow'[f].pc # "prepared"
          PROVE  (OneRequestEach /\ ConfirmedOnce)'
      <3>1. /\ UNCHANGED row
            /\ row[a].status # "none"
            /\ \A q \in Requests \ {r} : request'[q] = request[q]
            /\ request'[r].agreement = a
        BY <2>4 DEF Confirm, Admitted, DeploymentInv, DeploymentTypeOK
      <3>2. \A q \in Requests : request[q].pc # "idle" => request[q].agreement # a
        BY <2>4 DEF ConfirmedOnce
      <3>3. \A g \in Flows : flow'[g].pc = "prepared" =>
              flow'[g] = flow[g] /\ flow[g].id # a
        <4>1. "prepared" \in Holding
          BY DEF Holding
        <4> QED BY <1>2, <2>1, <2>4, <4>1 DEF WizardFlow, OneHolder
      <3> QED BY <3>1, <3>2, <3>3 DEF OneRequestEach, ConfirmedOnce
    <2>5. \/ UNCHANGED <<row, request>> /\ flow'[f] = NoFlow
          \/ Prepare(a)
          \/ flow[f].pc = "prepared" /\ \E r \in Requests :
               Confirm(r, a) /\ flow'[f].pc # "prepared"
      BY <1>6, CreationMoves DEF NoFlow
    <2> QED BY <2>2, <2>3, <2>4, <2>5
  <1>7. ASSUME NEW f \in Flows, FundingStep(f)
        PROVE  (OneRequestEach /\ ConfirmedOnce)'
    <2>1. UNCHANGED <<row, request>> /\ Moved(f) /\ flow'[f].pc # "prepared"
      BY <1>7, FundingMoves DEF NoFlow, Fundings
    <2> QED BY <1>1, <1>2, <2>1
  <1>8. ASSUME NEW r \in Requests, BackendStep(r)
        PROVE  (OneRequestEach /\ ConfirmedOnce)'
    <2>1. RequestStep(r)
      BY <1>8, BackendMoves
    <2>2. \A f \in Flows : flow'[f].pc = "prepared" => flow'[f] = flow[f]
      <3>1. \/ UNCHANGED flow
            \/ \E f \in Flows : Moved(f) /\ flow'[f].pc # "prepared"
        BY <1>8, BackendMoves DEF NoFlow
      <3> QED BY <1>2, <3>1
    <2>3. \A q \in Requests : request'[q].pc # "idle" =>
            request[q].pc # "idle" /\ request'[q].agreement = request[q].agreement
      BY <2>1, RequestStepEffect
    <2>4. \A q \in Requests : request[q].pc # "idle" => request[q].agreement \in Agreements
      BY DEF DeploymentInv, DeploymentTypeOK
    <2>5. \A a \in Agreements : row[a].status # "none" => row'[a].status # "none"
      BY <2>1, RowsStay
    <2> QED BY <2>2, <2>3, <2>4, <2>5, NoNewRequest
  <1>9. CASE BackendCrash
    <2>1. /\ UNCHANGED row
          /\ \A r \in Requests : request'[r].pc = "idle"
          /\ \A f \in Flows : flow'[f].pc = "prepared" => flow'[f] = flow[f]
      BY <1>9, CrashMoves DEF NoFlow
    <2> QED BY <2>1, NoNewRequest
  <1> QED BY <1>3, <1>4, <1>5, <1>6, <1>7, <1>8, <1>9, WizardSteps

LEMMA WizardConfirmsOnce == WizardSpec => [](OneRequestEach /\ ConfirmedOnce)
  <1>1. WizardInit => OneRequestEach /\ ConfirmedOnce
    BY DEF WizardInit, DeploymentInit, Idle, OneRequestEach, ConfirmedOnce
  <1> QED BY <1>1, WizardBase, ConfirmedOnceStep, PTL DEF WizardSpec

(* However often the user tries again, however many flows overlap and      *)
(* whatever is lost on the way, an agreement of the wizard has at most one *)
(* escrow, with any number of requests running in the backend.             *)
THEOREM OneEscrowFromWizard == WizardSpec => []OneEscrowPerAgreement
  BY WizardImplementsDeployment, WizardConfirmsOnce, OneEscrowWhenAlone, PTL

(***************************************************************************)
(* The steps of the form.                                                  *)
(***************************************************************************)
(* A step of the wizard keeps the form and the step shown, changes the     *)
(* form on one of the first five steps, goes to another step, or shows an  *)
(* agreement.                                                              *)
LEMMA FormMoves ==
  ASSUME DeploymentInv, WizardFlow, [WizardNext]_wizardVars
  PROVE  \/ UNCHANGED <<form, step>> /\ ui'.shown = ui.shown
         \/ step \in 1..5 /\ UNCHANGED step
         \/ (Continue \/ Back) /\ UNCHANGED ui
         \/ Close
         \/ UNCHANGED form /\ step' = LastStep /\ ui'.shown \in Agreements
  <1>1. CASE UNCHANGED wizardVars
    BY <1>1 DEF wizardVars, formVars, flowVars
  <1>2. CASE Filling
    <2>1. CASE \E content \in Contents :
                 \/ EditTerms(content) \/ EditDeliverables(content)
                 \/ EditRequirements(content) \/ EditCondition(content)
      BY <2>1 DEF EditTerms, EditDeliverables, EditRequirements, EditCondition, Edit
    <2>2. CASE (\E mode \in Modes : SelectMode(mode)) \/ (\E p \in Payloads : EditNonce(p))
      <3>1. step \in {2, 3} /\ UNCHANGED step
        BY <2>2, Zenon DEF SelectMode, EditNonce
      <3> QED BY <3>1
    <2>3. CASE Authorize \/ Pay
      BY <2>3 DEF Authorize, Pay, CallsHost, formVars, flowVars
    <2>4. CASE Continue \/ Back
      BY <2>4 DEF Continue, Back, flowVars
    <2> QED BY <1>2, <2>1, <2>2, <2>3, <2>4 DEF Filling
  <1>3. ASSUME NEW f \in Flows,
               \/ DeployAndFund(f) \/ ChainAnswers(f)
               \/ PrepareAgreement(f) \/ ConfirmAgreement(f) \/ FundingStep(f)
        PROVE  UNCHANGED <<form, step>> /\ ui'.shown = ui.shown
    BY <1>3, LaunchMoves, CreationMoves, FundingMoves
  <1>4. ASSUME NEW r \in Requests, BackendStep(r)
        PROVE  \/ UNCHANGED <<form, step>> /\ ui'.shown = ui.shown
               \/ UNCHANGED form /\ step' = LastStep /\ ui'.shown \in Agreements
    <2>1. ASSUME NEW f \in Flows, flow[f].call = r
          PROVE  flow[f].id \in Agreements
      BY <2>1, WizardAssumption DEF WizardFlow, FlowsOK, FlowOK
    <2> QED BY <1>4, <2>1, BackendMoves
  <1>5. CASE OutsideStep \/ BackendCrash
    BY <1>5, OutsideMoves, CrashMoves
  <1> QED BY <1>1, <1>2, <1>3, <1>4, <1>5, WizardSteps

(* Where Continue and Back go from a step of the wizard.                   *)
LEMMA StepMoves ==
  ASSUME WizardFlow
  PROVE  /\ Continue => /\ step' \in (step + 1)..LastStep
                        /\ step < 6 => step' <= 6
                        /\ step < 5 /\ form.mode # "work" => step' <= 5
         /\ Back => step' \in 1..(step - 1)
  <1>1. step \in 1..LastStep /\ form.mode \in Modes
    BY DEF WizardFlow, WizardTypeOK, Forms
  <1>2. ASSUME Continue
        PROVE  /\ step' \in (step + 1)..LastStep
               /\ step < 6 => step' <= 6
               /\ step < 5 /\ form.mode # "work" => step' <= 5
    <2>1. step \in 1..(LastStep - 1) /\ step' = NextStep(step, form.mode)
      BY <1>1, <1>2 DEF Continue, LastStep
    <2> QED BY <1>1, <2>1, NextStepOK
  <1>3. ASSUME Back
        PROVE  step' \in 1..(step - 1)
    <2>1. step \in 2..LastStep /\ step' = PreviousStep(step, form.mode)
      BY <1>1, <1>3 DEF Back, LastStep
    <2> QED BY <1>1, <2>1, PreviousStepOK
  <1> QED BY <1>2, <1>3

(* Whatever way the user takes through the steps, with the mode changed in *)
(* between, an agreement with an external condition is complete on the     *)
(* review and after it, until one is deployed.                             *)
THEOREM ReviewIsComplete == WizardSpec => []ReviewedTermsAreComplete
  <1>1. WizardInit => ReviewedTermsAreComplete
    BY DEF WizardInit, ReviewedTermsAreComplete
  <1>2. ASSUME DeploymentInv, WizardFlow, ReviewedTermsAreComplete, [WizardNext]_wizardVars
        PROVE  ReviewedTermsAreComplete'
    <2>1. UNCHANGED form => Preview' = Preview
      BY DEF Preview
    <2>2. step \in 1..LastStep
      BY <1>2 DEF WizardFlow, WizardTypeOK
    <2>3. CASE UNCHANGED <<form, step>> /\ ui'.shown = ui.shown
      BY <1>2, <2>1, <2>3 DEF ReviewedTermsAreComplete
    <2>4. CASE step \in 1..5 /\ UNCHANGED step
      BY <2>4 DEF ReviewedTermsAreComplete
    <2>5. CASE Continue /\ UNCHANGED ui
      <3>1. UNCHANGED form /\ (step = 5 => Preview)
        BY <2>5 DEF Continue
      <3>2. step' >= 6 /\ form.mode # "work" => step >= 5
        BY <1>2, <2>2, <2>5, StepMoves DEF LastStep
      <3> QED BY <1>2, <2>1, <2>2, <2>5, <3>1, <3>2 DEF ReviewedTermsAreComplete, LastStep
    <2>6. CASE Back /\ UNCHANGED ui
      <3>1. UNCHANGED form
        BY <2>6 DEF Back
      <3>2. step' >= 6 => step >= 6
        BY <1>2, <2>2, <2>6, StepMoves DEF LastStep
      <3> QED BY <1>2, <2>1, <2>6, <3>1, <3>2 DEF ReviewedTermsAreComplete
    <2>7. CASE Close
      BY <2>7 DEF Close, ReviewedTermsAreComplete
    <2>8. CASE ui'.shown \in Agreements
      BY <2>8, DeploymentAssumption DEF ReviewedTermsAreComplete
    <2> QED BY <1>2, <2>3, <2>4, <2>5, <2>6, <2>7, <2>8, FormMoves
  <1> QED BY <1>1, <1>2, WizardBase, PTL DEF WizardSpec

(***************************************************************************)
(* One deposit of an agreement, into its escrow.                           *)
(***************************************************************************)
\* What a step does to deposits and escrows.
LEMMA DepositMoves ==
  ASSUME DeploymentInv, WizardFlow, [WizardNext]_wizardVars
  PROVE  \/ \E f \in Flows : SignDeposit(f)
         \/ \E i \in DOMAIN deposits : MineDeposit(i)
         \/ \E i \in DOMAIN txs : OtherTab(i)
         \/ UNCHANGED <<deposits, chain>>
  <1>1. CASE UNCHANGED wizardVars
    BY <1>1 DEF wizardVars, chainVars
  <1>2. CASE Filling
    BY <1>2, FillingMoves
  <1>3. ASSUME NEW f \in Flows,
               \/ DeployAndFund(f) \/ ChainAnswers(f)
               \/ PrepareAgreement(f) \/ ConfirmAgreement(f) \/ FundingStep(f)
        PROVE  SignDeposit(f) \/ UNCHANGED <<deposits, chain>>
    BY <1>3, LaunchMoves, CreationMoves, FundingMoves
  <1>4. ASSUME NEW r \in Requests, BackendStep(r)
        PROVE  UNCHANGED <<deposits, chain>>
    BY <1>4, BackendMoves
  <1>5. CASE OutsideStep
    <2>1. ASSUME NEW i \in DOMAIN calls, HostAnswers(i)
          PROVE  UNCHANGED <<deposits, chain>>
      BY <2>1 DEF HostAnswers, AccountsAnswer, PaymentAnswer, CallFails, chainVars
    <2>2. ASSUME NEW i \in DOMAIN txs, BackendMines(i)
          PROVE  UNCHANGED <<deposits, chain>>
      BY <2>2 DEF BackendMines, chainVars
    <2> QED BY <1>5, <2>1, <2>2 DEF OutsideStep
  <1>6. CASE BackendCrash
    BY <1>6, CrashMoves
  <1> QED BY <1>1, <1>2, <1>3, <1>4, <1>5, <1>6, WizardSteps

\* While an agreement has one escrow, no row loses what it says of it.
LEMMA RowsKept ==
  ASSUME DeploymentInv, OneEscrowPerAgreement, WizardFlow, [WizardNext]_wizardVars,
         NEW a \in Agreements
  PROVE  /\ row[a].status # "none" => row'[a].status # "none"
         /\ row[a].escrowAddress # NoAddress =>
              row'[a].escrowAddress = row[a].escrowAddress
  <1>1. row \in [Agreements -> [status : Statuses,
                                escrowAddress : Addresses \cup {NoAddress}]]
    BY DEF DeploymentInv, DeploymentTypeOK
  <1>2. [DeploymentNext]_deploymentVars
    BY WizardDeploymentStep
  <1>3. CASE UNCHANGED row
    BY <1>3
  <1>4. ASSUME NEW b \in Agreements, Prepare(b)
        PROVE  /\ row[a].status # "none" => row'[a].status # "none"
               /\ row'[a].escrowAddress = row[a].escrowAddress
    BY <1>1, <1>4 DEF Prepare
  <1>5. ASSUME NEW r \in Requests, RequestStep(r)
        PROVE  /\ row[a].status # "none" => row'[a].status # "none"
               /\ row[a].escrowAddress # NoAddress =>
                    row'[a].escrowAddress = row[a].escrowAddress
    BY <1>5, RowsStay, AddressStays
  <1>6. ASSUME NEW b \in Agreements, NEW r \in Requests, Confirm(r, b)
        PROVE  UNCHANGED row
    BY <1>6 DEF Confirm
  <1>7. ASSUME NEW i \in DOMAIN txs, Mine(i)
        PROVE  UNCHANGED row
    BY <1>7 DEF Mine
  <1>8. CASE Crash
    BY <1>3, <1>8 DEF Crash
  <1>9. CASE UNCHANGED deploymentVars
    BY <1>3, <1>9 DEF deploymentVars
  <1> QED BY <1>2, <1>3, <1>4, <1>5, <1>6, <1>7, <1>8, <1>9 DEF DeploymentNext

\* No deposit is lost, and a mined one is mined.
NothingLost ==
  /\ DOMAIN deposits \subseteq DOMAIN deposits'
  /\ \A i \in DOMAIN deposits :
       /\ deposits'[i].agreement = deposits[i].agreement
       /\ deposits'[i].escrow = deposits[i].escrow
       /\ deposits[i].status = "mined" => deposits'[i].status = "mined"

DepositsKept == NothingLost /\ DOMAIN deposits' = DOMAIN deposits

LEMMA DepositIsMined ==
  ASSUME WizardFlow, DepositsOK, NEW i \in DOMAIN deposits, MineDeposit(i)
  PROVE  /\ DepositsKept
         /\ \A j \in DOMAIN deposits :
              deposits'[j].status = "mined" => chain'[deposits[j].escrow] = "AwaitingDelivery"
  <1>1. /\ deposits \in Seq(DepositRecord) /\ chain \in [Addresses -> ChainStates]
        /\ DOMAIN deposits = 1..Len(deposits)
    BY DEF WizardFlow, WizardTypeOK
  <1>2. \A j \in DOMAIN deposits : deposits[j] \in DepositRecord
    BY <1>1
  <1> DEFINE e == deposits[i].escrow
  <1>3. e \in Addresses /\ deposits[i].status = "pending"
    BY <1>2 DEF DepositsOK, MineDeposit, DepositRecord
  <1>4. PICK status \in {"mined", "reverted"} :
          /\ deposits' = [deposits EXCEPT ![i].status = status]
          /\ \/ status = "mined" /\ chain' = [chain EXCEPT ![e] = "AwaitingDelivery"]
             \/ status = "reverted" /\ UNCHANGED chain
    BY DEF MineDeposit
  <1>5. ASSUME NEW j \in DOMAIN deposits
        PROVE  /\ deposits'[j].agreement = deposits[j].agreement
               /\ deposits'[j].escrow = deposits[j].escrow
               /\ deposits'[j].status = IF j = i THEN status ELSE deposits[j].status
    BY <1>2, <1>4 DEF DepositRecord
  <1>6. DepositsKept
    BY <1>3, <1>4, <1>5 DEF DepositsKept, NothingLost
  <1>7. ASSUME NEW j \in DOMAIN deposits, deposits'[j].status = "mined"
        PROVE  chain'[deposits[j].escrow] = "AwaitingDelivery"
    <2>1. deposits[j].escrow \in Addresses
      BY <1>2 DEF DepositsOK, DepositRecord
    <2>2. CASE j = i
      BY <1>1, <1>3, <1>4, <1>5, <1>7, <2>2
    <2>3. CASE j # i
      BY <1>1, <1>4, <1>5, <1>7, <2>1, <2>3 DEF DepositsOK
    <2> QED BY <2>2, <2>3
  <1> QED BY <1>6, <1>7

LEMMA DepositIsSigned ==
  ASSUME DeploymentInv, WizardFlow, NEW f \in Flows, SignDeposit(f)
  PROVE  /\ UNCHANGED <<row, chain>> /\ flow[f].pc = "signing"
         /\ flow[f].id \in Agreements
         /\ Escrow(f) = row[flow[f].id].escrowAddress /\ Escrow(f) # NoAddress
         /\ row[flow[f].id].status # "none"
         /\ \/ UNCHANGED deposits /\ Funding(f, "USER_REJECTED")
            \/ /\ DOMAIN deposits' = (DOMAIN deposits) \cup {Len(deposits) + 1}
               /\ \A i \in DOMAIN deposits : deposits'[i] = deposits[i]
               /\ deposits'[Len(deposits) + 1] = [agreement |-> flow[f].id,
                                                 escrow |-> Escrow(f), status |-> "pending"]
               /\ \/ flow' = [flow EXCEPT ![f].pc = "waiting",
                                          ![f].sent = Len(deposits) + 1]
                  \/ Funding(f, "RPC_ERROR")
  <1>1. UNCHANGED <<row, chain>> /\ flow[f].pc = "signing"
    BY DEF SignDeposit, deploymentVars
  <1>2. /\ flow[f].id \in Agreements /\ Escrow(f) # NoAddress
        /\ row[flow[f].id].status # "none"
    BY <1>1 DEF WizardFlow, FlowsOK, FlowOK, Escrow, Holding, Fundings
  <1>3. deposits \in Seq(DepositRecord)
    BY DEF WizardFlow, WizardTypeOK
  <1> DEFINE new == [agreement |-> flow[f].id, escrow |-> Escrow(f), status |-> "pending"]
  <1>4. ASSUME deposits' = Append(deposits, new)
        PROVE  /\ DOMAIN deposits' = (DOMAIN deposits) \cup {Len(deposits) + 1}
               /\ \A i \in DOMAIN deposits : deposits'[i] = deposits[i]
               /\ deposits'[Len(deposits) + 1] = new
    <2> HIDE DEF new
    <2> QED BY <1>3, <1>4
  <1>5. Escrow(f) = row[flow[f].id].escrowAddress
    BY DEF Escrow
  <1> QED BY <1>1, <1>2, <1>4, <1>5 DEF SignDeposit

LEMMA DepositsStep ==
  ASSUME DeploymentInv, OneEscrowPerAgreement, WizardFlow, DepositInv,
         [WizardNext]_wizardVars
  PROVE  DepositsOK'
  <1>1. /\ deposits \in Seq(DepositRecord) /\ chain \in [Addresses -> ChainStates]
        /\ DepositsOK
    BY DEF WizardFlow, WizardTypeOK, DepositInv
  <1>2. \A i \in DOMAIN deposits :
          deposits[i].agreement \in Agreements /\ deposits[i].escrow \in Addresses
    <2>1. \A i \in DOMAIN deposits : deposits[i] \in DepositRecord
      BY <1>1
    <2> QED BY <1>1, <2>1 DEF DepositRecord, DepositsOK
  <1>3. ASSUME NEW i \in DOMAIN deposits
        PROVE  /\ deposits[i].escrow = row'[deposits[i].agreement].escrowAddress
               /\ row'[deposits[i].agreement].status # "none"
    BY <1>1, <1>2, RowsKept DEF DepositsOK
  <1>4. ASSUME DepositsKept,
               \A i \in DOMAIN deposits :
                 deposits'[i].status = "mined" =>
                   chain'[deposits[i].escrow] = "AwaitingDelivery"
        PROVE  DepositsOK'
    BY <1>1, <1>3, <1>4 DEF DepositsOK, DepositsKept, NothingLost
  <1>5. CASE \E i \in DOMAIN deposits : MineDeposit(i)
    BY <1>1, <1>4, <1>5, DepositIsMined
  <1>6. UNCHANGED deposits => DepositsKept
    BY DEF DepositsKept, NothingLost
  <1>7. CASE UNCHANGED <<deposits, chain>>
    BY <1>1, <1>4, <1>6, <1>7 DEF DepositsOK
  <1>8. ASSUME NEW i \in DOMAIN txs, OtherTab(i)
        PROVE  DepositsOK'
    <2>1. UNCHANGED deposits /\ \A e \in Addresses :
            chain[e] = "AwaitingDelivery" => chain'[e] = "AwaitingDelivery"
      BY <1>1, <1>8 DEF OtherTab
    <2> QED BY <1>1, <1>2, <1>4, <1>6, <2>1 DEF DepositsOK
  <1>9. ASSUME NEW f \in Flows, SignDeposit(f)
        PROVE  DepositsOK'
    <2>1. CASE UNCHANGED deposits
      BY <1>7, <1>9, <2>1, DepositIsSigned
    <2> DEFINE n == Len(deposits) + 1
    <2>2. CASE /\ DOMAIN deposits' = (DOMAIN deposits) \cup {n}
               /\ \A i \in DOMAIN deposits : deposits'[i] = deposits[i]
               /\ deposits'[n] = [agreement |-> flow[f].id, escrow |-> Escrow(f),
                                  status |-> "pending"]
      <3>1. /\ \A i \in DOMAIN deposits : deposits[i].agreement # flow[f].id
            /\ UNCHANGED <<row, chain>>
            /\ Escrow(f) = row[flow[f].id].escrowAddress /\ Escrow(f) # NoAddress
            /\ row[flow[f].id].status # "none"
        BY <1>9, DepositIsSigned DEF DepositInv, SignedOnce, Unsigned
      <3>2. /\ deposits'[n].agreement = flow[f].id /\ deposits'[n].escrow = Escrow(f)
            /\ deposits'[n].status = "pending"
        BY <2>2
      <3> HIDE DEF n
      <3> QED BY <1>1, <2>2, <3>1, <3>2 DEF DepositsOK
    <2> QED BY <1>9, <2>1, <2>2, DepositIsSigned
  <1> QED BY <1>5, <1>7, <1>8, <1>9, DepositMoves

\* A flow that goes on with the deposit it has, or is over.
LEMMA SignedGoesOn ==
  ASSUME NEW f \in Flows, SignedOnce(f), NothingLost,
         flow'[f].id = flow[f].id, flow'[f].sent = flow[f].sent,
         flow'[f].pc \in Unsigned =>
           \A i \in DOMAIN deposits' : deposits'[i].agreement # flow[f].id,
         flow'[f].pc = "waiting" => flow[f].pc = "waiting",
         flow'[f].pc = "reconciling" \/ flow'[f].tx = "COMPLETE" =>
           \/ flow[f].pc = "reconciling" \/ flow[f].tx = "COMPLETE"
           \/ OwnDeposit(f) /\ deposits[flow[f].sent].status = "mined"
  PROVE  SignedOnce(f)'
  <1>1. OwnDeposit(f) => OwnDeposit(f)'
    BY DEF OwnDeposit, NothingLost
  <1>2. OwnDeposit(f) /\ deposits[flow[f].sent].status = "mined" =>
          deposits'[flow'[f].sent].status = "mined"
    BY DEF OwnDeposit, NothingLost
  <1>3. flow'[f].pc = "waiting" => OwnDeposit(f)'
    BY <1>1 DEF SignedOnce
  <1>4. flow'[f].pc = "reconciling" \/ flow'[f].tx = "COMPLETE" =>
          OwnDeposit(f)' /\ deposits'[flow'[f].sent].status = "mined"
    BY <1>1, <1>2 DEF SignedOnce
  <1> QED BY <1>3, <1>4 DEF SignedOnce

LEMMA SignedStays ==
  ASSUME NEW f \in Flows, SignedOnce(f), DepositsKept,
         \/ flow'[f] = NoFlow
         \/ /\ flow'[f].id = flow[f].id /\ flow'[f].sent = flow[f].sent
            /\ flow'[f].pc \in Unsigned => flow[f].pc \in Unsigned
            /\ flow'[f].pc = "waiting" => flow[f].pc = "waiting"
            /\ flow'[f].pc = "reconciling" \/ flow'[f].tx = "COMPLETE" =>
                 \/ flow[f].pc = "reconciling" \/ flow[f].tx = "COMPLETE"
                 \/ OwnDeposit(f) /\ deposits[flow[f].sent].status = "mined"
  PROVE  SignedOnce(f)'
  <1>1. CASE flow'[f] = NoFlow
    BY <1>1 DEF SignedOnce, NoFlow, Unsigned
  <1>2. CASE flow'[f] # NoFlow
    <2>1. flow'[f].pc \in Unsigned =>
            \A i \in DOMAIN deposits' : deposits'[i].agreement # flow[f].id
      BY <1>2 DEF SignedOnce, DepositsKept, NothingLost
    <2> QED BY <1>2, <2>1, SignedGoesOn DEF DepositsKept
  <1> QED BY <1>1, <1>2

\* What deposits are there after a signature.
LEMMA SignedDeposits ==
  ASSUME DeploymentInv, WizardFlow, NEW f \in Flows, SignDeposit(f)
  PROVE  /\ NothingLost
         /\ \A i \in DOMAIN deposits' :
              \/ deposits'[i].agreement = flow[f].id
              \/ i \in DOMAIN deposits /\ deposits'[i] = deposits[i]
  <1> DEFINE n == Len(deposits) + 1
  <1>1. CASE UNCHANGED deposits
    BY <1>1 DEF NothingLost
  <1>2. CASE /\ DOMAIN deposits' = (DOMAIN deposits) \cup {n}
             /\ \A i \in DOMAIN deposits : deposits'[i] = deposits[i]
             /\ deposits'[n] = [agreement |-> flow[f].id, escrow |-> Escrow(f),
                                status |-> "pending"]
    <2>1. deposits'[n].agreement = flow[f].id
      BY <1>2
    <2> HIDE DEF n
    <2> QED BY <1>2, <2>1 DEF NothingLost
  <1> QED BY <1>1, <1>2, DepositIsSigned

\* The deposit that flow f signs is the first of its agreement.
LEMMA SignedBySign ==
  ASSUME DeploymentInv, WizardFlow, DepositInv, NEW f \in Flows, SignDeposit(f),
         NEW g \in Flows
  PROVE  SignedOnce(g)'
  <1> DEFINE n == Len(deposits) + 1
  <1>1. /\ flow \in [Flows -> FlowRecord] /\ SignedOnce(f) /\ SignedOnce(g)
    BY DEF WizardFlow, WizardTypeOK, DepositInv
  <1>2. /\ NothingLost
        /\ \A i \in DOMAIN deposits' :
             \/ deposits'[i].agreement = flow[f].id
             \/ i \in DOMAIN deposits /\ deposits'[i] = deposits[i]
    BY SignedDeposits
  <1>3. flow[f].pc = "signing" /\ flow[f].pc \in Holding
    BY DepositIsSigned DEF Holding, Fundings
  <1>4. CASE g # f
    <2>1. flow'[g] = flow[g]
      BY <1>1, <1>4, DepositIsSigned DEF Funding
    <2>2. flow[g].pc \in Unsigned => flow[g].id # flow[f].id
      BY <1>3, <1>4 DEF WizardFlow, OneHolder, Unsigned, Holding, Fundings
    <2>3. flow[g].pc \in Unsigned =>
            \A i \in DOMAIN deposits' : deposits'[i].agreement # flow[g].id
      BY <1>1, <1>2, <2>2 DEF SignedOnce
    <2> QED BY <1>1, <1>2, <2>1, <2>3, SignedGoesOn
  <1>5. ASSUME NEW tx \in {"USER_REJECTED", "RPC_ERROR"}, Funding(f, tx)
        PROVE  SignedOnce(f)'
    <2>1. /\ flow'[f].id = flow[f].id /\ flow'[f].sent = flow[f].sent
          /\ flow'[f].pc = "refreshing" /\ flow'[f].tx = tx
      BY <1>1, <1>5 DEF Funding, FlowRecord
    <2> QED BY <1>1, <1>2, <2>1, SignedGoesOn DEF Unsigned
  <1>6. ASSUME DOMAIN deposits' = (DOMAIN deposits) \cup {n},
               deposits'[n] = [agreement |-> flow[f].id, escrow |-> Escrow(f),
                               status |-> "pending"],
               flow' = [flow EXCEPT ![f].pc = "waiting", ![f].sent = n]
        PROVE  SignedOnce(f)'
    <2>1. deposits'[n].agreement = flow[f].id /\ n \in DOMAIN deposits'
      BY <1>6
    <2>2. /\ flow'[f].id = flow[f].id /\ flow'[f].sent = n
          /\ flow'[f].pc = "waiting" /\ flow'[f].tx = flow[f].tx
      BY <1>1, <1>6 DEF FlowRecord
    <2>3. flow[f].tx # "COMPLETE"
      BY <1>1, <1>3 DEF SignedOnce, OwnDeposit, Unsigned
    <2> HIDE DEF n
    <2> QED BY <2>1, <2>2, <2>3 DEF SignedOnce, OwnDeposit, Unsigned
  <1>7. SignedOnce(f)'
    BY <1>5, <1>6, DepositIsSigned
  <1> QED BY <1>4, <1>7

\* A flow that does not sign.
LEMMA SignedByFlow ==
  ASSUME DeploymentInv, WizardFlow, DepositInv, DepositsKept, NEW f \in Flows,
         \/ DeployAndFund(f) \/ ChainAnswers(f)
         \/ PrepareAgreement(f) \/ ConfirmAgreement(f)
         \/ CheckFunding(f) \/ DepositReceipt(f) \/ ReceiptFails(f)
         \/ Reconcile(f) \/ Refresh(f)
  PROVE  Moved(f) /\ SignedOnce(f)'
  <1>1. /\ flow \in [Flows -> FlowRecord] /\ SignedOnce(f) /\ DepositsOK
        /\ deposits \in Seq(DepositRecord)
    BY DEF WizardFlow, WizardTypeOK, DepositInv
  <1>2. Moved(f)
    BY LaunchMoves, CreationMoves, FundingMoves DEF FundingStep
  <1> SUFFICES SignedOnce(f)'
    BY <1>2
  <1>3. flow'[f] = NoFlow => SignedOnce(f)'
    BY <1>1, SignedStays
  <1>4. CASE DeployAndFund(f) \/ ChainAnswers(f)
    <2>1. \/ flow'[f] = NoFlow
          \/ /\ flow'[f].pc \in {"asking", "preparing"}
             /\ \/ flow'[f].tx = "none"
                \/ /\ flow'[f].id = flow[f].id /\ flow'[f].tx = flow[f].tx
                   /\ flow'[f].sent = flow[f].sent
      BY <1>4, LaunchMoves
    <2>2. flow'[f].pc \in {"asking", "preparing"} /\ flow'[f].tx = "none" => SignedOnce(f)'
      BY DEF SignedOnce, Unsigned
    <2> QED BY <1>1, <1>3, <2>1, <2>2, SignedStays DEF Unsigned
  <1>5. CASE PrepareAgreement(f) \/ ConfirmAgreement(f)
    <2>1. \/ flow'[f] = NoFlow
          \/ /\ flow'[f].id = flow[f].id /\ flow'[f].tx = flow[f].tx
             /\ flow'[f].sent = flow[f].sent
             /\ flow'[f].pc \in {"prepared", "confirming"}
             /\ flow[f].pc = "prepared" \/ row[flow[f].id].status = "none"
      BY <1>5, CreationMoves DEF Prepare
    <2>2. ASSUME row[flow[f].id].status = "none"
          PROVE  \A i \in DOMAIN deposits : deposits[i].agreement # flow[f].id
      BY <1>1, <2>2 DEF DepositsOK
    <2>3. CASE flow'[f] # NoFlow /\ flow[f].pc = "prepared"
      BY <1>1, <2>1, <2>3, SignedStays DEF Unsigned
    <2>4. CASE flow'[f] # NoFlow /\ row[flow[f].id].status = "none"
      BY <1>1, <2>1, <2>2, <2>4 DEF SignedOnce, OwnDeposit, DepositsKept, NothingLost, Unsigned
    <2> QED BY <1>3, <2>1, <2>3, <2>4
  <1>6. ASSUME NEW pc, FlowGoesTo(f, pc)
        PROVE  /\ flow'[f].id = flow[f].id /\ flow'[f].sent = flow[f].sent
               /\ flow'[f].pc = pc /\ flow'[f].tx = flow[f].tx
    BY <1>1, <1>6 DEF FlowGoesTo, FlowRecord
  <1>7. ASSUME NEW tx, Funding(f, tx)
        PROVE  /\ flow'[f].id = flow[f].id /\ flow'[f].sent = flow[f].sent
               /\ flow'[f].pc = "refreshing" /\ flow'[f].tx = tx
    BY <1>1, <1>7 DEF Funding, FlowRecord
  <1>8. CASE CheckFunding(f)
    <2>1. flow[f].pc = "details" /\ (FlowGoesTo(f, "signing") \/ Funding(f, "RPC_ERROR"))
      BY <1>8 DEF CheckFunding
    <2> QED BY <1>1, <1>6, <1>7, <2>1, SignedStays DEF Unsigned
  <1>9. CASE DepositReceipt(f)
    <2>1. /\ flow[f].pc = "waiting"
          /\ \/ deposits[flow[f].sent].status = "mined" /\ FlowGoesTo(f, "reconciling")
             \/ Funding(f, "TRANSACTION_REVERTED")
      BY <1>9 DEF DepositReceipt
    <2>2. OwnDeposit(f)
      BY <1>1, <2>1 DEF SignedOnce
    <2> QED BY <1>1, <1>6, <1>7, <2>1, <2>2, SignedStays DEF Unsigned
  <1>10. CASE ReceiptFails(f)
    <2>1. Funding(f, "RPC_ERROR")
      BY <1>10 DEF ReceiptFails
    <2> QED BY <1>1, <1>7, <2>1, SignedStays DEF Unsigned
  <1>11. CASE Reconcile(f)
    <2>1. /\ flow[f].pc = "reconciling"
          /\ \E tx : Funding(f, tx)
      BY <1>11 DEF Reconcile
    <2> QED BY <1>1, <1>7, <2>1, SignedStays DEF Unsigned
  <1>12. CASE Refresh(f)
    <2>1. flow'[f] = NoFlow
      BY <1>1, <1>12 DEF Refresh, FlowEndsWith
    <2> QED BY <1>3, <2>1
  <1> QED BY <1>4, <1>5, <1>8, <1>9, <1>10, <1>11, <1>12

LEMMA SignedStep ==
  ASSUME DeploymentInv, OneEscrowPerAgreement, WizardFlow, DepositInv,
         [WizardNext]_wizardVars, NEW g \in Flows
  PROVE  SignedOnce(g)'
  <1>1. SignedOnce(g) /\ DepositsOK /\ flow \in [Flows -> FlowRecord]
    BY DEF DepositInv, WizardFlow, WizardTypeOK
  <1>2. DepositsKept \/ \E f \in Flows : SignDeposit(f)
    <2>1. UNCHANGED deposits => DepositsKept
      BY DEF DepositsKept, NothingLost
    <2>2. ASSUME NEW i \in DOMAIN txs, OtherTab(i)
          PROVE  UNCHANGED deposits
      BY <2>2 DEF OtherTab
    <2> QED BY <1>1, <2>1, <2>2, DepositMoves, DepositIsMined
  <1>3. CASE \E f \in Flows : SignDeposit(f)
    BY <1>3, SignedBySign
  <1>4. DepositsKept /\ flow'[g] = flow[g] => SignedOnce(g)'
    BY <1>1, SignedStays
  <1>5. ASSUME DepositsKept, NEW f \in Flows,
               \/ DeployAndFund(f) \/ ChainAnswers(f)
               \/ PrepareAgreement(f) \/ ConfirmAgreement(f)
               \/ CheckFunding(f) \/ DepositReceipt(f) \/ ReceiptFails(f)
               \/ Reconcile(f) \/ Refresh(f)
        PROVE  SignedOnce(g)'
    BY <1>4, <1>5, SignedByFlow DEF Moved
  <1>6. ASSUME DepositsKept, NEW r \in Requests, BackendStep(r)
        PROVE  SignedOnce(g)'
    <2>1. CASE UNCHANGED flow
      BY <1>4, <1>6, <2>1
    <2>2. ASSUME NEW f \in Flows, flow[f].call = r, Moved(f),
                 \/ flow'[f] = NoFlow
                 \/ /\ flow'[f].pc = "details" /\ flow'[f].id = flow[f].id
                    /\ flow'[f].tx = flow[f].tx /\ flow'[f].sent = flow[f].sent
          PROVE  SignedOnce(g)'
      <3>1. flow[f].pc = "confirming"
        BY <2>2, WizardAssumption DEF WizardFlow, FlowsOK, FlowOK
      <3>2. CASE g = f
        BY <1>1, <1>6, <2>2, <3>1, <3>2, SignedStays DEF Unsigned
      <3>3. CASE g # f
        BY <1>4, <1>6, <2>2, <3>3 DEF Moved
      <3> QED BY <3>2, <3>3
    <2> QED BY <1>6, <2>1, <2>2, BackendMoves
  <1>7. ASSUME DepositsKept, Filling \/ OutsideStep \/ UNCHANGED wizardVars
        PROVE  SignedOnce(g)'
    BY <1>4, <1>7, FillingMoves, OutsideMoves DEF wizardVars, flowVars
  <1>8. ASSUME DepositsKept, BackendCrash
        PROVE  SignedOnce(g)'
    BY <1>1, <1>4, <1>8, CrashMoves, SignedStays
  <1> QED BY <1>2, <1>3, <1>5, <1>6, <1>7, <1>8, WizardSteps DEF FundingStep

\* What the page says of the funding is true.
LEMMA ResultStep ==
  ASSUME DeploymentInv, WizardFlow, DepositInv, [WizardNext]_wizardVars
  PROVE  (ui.result.funded => Funded(ui.result.id))'
  <1>1. /\ flow \in [Flows -> FlowRecord] /\ DepositsOK
        /\ \A f \in Flows : SignedOnce(f)
        /\ ui.result.funded => Funded(ui.result.id)
    BY DEF DepositInv, WizardFlow, WizardTypeOK
  <1>2. ASSUME NEW a, Funded(a)
        PROVE  Funded(a)'
    <2>1. NothingLost
      <3>1. UNCHANGED deposits => NothingLost
        BY DEF NothingLost
      <3>2. ASSUME NEW i \in DOMAIN txs, OtherTab(i)
            PROVE  UNCHANGED deposits
        BY <3>2 DEF OtherTab
      <3> QED BY <1>1, <3>1, <3>2, DepositMoves, DepositIsMined, SignedDeposits
                 DEF DepositsKept
    <2> QED BY <1>2, <2>1 DEF Funded, NothingLost
  <1>3. CASE ui'.result \in {ui.result, NoResult}
    BY <1>1, <1>2, <1>3 DEF NoResult
  <1>4. ASSUME NEW f \in Flows, Refresh(f)
        PROVE  (ui.result.funded => Funded(ui.result.id))'
    <2>1. PICK seen : FlowEndsWith(f, [id |-> flow[f].id, funded |-> IsFunded(f, seen)])
      BY <1>4 DEF Refresh
    <2> DEFINE result == [id |-> flow[f].id, funded |-> IsFunded(f, seen)]
    <2>2. flow[f].id \in Agreements
      BY <1>4, FundingMoves DEF FundingStep
    <2>3. result \in [id : Agreements \cup {NoAgreement}, funded : BOOLEAN]
      BY <2>2 DEF IsFunded
    <2>4. WizardTypeOK
      BY DEF WizardFlow
    <2>5. ui'.result \in {ui.result, result}
      <3> HIDE DEF result
      <3>1. FlowEndsWith(f, result)
        BY <2>1 DEF result
      <3> QED BY <2>3, <2>4, <3>1, EndMoves
    <2>6. result.funded => Funded(flow[f].id)
      <3>1. result.funded => flow[f].tx = "COMPLETE"
        BY DEF IsFunded
      <3>2. flow[f].tx = "COMPLETE" => OwnDeposit(f) /\ deposits[flow[f].sent].status = "mined"
        BY <1>1 DEF SignedOnce
      <3> QED BY <3>1, <3>2 DEF OwnDeposit, Funded
    <2>8. CASE ui'.result = ui.result
      BY <1>3, <2>8
    <2>9. CASE ui'.result = result
      <3>1. UNCHANGED deposits
        BY <1>4 DEF Refresh, chainVars
      <3>2. ui'.result.funded = result.funded /\ ui'.result.id = flow[f].id
        BY <2>9
      <3> QED BY <2>6, <3>1, <3>2 DEF Funded
    <2> QED BY <2>5, <2>8, <2>9
  <1>5. CASE UNCHANGED wizardVars
    BY <1>3, <1>5 DEF wizardVars, flowVars
  <1>6. ASSUME NEW f \in Flows,
               \/ DeployAndFund(f) \/ ChainAnswers(f)
               \/ PrepareAgreement(f) \/ ConfirmAgreement(f)
        PROVE  UNCHANGED ui.result
    BY <1>6, LaunchMoves, CreationMoves
  <1>7. ASSUME NEW f \in Flows, FundingStep(f), ~Refresh(f)
        PROVE  UNCHANGED ui
    BY <1>7 DEF FundingStep, CheckFunding, SignDeposit, DepositReceipt, ReceiptFails,
                Reconcile
  <1>8. CASE Filling
    BY <1>3, <1>8, FillingMoves
  <1>9. CASE OutsideStep \/ BackendCrash
    BY <1>3, <1>9, OutsideMoves, CrashMoves
  <1>10. ASSUME NEW r \in Requests, BackendStep(r)
         PROVE  UNCHANGED ui.result
    BY <1>10, BackendMoves
  <1> QED BY <1>3, <1>4, <1>5, <1>6, <1>7, <1>8, <1>9, <1>10, WizardSteps

LEMMA WizardDeposits ==
  WizardSpec => [](DeploymentInv /\ WizardFlow /\ OneEscrowPerAgreement /\ DepositInv)
  <1>1. ASSUME WizardInit
        PROVE  DepositInv
    <2>1. /\ deposits = <<>> /\ ui.result = NoResult /\ DOMAIN deposits = {}
          /\ \A f \in Flows : flow[f] = NoFlow
      BY <1>1 DEF WizardInit
    <2>2. DepositsOK
      BY <2>1 DEF DepositsOK
    <2>3. \A f \in Flows : SignedOnce(f)
      BY <2>1 DEF SignedOnce, NoFlow, Unsigned
    <2> QED BY <2>1, <2>2, <2>3 DEF DepositInv, NoResult
  <1>2. ASSUME DeploymentInv, WizardFlow, OneEscrowPerAgreement, DepositInv,
               [WizardNext]_wizardVars
        PROVE  DepositInv'
    BY <1>2, DepositsStep, SignedStep, ResultStep DEF DepositInv
  <1> QED BY <1>1, <1>2, WizardBase, OneEscrowFromWizard, PTL DEF WizardSpec

(* However flows overlap and whatever is tried again, the buyer is asked   *)
(* for one deposit at most for an agreement, into the escrow that the      *)
(* backend created for this agreement.                                     *)
THEOREM WizardDepositsOnce == WizardSpec => []OneDeposit
  <1>1. ASSUME DeploymentInv, WizardFlow, DepositInv
        PROVE  OneDeposit
    <2>1. DepositsOK /\ \A i \in DOMAIN deposits : deposits[i].agreement \in Agreements
      <3>1. \A i \in DOMAIN deposits : deposits[i] \in DepositRecord
        BY <1>1 DEF WizardFlow, WizardTypeOK
      <3> QED BY <1>1, <3>1 DEF DepositInv, DepositRecord
    <2> QED BY <1>1, <2>1 DEF DepositsOK, OneDeposit, DeploymentInv, AddressIsOwnEscrow
  <1> QED BY <1>1, WizardDeposits, PTL

(* When the wizard's result is that an agreement is funded, a deposit that *)
(* a flow sent for this agreement is mined and is in its escrow, whatever  *)
(* other flows and tabs do.                                                *)
THEOREM FundedIsTrue == WizardSpec => []FundedIsOnChain
  <1>1. ASSUME DeploymentInv, WizardFlow, DepositInv
        PROVE  FundedIsOnChain
    <2> SUFFICES ASSUME ui.result.funded
                 PROVE  \E i \in DOMAIN deposits :
                          /\ deposits[i].agreement = ui.result.id
                          /\ deposits[i].status = "mined"
                          /\ txs[deposits[i].escrow].agreement = ui.result.id
                          /\ chain[deposits[i].escrow] = "AwaitingDelivery"
      BY DEF FundedIsOnChain
    <2>1. PICK i \in DOMAIN deposits :
            deposits[i].agreement = ui.result.id /\ deposits[i].status = "mined"
      BY <1>1 DEF DepositInv, Funded
    <2>2. deposits[i].agreement \in Agreements
      <3>1. deposits[i] \in DepositRecord
        BY <1>1 DEF WizardFlow, WizardTypeOK
      <3> QED BY <3>1 DEF DepositRecord
    <2>3. /\ txs[deposits[i].escrow] = [agreement |-> deposits[i].agreement, status |-> "mined"]
          /\ chain[deposits[i].escrow] = "AwaitingDelivery"
      BY <1>1, <2>1, <2>2 DEF DepositInv, DepositsOK, DeploymentInv, AddressIsOwnEscrow
    <2>4. txs[deposits[i].escrow].agreement = ui.result.id
      BY <2>1, <2>3
    <2> QED BY <2>1, <2>3, <2>4
  <1> QED BY <1>1, WizardDeposits, PTL

(***************************************************************************)
(* A fee for each payload of an agreement.                                 *)
(***************************************************************************)
(* No payload is newly spent, and no payment is lost.                      *)
LEMMA FeeStays ==
  ASSUME WizardTypeOK, FeeOK, fee'.host = fee.host, Spent' \subseteq Spent,
         Len(payments') \in Nat, Len(payments') >= Len(payments)
  PROVE  FeeOK'
  <1> SUFFICES ASSUME fee.host
               PROVE  IsFiniteSet(Spent') /\ Cardinality(Spent') <= Len(payments')
    BY DEF FeeOK
  <1>1. IsFiniteSet(Spent) /\ Cardinality(Spent) <= Len(payments)
    BY DEF FeeOK
  <1>2. IsFiniteSet(Spent') /\ Cardinality(Spent') <= Cardinality(Spent)
    BY <1>1, FS_Subset
  <1>3. /\ Cardinality(Spent) \in Nat /\ Cardinality(Spent') \in Nat
        /\ Len(payments) \in Nat
    BY <1>1, <1>2, FS_CardinalityType DEF WizardTypeOK
  <1> QED BY <1>1, <1>2, <1>3

(* One payload is newly spent, with a payment.                             *)
LEMMA FeePaid ==
  ASSUME WizardTypeOK, FeeOK, fee'.host = fee.host, NEW p,
         Spent' \subseteq Spent \cup {p}, Len(payments') = Len(payments) + 1
  PROVE  FeeOK'
  <1> SUFFICES ASSUME fee.host
               PROVE  IsFiniteSet(Spent') /\ Cardinality(Spent') <= Len(payments')
    BY DEF FeeOK
  <1> DEFINE more == Spent \cup {p}
  <1>1. IsFiniteSet(Spent) /\ Cardinality(Spent) <= Len(payments)
    BY DEF FeeOK
  <1>2. IsFiniteSet(more) /\ Cardinality(more) \in {Cardinality(Spent), Cardinality(Spent) + 1}
    BY <1>1, FS_AddElement
  <1>3. IsFiniteSet(Spent') /\ Cardinality(Spent') <= Cardinality(more)
    BY <1>2, FS_Subset
  <1>4. /\ Cardinality(Spent) \in Nat /\ Cardinality(more) \in Nat
        /\ Cardinality(Spent') \in Nat /\ Len(payments) \in Nat
    BY <1>1, <1>2, <1>3, FS_CardinalityType DEF WizardTypeOK
  <1> QED BY <1>1, <1>2, <1>3, <1>4

\* The parts of what is spent, as far as a step leaves them alone.
LEMMA CreatedStays ==
  ASSUME \A a \in Agreements : row[a].status = "none" => row'[a].status = "none"
  PROVE  Created' \subseteq Created
  BY DEF Created

LEMMA LaunchedStays ==
  ASSUME \A f \in Flows :
           flow'[f].pc # "idle" => flow[f].pc # "idle" /\ flow'[f].id = flow[f].id
  PROVE  Launched' \subseteq Launched
  BY DEF Launched

LEMMA EarnedStays ==
  ASSUME form'.payload = form.payload, Paid' => Paid, Launching' => Launching
  PROVE  Earned' \subseteq Earned
  BY DEF Earned

\* The steps of a flow.
LEMMA FlowSpends ==
  ASSUME DeploymentInv, WizardFlow, NEW f \in Flows,
         \/ DeployAndFund(f) \/ ChainAnswers(f)
         \/ PrepareAgreement(f) \/ ConfirmAgreement(f) \/ FundingStep(f)
  PROVE  UNCHANGED <<fee, payments>> /\ Spent' \subseteq Spent
  <1>1. /\ UNCHANGED <<form, step, fee, payments>> /\ ui'.shown = ui.shown
        /\ Moved(f)
    BY LaunchMoves, CreationMoves, FundingMoves
  <1>2. Earned' \subseteq Earned
    BY <1>1, EarnedStays DEF Paid, Launching
  <1>3. flow \in [Flows -> FlowRecord] /\ FlowOK(f) /\ FormOK
    BY DEF WizardFlow, WizardTypeOK, FlowsOK
  <1>4. ASSUME flow'[f].pc # "idle" => flow[f].pc # "idle" /\ flow'[f].id = flow[f].id
        PROVE  Launched' \subseteq Launched
    BY <1>1, <1>4, LaunchedStays DEF Moved
  <1>5. CASE DeployAndFund(f) \/ ChainAnswers(f)
    <2>1. Created' \subseteq Created
      BY <1>5, LaunchMoves, CreatedStays
    <2>2. Launched' \subseteq Launched \cup Earned
      <3>1. CASE flow'[f] = NoFlow \/ (flow'[f].id = flow[f].id /\ flow[f].pc # "idle")
        BY <1>4, <3>1 DEF NoFlow
      <3>2. CASE flow'[f] # NoFlow /\ Launching /\ flow'[f].id = form.id
        <4>1. form.id # NoAgreement
          BY <1>5, <3>2, LaunchMoves, DeploymentAssumption
        <4>2. payloadOf[flow'[f].id] \in Earned
          BY <1>3, <3>2, <4>1 DEF FormOK, Earned
        <4> QED BY <1>1, <4>2 DEF Launched, Moved
      <3> QED BY <1>5, <3>1, <3>2, LaunchMoves
    <2> QED BY <1>1, <1>2, <2>1, <2>2 DEF Spent
  <1>6. CASE PrepareAgreement(f) \/ ConfirmAgreement(f)
    <2>1. /\ flow[f].id \in Agreements /\ flow[f].pc # "idle"
          /\ UNCHANGED row \/ Prepare(flow[f].id)
          /\ flow'[f].pc # "idle" => flow'[f].id = flow[f].id
      BY <1>6, CreationMoves DEF NoFlow, Confirm
    <2>2. Created' \subseteq Created \cup {payloadOf[flow[f].id]}
      <3>1. \A a \in Agreements \ {flow[f].id} : row'[a] = row[a]
        BY <2>1 DEF Prepare, DeploymentInv, DeploymentTypeOK
      <3> QED BY <3>1 DEF Created
    <2>3. payloadOf[flow[f].id] \in Launched
      BY <2>1 DEF Launched
    <2>4. Launched' \subseteq Launched
      BY <1>4, <2>1
    <2> QED BY <1>1, <1>2, <2>2, <2>3, <2>4 DEF Spent
  <1>7. CASE FundingStep(f)
    <2>1. /\ UNCHANGED row /\ flow[f].pc # "idle"
          /\ flow'[f].pc # "idle" => flow'[f].id = flow[f].id
      BY <1>7, FundingMoves DEF NoFlow, Fundings
    <2>2. Created' \subseteq Created /\ Launched' \subseteq Launched
      BY <1>4, <2>1, CreatedStays
    <2> QED BY <1>1, <1>2, <2>2 DEF Spent
  <1> QED BY <1>5, <1>6, <1>7

\* The steps of the form.
LEMMA FillingSpends ==
  ASSUME WizardFlow, fee.host, Filling
  PROVE  UNCHANGED payments /\ Spent' \subseteq Spent
  <1>1. UNCHANGED <<row, flow, payments>> /\ step \in 1..LastStep /\ fee \in Fees
    BY FillingMoves DEF WizardFlow, WizardTypeOK
  <1>2. Created' \subseteq Created /\ Launched' \subseteq Launched
    BY <1>1, CreatedStays, LaunchedStays
  <1> SUFFICES Earned' \subseteq Earned
    BY <1>1, <1>2 DEF Spent
  <1>3. ASSUME NEW content \in Contents,
               \/ EditTerms(content) \/ EditDeliverables(content)
               \/ EditRequirements(content) \/ EditCondition(content)
        PROVE  Earned' \subseteq Earned
    <2>1. PICK p \in Parts : Edit(p, content)
      BY <1>3 DEF EditTerms, EditDeliverables, EditRequirements, EditCondition, Parts
    <2>2. UNCHANGED <<step, ui, fee>> /\ Changes([form EXCEPT !.part[p] = content])
      BY <2>1 DEF Edit, flowVars, feeVars
    <2>3. [form EXCEPT !.part[p] = content] \in Forms
          /\ [form EXCEPT !.part[p] = content].payload = form.payload
      BY DEF Forms, WizardFlow, WizardTypeOK
    <2>4. form'.payload = form.payload
      BY <2>2, <2>3, ChangesOK
    <2> QED BY <2>2, <2>4, EarnedStays DEF Paid, Launching
  <1>4. ASSUME NEW mode \in Modes, SelectMode(mode)
        PROVE  Earned' \subseteq Earned
    <2> DEFINE new == [form EXCEPT !.mode = mode,
                         !.part["work"] = IF mode = "external" THEN "missing" ELSE @]
    <2>1. UNCHANGED <<step, ui, fee>> /\ Changes(new)
      BY <1>4 DEF SelectMode, flowVars, feeVars
    <2>2. new \in Forms /\ new.payload = form.payload
      BY DEF Forms, Contents, Parts, WizardFlow, WizardTypeOK
    <2>3. form'.payload = form.payload
      BY <2>1, <2>2, ChangesOK
    <2> QED BY <2>1, <2>3, EarnedStays DEF Paid, Launching
  <1>5. ASSUME NEW p \in Payloads, EditNonce(p)
        PROVE  Earned' \subseteq Earned
    <2>1. fee' = [fee EXCEPT !.stage = "idle"] /\ step = 2 /\ step' = 2
      BY <1>5 DEF EditNonce
    <2>2. ~Paid' /\ ~Launching'
      BY <1>1, <2>1 DEF Paid, Launching, LastStep, Fees
    <2> QED BY <2>2 DEF Earned
  <1>6. CASE Continue
    <2>1. UNCHANGED <<form, fee, ui>> /\ (step = 6 => Paid)
      BY <1>6 DEF Continue, BlocksContinue, feeVars, flowVars
    <2>2. step' = LastStep => step = 6
      BY <1>1, <1>6, StepMoves DEF LastStep
    <2> QED BY <2>1, <2>2 DEF Earned, Launching, Paid
  <1>7. CASE Back
    <2>1. UNCHANGED <<form, fee>>
      BY <1>7 DEF Back, feeVars
    <2>2. step' # LastStep
      BY <1>1, <1>7, StepMoves DEF LastStep
    <2> QED BY <2>1, <2>2 DEF Earned, Launching, Paid
  <1>8. CASE Close
    <2>1. fee'.stage = "idle" /\ step' = 1
      BY <1>1, <1>8 DEF Close, Fees
    <2> QED BY <2>1 DEF Earned, Launching, Paid, LastStep
  <1>9. CASE Authorize \/ Pay
    <2>1. fee'.stage = "pending" /\ step = 6 /\ UNCHANGED step
      BY <1>1, <1>9 DEF Authorize, Pay, CallsHost, Fees, formVars
    <2> QED BY <2>1 DEF Earned, Launching, Paid, LastStep
  <1> QED BY <1>3, <1>4, <1>5, <1>6, <1>7, <1>8, <1>9 DEF Filling

LEMMA FeeStep ==
  ASSUME DeploymentInv, WizardFlow, ConfirmedOnce, FeeOK, [WizardNext]_wizardVars
  PROVE  FeeOK'
  <1>1. /\ WizardTypeOK /\ flow \in [Flows -> FlowRecord] /\ fee \in Fees
        /\ payments \in Seq(Payloads) /\ calls \in Seq(Calls)
    BY DEF WizardFlow, WizardTypeOK
  <1>2. ASSUME fee'.host = fee.host, fee.host => Spent' \subseteq Spent, UNCHANGED payments
        PROVE  FeeOK'
    <2>1. Len(payments') \in Nat /\ Len(payments') >= Len(payments)
      BY <1>1, <1>2
    <2>2. CASE fee.host
      BY <1>1, <1>2, <2>1, <2>2, FeeStays
    <2>3. CASE ~fee.host
      BY <1>2, <2>3 DEF FeeOK
    <2> QED BY <2>2, <2>3
  <1>3. UNCHANGED <<row, flow>> => Created' \subseteq Created /\ Launched' \subseteq Launched
    BY CreatedStays, LaunchedStays
  <1>4. ASSUME UNCHANGED <<row, flow, form, step, fee, ui, payments>>
        PROVE  FeeOK'
    <2>1. Earned' \subseteq Earned
      BY <1>4, EarnedStays DEF Paid, Launching
    <2> QED BY <1>2, <1>3, <1>4, <2>1 DEF Spent
  <1>5. CASE UNCHANGED wizardVars
    BY <1>4, <1>5 DEF wizardVars, deploymentVars, formVars, flowVars, feeVars
  <1>6. CASE Filling
    BY <1>2, <1>6, FillingMoves, FillingSpends
  <1>7. ASSUME NEW f \in Flows,
               \/ DeployAndFund(f) \/ ChainAnswers(f)
               \/ PrepareAgreement(f) \/ ConfirmAgreement(f) \/ FundingStep(f)
        PROVE  FeeOK'
    BY <1>2, <1>7, FlowSpends
  <1>8. ASSUME NEW r \in Requests, BackendStep(r)
        PROVE  FeeOK'
    <2>1. RequestStep(r) /\ UNCHANGED <<form, fee, payments>>
      BY <1>8, BackendMoves
    <2>2. request[r].agreement \in Agreements /\ row[request[r].agreement].status # "none"
      BY <2>1, RequestStepEffect DEF ConfirmedOnce, DeploymentInv, DeploymentTypeOK
    <2>3. Created' \subseteq Created
      BY <2>1, <2>2, RequestStepEffect, CreatedStays
    <2>4. /\ Launched' \subseteq Launched
          /\ Launching' => Launching
      <3>1. CASE UNCHANGED <<flow, ui, step>>
        BY <3>1, LaunchedStays DEF Launching
      <3>2. ASSUME NEW f \in Flows, flow[f].call = r, Moved(f),
                   flow'[f] # NoFlow => flow'[f].id = flow[f].id,
                   \/ ui'.shown = ui.shown /\ step' = step
                   \/ ui'.shown = flow[f].id
            PROVE  Launched' \subseteq Launched /\ (Launching' => Launching)
        <4>1. flow[f].pc = "confirming" /\ flow[f].id \in Agreements
          BY <3>2, WizardAssumption DEF WizardFlow, FlowsOK, FlowOK
        <4>2. \A g \in Flows : flow'[g].pc # "idle" =>
                flow[g].pc # "idle" /\ flow'[g].id = flow[g].id
          BY <3>2, <4>1 DEF Moved, NoFlow
        <4>3. Launching' => Launching
          BY <3>2, <4>1, DeploymentAssumption DEF Launching
        <4> QED BY <4>2, <4>3, LaunchedStays
      <3> QED BY <1>8, <3>1, <3>2, BackendMoves
    <2>5. Earned' \subseteq Earned
      BY <2>1, <2>4, EarnedStays DEF Paid
    <2> QED BY <1>2, <2>1, <2>3, <2>4, <2>5 DEF Spent
  <1>9. ASSUME NEW i \in DOMAIN calls, HostAnswers(i)
        PROVE  FeeOK'
    <2>1. UNCHANGED <<row, flow, form, step, ui>> /\ fee'.host = fee.host
      BY <1>9, OutsideMoves DEF OutsideStep
    <2>2. Launching' = Launching
      BY <2>1 DEF Launching
    <2>3. CASE PaymentAnswer(i)
      <3>1. payments' = Append(payments, calls[i].payload) /\ calls[i] \in Calls
        BY <1>1, <2>3 DEF PaymentAnswer
      <3>2. Len(payments') = Len(payments) + 1
        BY <1>1, <3>1
      <3>3. Spent' \subseteq Spent \cup {form.payload}
        BY <1>3, <2>1 DEF Spent, Earned
      <3> QED BY <1>1, <2>1, <3>2, <3>3, FeePaid
    <2>4. CASE AccountsAnswer(i) \/ CallFails(i)
      <3>1. /\ fee'.stage # "success"
            /\ UNCHANGED payments \/ payments' = Append(payments, calls[i].payload)
        BY <1>1, <2>4 DEF AccountsAnswer, CallFails, Fees
      <3>2. Len(payments') \in Nat /\ Len(payments') >= Len(payments)
        BY <1>1, <3>1
      <3>3. Earned' \subseteq Earned
        BY <2>1, <2>2, <3>1, EarnedStays DEF Paid
      <3>4. Spent' \subseteq Spent
        BY <1>3, <2>1, <3>3 DEF Spent
      <3> QED BY <1>1, <2>1, <3>2, <3>4, FeeStays
    <2> QED BY <1>9, <2>3, <2>4 DEF HostAnswers
  <1>10. ASSUME NEW i \in DOMAIN deposits, MineDeposit(i)
         PROVE  FeeOK'
    BY <1>4, <1>10 DEF MineDeposit, deploymentVars, formVars, flowVars, feeVars
  <1>11. ASSUME NEW i \in DOMAIN txs, BackendMines(i) \/ OtherTab(i)
         PROVE  FeeOK'
    BY <1>4, <1>11 DEF BackendMines, Mine, OtherTab, deploymentVars, formVars, flowVars, feeVars
  <1>12. CASE BackendCrash
    <2>1. /\ UNCHANGED <<row, form, step, fee, payments>> /\ ui'.shown = ui.shown
          /\ \A f \in Flows : flow'[f] = NoFlow \/ flow'[f] = flow[f]
      BY <1>12, CrashMoves
    <2>2. Created' \subseteq Created /\ Launched' \subseteq Launched
      BY <2>1, CreatedStays, LaunchedStays DEF NoFlow
    <2>3. Earned' \subseteq Earned
      BY <2>1, EarnedStays DEF Paid, Launching
    <2> QED BY <1>2, <2>1, <2>2, <2>3 DEF Spent
  <1> QED
    BY <1>5, <1>6, <1>7, <1>8, <1>9, <1>10, <1>11, <1>12, WizardSteps DEF OutsideStep

(* Inside the host there are as many payments as payloads that agreements  *)
(* were created with, whatever became of the host's answers and however    *)
(* flows and changes of the form overlap.                                  *)
THEOREM AgreementsArePaidFor == WizardSpec => []FeePerPayload
  <1>1. ASSUME WizardInit
        PROVE  FeeOK
    <2>1. Created = {}
      <3>1. \A a \in Agreements : row[a].status = "none"
        BY <1>1 DEF WizardInit, DeploymentInit
      <3> QED BY <3>1 DEF Created
    <2>2. Launched = {}
      <3>1. \A f \in Flows : flow[f].pc = "idle"
        BY <1>1 DEF WizardInit, NoFlow
      <3> QED BY <3>1 DEF Launched
    <2>3. Earned = {}
      <3>1. fee.stage = "idle" /\ step = 1
        BY <1>1 DEF WizardInit
      <3> QED BY <3>1 DEF Earned, Paid, Launching, LastStep
    <2>4. Spent = {}
      BY <2>1, <2>2, <2>3 DEF Spent
    <2>5. IsFiniteSet(Spent) /\ Cardinality(Spent) = 0
      BY <2>4, FS_EmptySet, Zenon
    <2>6. Len(payments) = 0
      BY <1>1 DEF WizardInit
    <2> QED BY <2>5, <2>6 DEF FeeOK
  <1>2. ASSUME WizardFlow, FeeOK
        PROVE  FeePerPayload
    <2> SUFFICES ASSUME fee.host
                 PROVE  Cardinality(Created) <= Len(payments)
      BY DEF FeePerPayload, Created
    <2>1. IsFiniteSet(Spent) /\ Cardinality(Spent) <= Len(payments)
      BY <1>2 DEF FeeOK
    <2>2. Created \subseteq Spent
      BY DEF Spent
    <2>3. IsFiniteSet(Created) /\ Cardinality(Created) <= Cardinality(Spent)
      BY <2>1, <2>2, FS_Subset
    <2>4. /\ Cardinality(Created) \in Nat /\ Cardinality(Spent) \in Nat
          /\ Len(payments) \in Nat
      BY <1>2, <2>1, <2>3, FS_CardinalityType DEF WizardFlow, WizardTypeOK
    <2> QED BY <1>2, <2>1, <2>3, <2>4
  <1> QED
    BY <1>1, <1>2, WizardBase, WizardConfirmsOnce, FeeStep, PTL DEF WizardSpec
=============================================================================
