------------------------ MODULE AgreementDeployment ------------------------
(***************************************************************************)
(* Creation of agreements and deployment of their escrows                  *)
(* (backend/src/agreements/agreement-service.ts, escrow-deployer.ts and    *)
(* the agreements table of agreement-repository.ts).                       *)
(*                                                                         *)
(* A request runs up to its next await in one step; between two steps      *)
(* other requests, the chain and faults act.  The i-th deployment          *)
(* transaction ever sent creates the escrow with address i.                *)
(***************************************************************************)
EXTENDS Integers, Sequences, FiniteSets

CONSTANTS
  Agreements,   \* agreement ids
  NoAgreement,  \* none of them
  Requests,     \* confirmation requests that can be running at the same time
  MaxTxs,       \* bound: deployment transactions ever sent
  Faults        \* which of the faults below can happen

ASSUME DeploymentAssumption ==
  /\ NoAgreement \notin Agreements
  /\ MaxTxs \in Nat
  /\ Faults \subseteq {"db", "rpc", "crash"}

NoAddress == 0
Addresses == 1..MaxTxs

VARIABLES
  row,       \* the agreements table: status and escrow address of each id
  request,   \* the requests: where each is, for which agreement, with which tx
  txs,       \* deployment transactions, in the order they were sent
  answered   \* statuses that confirmation requests have reported, per agreement

deploymentVars == <<row, request, txs, answered>>

Statuses == {"none", "AWAITING_CONFIRMATION", "DEPLOYING", "DEPLOYED", "FAILED"}

Steps == {"idle", "marking", "deploying", "waiting", "reading", "saving",
          "failing", "answering"}

Fault(f) == f \in Faults

Idle == [pc |-> "idle", agreement |-> NoAgreement, tx |-> NoAddress]

Admitted(a) == [pc |-> "marking", agreement |-> a, tx |-> NoAddress]

DeploymentInit ==
  /\ row = [a \in Agreements |-> [status |-> "none", escrowAddress |-> NoAddress]]
  /\ request = [r \in Requests |-> Idle]
  /\ txs = <<>>
  /\ answered = [a \in Agreements |-> {}]

Goto(r, step) == request' = [request EXCEPT ![r].pc = step]

\* The request ends; its error answer (HTTP 400) tells nothing of the agreement.
Ends(r) == request' = [request EXCEPT ![r] = Idle]

At(r, step) == request[r].pc = step

\* updateDeploymentStatus: whatever the row's status is; COALESCE keeps the
\* recorded address when the update brings none.
UpdateDeploymentStatus(a, status, address) ==
  row' = [row EXCEPT ![a].status = status,
                     ![a].escrowAddress =
                        IF address = NoAddress THEN @ ELSE address]

\* The update of request r on behalf of its agreement: it is applied, and the
\* request goes on to `next', or it fails, with or without having been applied.
Save(r, status, address, next, onFailure) ==
  \/ /\ UpdateDeploymentStatus(request[r].agreement, status, address)
     /\ next
  \/ /\ Fault("db")
     /\ \/ UpdateDeploymentStatus(request[r].agreement, status, address)
        \/ UNCHANGED row
     /\ onFailure

(***************************************************************************)
(* prepare: the id is derived from the agreement's commitment and is the   *)
(* primary key of the table, so a second creation fails.                   *)
(***************************************************************************)
\* Mutant: a second creation replaces the row's status.
PrepareAgain(a) ==
  /\ row' = [row EXCEPT ![a].status = "AWAITING_CONFIRMATION"]
  /\ UNCHANGED <<request, txs, answered>>

Prepare(a) ==
  /\ row[a].status = "none"
  /\ row' = [row EXCEPT ![a].status = "AWAITING_CONFIRMATION"]
  /\ UNCHANGED <<request, txs, answered>>

(***************************************************************************)
(* confirmAndDeploy.                                                       *)
(***************************************************************************)
\* The row is read; any other status rejects the request.
Confirm(r, a) ==
  /\ At(r, "idle")
  /\ row[a].status = "AWAITING_CONFIRMATION"
  /\ request' = [request EXCEPT ![r] = Admitted(a)]
  /\ UNCHANGED <<row, txs, answered>>

\* The status becomes DEPLOYING; a failure here is outside the try block.
MarkDeploying(r) ==
  /\ At(r, "marking")
  /\ Save(r, "DEPLOYING", NoAddress, Goto(r, "deploying"), Ends(r))
  /\ UNCHANGED <<txs, answered>>

\* factory.deploy: the transaction is sent, or not, or it is sent and the
\* answer of the node is lost.
SendDeployment(r) ==
  /\ At(r, "deploying")
  /\ Len(txs) < MaxTxs
  /\ LET sent == Append(txs, [agreement |-> request[r].agreement,
                              status |-> "pending"])
     IN \/ /\ txs' = sent
           /\ request' = [request EXCEPT ![r].pc = "waiting", ![r].tx = Len(sent)]
        \/ /\ Fault("rpc")
           /\ txs' \in {txs, sent}
           /\ Goto(r, "failing")
  /\ UNCHANGED <<row, answered>>

\* The chain executes a transaction; the deployment may run out of gas.
Mine(i) ==
  /\ txs[i].status = "pending"
  /\ \E status \in {"mined", "reverted"} :
       txs' = [txs EXCEPT ![i].status = status]
  /\ UNCHANGED <<row, request, answered>>

\* Mutant: the transaction hash alone counts as a deployment.
WaitForReceiptUnchecked(r) ==
  /\ At(r, "waiting")
  /\ Goto(r, "reading")
  /\ UNCHANGED <<row, txs, answered>>

\* transaction.wait(): a receipt with status 1 lets the deployment go on.
WaitForReceipt(r) ==
  /\ At(r, "waiting")
  /\ \/ txs[request[r].tx].status = "mined" /\ Goto(r, "reading")
     \/ txs[request[r].tx].status = "reverted" /\ Goto(r, "failing")
     \/ Fault("rpc") /\ Goto(r, "failing")
  /\ UNCHANGED <<row, txs, answered>>

\* The immutables are read back.  They are the constructor arguments, so only
\* a failing read makes a difference.
ReadImmutables(r) ==
  /\ At(r, "reading")
  /\ \/ Goto(r, "saving")
     \/ Fault("rpc") /\ Goto(r, "failing")
  /\ UNCHANGED <<row, txs, answered>>

SaveDeployed(r) ==
  /\ At(r, "saving")
  /\ Save(r, "DEPLOYED", request[r].tx, Goto(r, "answering"), Goto(r, "failing"))
  /\ UNCHANGED <<txs, answered>>

\* Mutant: errors of the deployment are not caught.
SaveFailedUncaught(r) ==
  /\ At(r, "failing")
  /\ Ends(r)
  /\ UNCHANGED <<row, txs, answered>>

\* The catch block.
SaveFailed(r) ==
  /\ At(r, "failing")
  /\ Save(r, "FAILED", NoAddress, Goto(r, "answering"), Ends(r))
  /\ UNCHANGED <<txs, answered>>

\* The row is read again and is the answer.
Answer(r) ==
  /\ At(r, "answering")
  /\ Ends(r)
  /\ \/ LET a == request[r].agreement IN
        answered' = [answered EXCEPT ![a] = @ \cup {row[a].status}]
     \/ Fault("db") /\ UNCHANGED answered
  /\ UNCHANGED <<row, txs>>

\* The process stops and starts again: nothing looks for unfinished work.
Crash ==
  /\ Fault("crash")
  /\ request' = [r \in Requests |-> Idle]
  /\ request' # request
  /\ UNCHANGED <<row, txs, answered>>

RequestStep(r) ==
  \/ MarkDeploying(r) \/ SendDeployment(r) \/ WaitForReceipt(r)
  \/ ReadImmutables(r) \/ SaveDeployed(r) \/ SaveFailed(r) \/ Answer(r)

DeploymentNext ==
  \/ \E a \in Agreements : Prepare(a) \/ \E r \in Requests : Confirm(r, a)
  \/ \E r \in Requests : RequestStep(r)
  \/ \E i \in DOMAIN txs : Mine(i)
  \/ Crash

DeploymentSpec == DeploymentInit /\ [][DeploymentNext]_deploymentVars

\* The event loop runs every request on, and the chain mines what was sent:
\* as there are finitely many transactions, all of them.
DeploymentFairness ==
  /\ \A r \in Requests : WF_deploymentVars(RequestStep(r))
  /\ WF_deploymentVars(\E i \in DOMAIN txs : Mine(i))

FairDeploymentSpec == DeploymentSpec /\ DeploymentFairness

(***************************************************************************)
(* Properties.                                                             *)
(***************************************************************************)
RequestRecord ==
  [pc : Steps, agreement : Agreements \cup {NoAgreement},
   tx : Addresses \cup {NoAddress}]

TxRecord == [agreement : Agreements, status : {"pending", "mined", "reverted"}]

(* The rows, requests and transactions have the values the code gives      *)
(* them; a request past factory.deploy knows its transaction.              *)
DeploymentTypeOK ==
  /\ row \in [Agreements -> [status : Statuses,
                             escrowAddress : Addresses \cup {NoAddress}]]
  /\ request \in [Requests -> RequestRecord]
  /\ \A r \in Requests :
       /\ request[r].pc # "idle" => request[r].agreement \in Agreements
       /\ request[r].pc \in {"waiting", "reading", "saving"} =>
            request[r].tx \in DOMAIN txs
  /\ txs \in Seq(TxRecord)
  /\ Len(txs) <= MaxTxs
  /\ answered \in [Agreements -> SUBSET Statuses]

(* The address in an agreement's row is always that of a created escrow    *)
(* of this very agreement, and a DEPLOYED agreement has one, whatever      *)
(* requests race and whatever faults happen.                               *)
AddressIsOwnEscrow ==
  \A a \in Agreements :
    /\ row[a].escrowAddress # NoAddress =>
         /\ row[a].escrowAddress \in DOMAIN txs
         /\ txs[row[a].escrowAddress] = [agreement |-> a, status |-> "mined"]
    /\ row[a].status = "DEPLOYED" => row[a].escrowAddress # NoAddress

(* A recorded escrow address is never forgotten: not by the failure report *)
(* of the same request, nor by that of a later one.                        *)
AddressIsKept ==
  [][\A a \in Agreements :
       row[a].escrowAddress # NoAddress =>
         row'[a].escrowAddress # NoAddress]_deploymentVars

(* An agreement has at most one escrow, and at most one deployment that    *)
(* may still become one.                                                   *)
OneEscrowPerAgreement ==
  \A i, j \in DOMAIN txs :
    /\ txs[i].agreement = txs[j].agreement
    /\ txs[i].status # "reverted" /\ txs[j].status # "reverted"
    => i = j

\* A request that has marked the agreement, and has not reported yet, runs.
UnderWay(a) ==
  \E r \in Requests :
    request[r].agreement = a /\ request[r].pc \notin {"idle", "marking"}

(* A request that deploys goes on until it has reported: only a restart    *)
(* leaves an agreement DEPLOYING with nobody to report it.                 *)
UnderWayUntilReported ==
  [][\A a \in Agreements :
       row[a].status = "DEPLOYING" /\ UnderWay(a) =>
         row'[a].status # "DEPLOYING" \/ UnderWay(a)' \/ Crash]_deploymentVars

(* A deployment under way is reported as DEPLOYED or FAILED, whatever the  *)
(* chain's node answers, unless a restart ends its request.                *)
DeploymentIsReported ==
  /\ \A a \in Agreements :
       row[a].status = "DEPLOYING" /\ UnderWay(a) ~>
         row[a].status \in {"DEPLOYED", "FAILED"} \/ ~UnderWay(a)
  /\ UnderWayUntilReported
=============================================================================
