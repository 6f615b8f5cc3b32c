---------------------------- MODULE EscrowWizard ----------------------------
(***************************************************************************)
(* The wizard in which a buyer writes an agreement, pays the NIM service   *)
(* fee, lets the backend deploy the escrow and funds it (escrow-module.tsx,*)
(* wizard-flow.ts, use-nim-service-fee.ts, deploy-and-fund-flow.ts,        *)
(* escrow-funding.ts, transaction-executor.ts), composed with the backend  *)
(* of AgreementDeployment and with the deployed escrows as far as funding  *)
(* goes.  One browser tab runs the wizard; the buyer's other tabs and the  *)
(* other participants act on deployed escrows on their own.                *)
(*                                                                         *)
(* An agreement is what a draft commits to: other terms, or another nonce, *)
(* are another agreement.  The fee knows a draft by its payload only, the  *)
(* first digits of the nonce.  The button that deploys and funds waits for *)
(* the wallet before the page is busy, so several flows may run at a time. *)
(***************************************************************************)
EXTENDS AgreementDeployment

CONSTANTS
  NoRequest,  \* none of the requests
  Flows,      \* clicks on Deploy & Fund that can be running at the same time
  payloadOf,  \* the payload of the fee for each agreement
  newPayload, \* the payload of the nonce that a new form gets
  MaxCalls,   \* bound: calls of the Nimiq Pay host
  MaxEdits,   \* bound: changes of the form
  MaxClicks   \* bound: clicks on Deploy & Fund; after them, no way back

Payloads == {payloadOf[a] : a \in Agreements}

ASSUME WizardAssumption ==
  /\ Agreements # {} /\ DOMAIN payloadOf = Agreements /\ newPayload \in Payloads
  /\ NoRequest \notin Requests
  /\ MaxCalls \in Nat /\ MaxEdits \in Nat /\ MaxClicks \in Nat

VARIABLES
  form,     \* the wizard's form: mode, parts, payload, the agreement it commits to
  step,     \* the step shown
  edits,    \* changes of the form so far
  ui,       \* open, deploying, the agreement shown as deployed, the last result
  clicks,   \* clicks on Deploy & Fund so far
  flow,     \* the deploy-and-fund flows: where each is, and what it knows
  fee,      \* inside the host or not, the fee's stage, account authorized
  calls,    \* calls of the host that have not been answered
  payments, \* NIM payments that were made: the payload of each
  hostCalls,\* calls of the host ever made
  chain,    \* the state of each escrow
  deposits  \* the deposits that the flows sent

formVars == <<form, step, edits>>
flowVars == <<flow, ui, clicks>>
feeVars == <<fee, calls, payments, hostCalls>>
chainVars == <<chain, deposits>>
wizardVars == <<deploymentVars, formVars, flowVars, feeVars, chainVars>>

Modes == {"work", "external", "both"}
Parts == {"terms", "work", "condition"}
\* Entered: enough is there to go on from the step, not enough for a draft.
Contents == {"missing", "entered", "valid"}

BlankForm ==
  [mode |-> "work", payload |-> newPayload, id |-> NoAgreement,
   part |-> [q \in Parts |-> "missing"]]

NoFlow == [pc |-> "idle", id |-> NoAgreement, call |-> NoRequest, tx |-> "none", sent |-> 0]

NoResult == [id |-> NoAgreement, funded |-> FALSE]

WizardInit ==
  /\ DeploymentInit
  /\ form = BlankForm
  /\ step = 1
  /\ edits = 0
  /\ ui = [open |-> TRUE, deploying |-> FALSE, shown |-> NoAgreement, result |-> NoResult]
  /\ clicks = 0
  /\ flow = [f \in Flows |-> NoFlow]
  /\ fee \in [host : BOOLEAN, stage : {"idle"}, account : {FALSE}]
  /\ calls = <<>>
  /\ payments = <<>>
  /\ hostCalls = 0
  /\ chain = [i \in Addresses |-> "AwaitingPayment"]
  /\ deposits = <<>>

(***************************************************************************)
(* The form: validateAgreementDraft, and the steps of wizard-flow.ts.      *)
(***************************************************************************)
\* externalBlockchainConditionFromPolicy of a valid policy: in mode work the
\* policy is the disabled one.
HasCondition(new) == new.mode # "work" /\ new.part["condition"] = "valid"

\* hasApplicationEvidenceRequirements.
HasWorkEvidence(new) == new.part["work"] = "valid"

ValidDraft(new) ==
  /\ new.part["terms"] = "valid"
  /\ new.mode # "external" => HasWorkEvidence(new)
  /\ new.mode # "work" => HasCondition(new)

\* computeAgreementCommitment of a form: whatever the terms are, an agreement
\* with the payload of the form's nonce.
Commitments(new) ==
  IF ValidDraft(new) THEN {a \in Agreements : payloadOf[a] = new.payload} ELSE {NoAgreement}

\* There are commitments to show only for a valid draft.
Preview == form.id # NoAgreement

\* Mutant: the condition has a step of its own only in mode external.
VisibleUnlessBoth(s, mode) ==
  /\ s = 4 => mode # "external"
  /\ s = 5 => mode = "external"

\* isWizardStepVisible.
Visible(s, mode) ==
  /\ s = 4 => mode # "external"
  /\ s = 5 => mode # "work"

LastStep == 7

NextStep(s, mode) ==
  CHOOSE n \in (s + 1)..LastStep :
    Visible(n, mode) /\ \A k \in (s + 1)..(n - 1) : ~Visible(k, mode)

PreviousStep(s, mode) ==
  CHOOSE n \in 1..(s - 1) :
    Visible(n, mode) /\ \A k \in (n + 1)..(s - 1) : ~Visible(k, mode)

\* The form becomes another one.  No field is ever disabled.
Changes(new) ==
  /\ ui.open /\ edits < MaxEdits /\ edits' = edits + 1
  /\ \E a \in Commitments(new) : form' = [new EXCEPT !.id = a]
  /\ form' # form

Edit(p, content) ==
  /\ Changes([form EXCEPT !.part[p] = content])
  /\ UNCHANGED <<deploymentVars, step, flowVars, feeVars, chainVars>>

\* Participants, amount, registry; and a nonce that begins as the old one.
EditTerms(content) == step \in {1, 2} /\ Edit("terms", content)

\* Deliverables with titles, not yet with requirements.
EditDeliverables(content) ==
  step = 4 /\ content \in {"missing", "entered"} /\ Edit("work", content)

EditRequirements(content) ==
  /\ step = 4 /\ content \in {"entered", "valid"} /\ form.part["work"] # "missing"
  /\ Edit("work", content)

\* The step's defaults miss only what makes the whole valid.
EditCondition(content) ==
  step = 5 /\ content \in {"missing", "valid"} /\ Edit("condition", content)

\* onSelectMode.
SelectMode(mode) ==
  /\ step = 3
  /\ Changes([form EXCEPT !.mode = mode,
                          !.part["work"] = IF mode = "external" THEN "missing" ELSE @])
  /\ UNCHANGED <<deploymentVars, step, flowVars, feeVars, chainVars>>

\* Mutant: the fee of one nonce counts for the next.
EditNonceKeepingFee(p) ==
  /\ step = 2
  /\ Changes([form EXCEPT !.payload = p])
  /\ UNCHANGED <<deploymentVars, step, flowVars, feeVars, chainVars>>

\* The nonce is an advanced setting; another payload starts another fee.
EditNonce(p) ==
  /\ step = 2 /\ p # form.payload
  /\ Changes([form EXCEPT !.payload = p])
  /\ fee' = [fee EXCEPT !.stage = "idle"]
  /\ UNCHANGED <<deploymentVars, step, flowVars, calls, payments, hostCalls, chainVars>>

Paid == fee.stage = "success"

\* nimServiceFeeBlocksContinue.
BlocksContinue == fee.host /\ ~Paid

\* next(): what the step shown asks for is there.
Continue ==
  /\ ui.open /\ step < LastStep
  /\ step <= 2 => form.part["terms"] # "missing"
  /\ step = 4 => form.part["work"] # "missing"
  /\ step = 5 => Preview
  /\ step = 6 => ~BlocksContinue
  /\ step' = NextStep(step, form.mode)
  /\ UNCHANGED <<deploymentVars, form, edits, flowVars, feeVars, chainVars>>

\* Not while a flow says so, nor once an agreement is deployed.
InUse == ui.open /\ ~ui.deploying /\ ui.shown = NoAgreement

Back ==
  /\ InUse /\ step > 1 /\ clicks < MaxClicks
  /\ step' = PreviousStep(step, form.mode)
  /\ UNCHANGED <<deploymentVars, form, edits, flowVars, feeVars, chainVars>>

(***************************************************************************)
(* The service fee, inside the Nimiq Pay host (useNimServiceFee).  An      *)
(* answer sets the stage whatever the form says by then.                   *)
(***************************************************************************)
MayCallHost == fee.host /\ fee.stage \notin {"pending", "success"}

CallsHost(kind) ==
  /\ hostCalls < MaxCalls
  /\ ui.open /\ step = 6
  /\ fee' = [fee EXCEPT !.stage = "pending"]
  /\ calls' = Append(calls, [kind |-> kind, payload |-> form.payload])
  /\ hostCalls' = hostCalls + 1
  /\ UNCHANGED <<deploymentVars, formVars, flowVars, payments, chainVars>>

Authorize == MayCallHost /\ CallsHost("authorize")

Pay == MayCallHost /\ fee.account /\ CallsHost("pay")

Answered(i) ==
  calls' = [k \in 1..(Len(calls) - 1) |-> calls[IF k < i THEN k ELSE k + 1]]

\* listAccounts returns an account.
AccountsAnswer(i) ==
  /\ calls[i].kind = "authorize" /\ Answered(i)
  /\ fee' = [fee EXCEPT !.stage = "idle", !.account = TRUE]
  /\ UNCHANGED <<deploymentVars, formVars, flowVars, payments, hostCalls, chainVars>>

\* The payment was made and its reference returned.
PaymentAnswer(i) ==
  /\ calls[i].kind = "pay" /\ Answered(i)
  /\ fee' = [fee EXCEPT !.stage = "success", !.account = TRUE]
  /\ payments' = Append(payments, calls[i].payload)
  /\ UNCHANGED <<deploymentVars, formVars, flowVars, hostCalls, chainVars>>

\* The call failed, or was refused; a payment may have been made all the same.
CallFails(i) ==
  /\ Answered(i)
  /\ fee' = [fee EXCEPT !.stage = "failure"]
  /\ \/ UNCHANGED payments
     \/ calls[i].kind = "pay" /\ payments' = Append(payments, calls[i].payload)
  /\ UNCHANGED <<deploymentVars, formVars, flowVars, hostCalls, chainVars>>

HostAnswers(i) == AccountsAnswer(i) \/ PaymentAnswer(i) \/ CallFails(i)

(***************************************************************************)
(* deployAndFund, once for each click.  What a flow sets of the page is    *)
(* lost when the wizard was closed meanwhile.                              *)
(***************************************************************************)
FlowGoesTo(f, pc) == flow' = [flow EXCEPT ![f].pc = pc]

\* The page of an open wizard.
Page(new) == ui' = IF ui.open THEN new ELSE ui

\* The flow is over; its finally clears what every flow's button depends on.
FlowEndsWith(f, result) ==
  /\ flow' = [flow EXCEPT ![f] = NoFlow]
  /\ Page([ui EXCEPT !.deploying = FALSE, !.result = result])

FlowFails(f) == FlowEndsWith(f, ui.result)

\* The click, on the draft of that moment.
DeployAndFund(f) ==
  /\ InUse /\ step = LastStep /\ Preview
  /\ flow[f] = NoFlow /\ f = CHOOSE free \in Flows : flow[free] = NoFlow
  /\ clicks < MaxClicks /\ clicks' = clicks + 1
  /\ flow' = [flow EXCEPT ![f].pc = "asking", ![f].id = form.id]
  /\ UNCHANGED <<deploymentVars, formVars, ui, feeVars, chainVars>>

\* activeWalletChainId: only its answer makes the page busy.
ChainAnswers(f) ==
  /\ flow[f].pc = "asking"
  /\ \/ FlowGoesTo(f, "preparing") /\ Page([ui EXCEPT !.deploying = TRUE])
     \/ flow' = [flow EXCEPT ![f] = NoFlow] /\ UNCHANGED ui
  /\ UNCHANGED <<deploymentVars, formVars, clicks, feeVars, chainVars>>

\* client.prepare: a second creation of one agreement fails.  Every request to
\* the backend may fail on its way there or on its way back.
PrepareAgreement(f) ==
  /\ flow[f].pc = "preparing"
  /\ \/ /\ Prepare(flow[f].id)
        /\ \/ FlowGoesTo(f, "prepared") /\ UNCHANGED ui
           \/ FlowFails(f)
     \/ UNCHANGED deploymentVars /\ FlowFails(f)
  /\ UNCHANGED <<formVars, clicks, feeVars, chainVars>>

\* client.confirmAndDeploy is sent.
ConfirmAgreement(f) ==
  /\ flow[f].pc = "prepared"
  /\ \/ \E r \in Requests :
          /\ Confirm(r, flow[f].id)
          /\ \/ flow' = [flow EXCEPT ![f].pc = "confirming", ![f].call = r] /\ UNCHANGED ui
             \/ FlowFails(f)
     \/ UNCHANGED deploymentVars /\ FlowFails(f)
  /\ UNCHANGED <<formVars, clicks, feeVars, chainVars>>

\* The answer that request r gives says DEPLOYED, with an address.
HearsDeployed(r) ==
  LET a == request[r].agreement IN
    /\ row[a].status = "DEPLOYED" /\ row[a].escrowAddress # NoAddress
    /\ "DEPLOYED" \in answered'[a]

\* The agreement is shown, in place of whatever was, and its funding begins.
ShowsDeployed(f) ==
  /\ flow' = [flow EXCEPT ![f].pc = "details", ![f].call = NoRequest]
  /\ Page([ui EXCEPT !.shown = flow[f].id])
  /\ step' = IF ui.open THEN LastStep ELSE step

\* A step of the backend's request r; the flow that still waits for it hears
\* of its end.
BackendStep(r) ==
  /\ RequestStep(r)
  /\ LET waiting == {f \in Flows : flow[f].call = r} IN
       IF request'[r].pc # "idle" \/ waiting = {}
       THEN UNCHANGED <<flowVars, step>>
       ELSE \E f \in waiting :
              \/ FlowFails(f) /\ UNCHANGED step
              \/ At(r, "answering") /\ HearsDeployed(r) /\ ShowsDeployed(f)
  /\ UNCHANGED <<form, edits, clicks, feeVars, chainVars>>

BackendCrash ==
  /\ Crash
  /\ LET waiting == {f \in Flows : flow[f].call # NoRequest} IN
       /\ flow' = [f \in Flows |-> IF f \in waiting THEN NoFlow ELSE flow[f]]
       /\ IF waiting = {} THEN UNCHANGED ui ELSE Page([ui EXCEPT !.deploying = FALSE])
  /\ UNCHANGED <<formVars, clicks, feeVars, chainVars>>

BackendMines(i) == Mine(i) /\ UNCHANGED <<formVars, flowVars, feeVars, chainVars>>

(***************************************************************************)
(* Funding: fundEscrow and executeWalletTransaction.                       *)
(***************************************************************************)
Escrow(f) == row[flow[f].id].escrowAddress

\* The funding is over: tx is the status of its last receipt.
Funding(f, tx) == flow' = [flow EXCEPT ![f].pc = "refreshing", ![f].tx = tx]

\* getAgreement, validateEscrowFunding and the state read from the chain: as an
\* escrow awaits its payment at first only, the last reading decides.
CheckFunding(f) ==
  /\ flow[f].pc = "details"
  /\ \/ chain[Escrow(f)] = "AwaitingPayment" /\ FlowGoesTo(f, "signing")
     \/ Funding(f, "RPC_ERROR")
  /\ UNCHANGED <<deploymentVars, formVars, ui, clicks, feeVars, chainVars>>

\* The buyer signs or not; the answer of a submission may be lost.
SignDeposit(f) ==
  /\ flow[f].pc = "signing"
  /\ \/ /\ deposits' = Append(deposits, [agreement |-> flow[f].id, escrow |-> Escrow(f),
                                        status |-> "pending"])
        /\ \/ flow' = [flow EXCEPT ![f].pc = "waiting", ![f].sent = Len(deposits) + 1]
           \/ Funding(f, "RPC_ERROR")
     \/ Funding(f, "USER_REJECTED") /\ UNCHANGED deposits
  /\ UNCHANGED <<deploymentVars, formVars, ui, clicks, feeVars, chain>>

\* deposit() on the chain: only while the escrow awaits its payment.
MineDeposit(i) ==
  LET e == deposits[i].escrow IN
    /\ deposits[i].status = "pending"
    /\ IF chain[e] = "AwaitingPayment"
       THEN /\ chain' = [chain EXCEPT ![e] = "AwaitingDelivery"]
            /\ deposits' = [deposits EXCEPT ![i].status = "mined"]
       ELSE deposits' = [deposits EXCEPT ![i].status = "reverted"] /\ UNCHANGED chain
    /\ UNCHANGED <<deploymentVars, formVars, flowVars, feeVars>>

\* Mutant: a transaction with a hash counts as confirmed.
DepositReceiptUnchecked(f) ==
  /\ flow[f].pc = "waiting"
  /\ FlowGoesTo(f, "reconciling")
  /\ UNCHANGED <<deploymentVars, formVars, ui, clicks, feeVars, chainVars>>

\* Mutant: only a successful receipt ends the waiting.
DepositReceiptMined(f) ==
  /\ flow[f].pc = "waiting"
  /\ deposits[flow[f].sent].status = "mined" /\ FlowGoesTo(f, "reconciling")
  /\ UNCHANGED <<deploymentVars, formVars, ui, clicks, feeVars, chainVars>>

\* transaction.wait(1), which has no timeout, returns the receipt.
DepositReceipt(f) ==
  /\ flow[f].pc = "waiting"
  /\ LET status == deposits[flow[f].sent].status IN
       \/ status = "mined" /\ FlowGoesTo(f, "reconciling")
       \/ status = "reverted" /\ Funding(f, "TRANSACTION_REVERTED")
  /\ UNCHANGED <<deploymentVars, formVars, ui, clicks, feeVars, chainVars>>

\* Mutant: the deposit is sent again when its receipt could not be had.
ReceiptFailsRetrying(f) ==
  /\ flow[f].pc = "waiting" /\ FlowGoesTo(f, "signing")
  /\ UNCHANGED <<deploymentVars, formVars, ui, clicks, feeVars, chainVars>>

\* The wait fails, whatever became of the transaction.
ReceiptFails(f) ==
  /\ flow[f].pc = "waiting" /\ Funding(f, "RPC_ERROR")
  /\ UNCHANGED <<deploymentVars, formVars, ui, clicks, feeVars, chainVars>>

\* The escrow and the backend are read again: both must say AwaitingDelivery.
Reconcile(f) ==
  /\ flow[f].pc = "reconciling"
  /\ \/ chain[Escrow(f)] = "AwaitingDelivery" /\ Funding(f, "COMPLETE")
     \/ Funding(f, "AWAITING_RECONCILIATION")
     \/ Funding(f, "RECONCILIATION_FAILED")
  /\ UNCHANGED <<deploymentVars, formVars, ui, clicks, feeVars, chainVars>>

IsFunded(f, seen) == flow[f].tx = "COMPLETE" /\ seen = "AwaitingDelivery"

\* The agreement is read a last time, if it can be; the result is shown, in
\* place of whatever was.
Refresh(f) ==
  /\ flow[f].pc = "refreshing"
  /\ \E seen \in {chain[Escrow(f)], "unknown"} :
       FlowEndsWith(f, [id |-> flow[f].id, funded |-> IsFunded(f, seen)])
  /\ UNCHANGED <<deploymentVars, formVars, clicks, feeVars, chainVars>>

\* A participant in another tab funds or cancels an escrow.  What happens to
\* a funded escrow makes no difference: its readings can fail anyway.
OtherTab(i) ==
  /\ \E a \in Agreements : row[a].escrowAddress = i
  /\ chain[i] = "AwaitingPayment"
  /\ \E state \in {"AwaitingDelivery", "Cancelled"} : chain' = [chain EXCEPT ![i] = state]
  /\ UNCHANGED <<deploymentVars, formVars, flowVars, feeVars, deposits>>

\* Close, Cancel Agreement: possible unless a flow says that it deploys.  The
\* wizard's state is gone, and answers of the host go nowhere; flows run on.
Close ==
  /\ ui.open /\ ~ui.deploying
  /\ ui' = [open |-> FALSE, deploying |-> FALSE, shown |-> NoAgreement, result |-> NoResult]
  /\ form' = BlankForm /\ edits' = 0 /\ step' = 1
  /\ fee' = [fee EXCEPT !.stage = "idle", !.account = FALSE]
  /\ calls' = <<>>
  /\ UNCHANGED <<deploymentVars, clicks, flow, payments, hostCalls, chainVars>>

Filling ==
  \/ \E content \in Contents :
       \/ EditTerms(content) \/ EditDeliverables(content)
       \/ EditRequirements(content) \/ EditCondition(content)
  \/ \E mode \in Modes : SelectMode(mode)
  \/ \E p \in Payloads : EditNonce(p)
  \/ Continue \/ Back \/ Close \/ Authorize \/ Pay

\* What a flow does by itself.
Flowing(f) ==
  \/ PrepareAgreement(f) \/ ConfirmAgreement(f) \/ CheckFunding(f) \/ DepositReceipt(f)
  \/ Reconcile(f) \/ Refresh(f)

FlowNext(f) ==
  \/ DeployAndFund(f) \/ ChainAnswers(f) \/ Flowing(f) \/ SignDeposit(f) \/ ReceiptFails(f)

WizardNext ==
  \/ Filling
  \/ \E f \in Flows : FlowNext(f)
  \/ \E i \in DOMAIN calls : HostAnswers(i)
  \/ \E r \in Requests : BackendStep(r)
  \/ \E i \in DOMAIN txs : BackendMines(i) \/ OtherTab(i)
  \/ \E i \in DOMAIN deposits : MineDeposit(i)
  \/ BackendCrash

WizardSpec == WizardInit /\ [][WizardNext]_wizardVars

\* The event loops of browser and backend run, requests are answered or fail,
\* and the chain mines deployments and deposits.  Nobody has to answer for the
\* wallet, and no wait for a receipt has to fail.  As a flow takes finitely
\* many steps, it is enough that one of those that are possible is taken.
SystemStep ==
  \/ \E f \in Flows : Flowing(f)
  \/ \E r \in Requests : BackendStep(r)
  \/ \E i \in DOMAIN txs : BackendMines(i)
  \/ \E i \in DOMAIN deposits : MineDeposit(i)

FairWizardSpec == WizardSpec /\ WF_wizardVars(SystemStep)

(***************************************************************************)
(* Properties.                                                             *)
(***************************************************************************)
(* Whatever way the user took through the steps and back, with the mode    *)
(* changed in between: an agreement with an external condition is reviewed *)
(* and offered for deployment only when all of it is there.                *)
ReviewedTermsAreComplete ==
  step >= 6 /\ ui.shown = NoAgreement /\ form.mode # "work" => Preview

(* Inside the host a fee was really paid for every payload that agreements *)
(* were created with, whatever became of the answers and however flows and *)
(* changes of the form overlap.  (Agreements whose nonces begin alike, and *)
(* all terms with one nonce, share a payload and may share its fee.)       *)
FeePerPayload ==
  LET created == {a \in Agreements : row[a].status # "none"} IN
    fee.host => Cardinality({payloadOf[a] : a \in created}) <= Len(payments)

(* However deployment and funding are tried and overlap, the buyer is      *)
(* asked for one deposit at most for an agreement, into the escrow that    *)
(* was created for it.                                                     *)
OneDeposit ==
  /\ \A i, j \in DOMAIN deposits : deposits[i].agreement = deposits[j].agreement => i = j
  /\ \A i \in DOMAIN deposits :
       txs[deposits[i].escrow] = [agreement |-> deposits[i].agreement, status |-> "mined"]

(* The wizard's result is that an agreement is funded only if the deposit  *)
(* that a flow sent for it was mined and its escrow has got it.  (Beside   *)
(* it the page may show the address of an agreement of another flow.)      *)
FundedIsOnChain ==
  ui.result.funded =>
    \E i \in DOMAIN deposits :
      /\ deposits[i].agreement = ui.result.id /\ deposits[i].status = "mined"
      /\ txs[deposits[i].escrow].agreement = ui.result.id
      /\ chain[deposits[i].escrow] = "AwaitingDelivery"

(* A flow comes back to the user, or to the wallet for a signature,        *)
(* whatever fails on the way.                                              *)
FlowEnds ==
  LET resting == {"idle", "asking", "signing"} IN
    \A f \in Flows : flow[f].pc \notin resting ~> flow[f].pc \in resting
=============================================================================
