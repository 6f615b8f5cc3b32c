------------------------- MODULE AgreementDashboard -------------------------
(***************************************************************************)
(* The page of an agreement (dashboard/[id]/page.tsx with its detail view  *)
(* and condition panel), the backend that reads the escrow for it          *)
(* (dashboard-service.ts, contract-read-layer.ts,                          *)
(* reconciliation-service.ts) and the escrow itself (VeyronisEscrow).  One *)
(* participant has the page open; the others act on the chain.  A snapshot *)
(* is several calls, answered one by one while blocks go on being mined.   *)
(* What the page has begun runs until it ends: a second click or another   *)
(* load may come before, and their answers in any order.                   *)
(***************************************************************************)
EXTENDS VeyronisEscrow

CONSTANTS
  lifecycle,    \* agreementLifecycleMode of each agreement
  FailureCodes, \* failures of a verification that the page tells apart
  Flows,        \* what the page may have going: calls of execute and of load
  Scenarios     \* whose page of which escrow, and what else goes on

Modes == {"blockchain_condition_only", "application_work_evidence", "hybrid"}

ASSUME LifecycleAssumption ==
  /\ lifecycle \in [Escrows -> Modes]
  /\ \A e \in Escrows :
       directConditionSettlement[e] <=> lifecycle[e] = "blockchain_condition_only"

ASSUME ScenarioAssumption ==
  Scenarios \subseteq [escrow : Escrows, role : {"buyer", "seller", "arbitrator"},
                       outside : BOOLEAN, flows : SUBSET Flows]

\* The escrows were created, and the amount of the agreement can be sent.  A
\* failed verification has its own labels: none of them is that of a payment.
ASSUME DashboardAssumption ==
  /\ \A e \in Escrows : ConstructorAccepts(e) /\ requiredAmount[e] \in Values
  /\ \E c \in ClaimIds : c # Zero
  /\ FailureCodes \cap {"Unlocked", "Unlocked - withdrawal available"} = {}

VARIABLES
  scenario, \* the escrow, the page's participant, calls from other software, flows
  log,      \* the events of each mined block, and the escrow after it
  db,       \* the latest verification of the condition, and its claim
  page,     \* what the page knows: details and verification
  status,   \* the status of a transaction that it shows
  flow      \* what it has going: the step, the action, the block a reading began at

chainVars == <<esc, frames, log>>
dashboardVars == <<vars, scenario, log, db, page, status, flow>>

E == scenario.escrow
Roles == {"buyer", "seller", "arbitrator"}
Wallet(role) == CASE role = "buyer" -> buyer[E] [] role = "seller" -> seller[E]
                  [] role = "arbitrator" -> arbitrator[E]
Me == Wallet(scenario.role)
External == lifecycle[E] # "application_work_evidence"
ExternalOnly == lifecycle[E] = "blockchain_condition_only"

Claim == CHOOSE c \in ClaimIds : c # Zero
NoVerification == [status |-> "none", claim |-> Zero, code |-> "none"]
NotLoaded == [state |-> NoCode, claim |-> Zero, credit |-> 0, timeline |-> {}]
NoFlow == [pc |-> "idle", action |-> "none", block |-> 0]

DashboardInit ==
  /\ scenario \in Scenarios
  /\ esc = [e \in Escrows |-> [Blank EXCEPT !.state = "AwaitingPayment"]]
  /\ frames = <<>>
  /\ log = <<[events |-> {}, escrow |-> esc[E]]>>
  /\ db = NoVerification
  /\ page = [detail |-> NotLoaded, verification |-> NoVerification]
  /\ status = "IDLE"
  /\ flow = [f \in Flows |-> NoFlow]

(***************************************************************************)
(* What the backend offers.                                                *)
(***************************************************************************)
\* canWithdrawEscrowFunds.
CanWithdrawFunds(role, state, amount) ==
  amount > 0 /\ <<role, state>> \in {<<"seller", "Complete">>, <<"buyer", "Refunded">>}

\* Mutant: both parties may approve a refund.
SettlementByBoth == [
  buyer |-> [AwaitingDelivery |-> {"confirmDelivery", "requestRefund", "openDispute"},
             RefundRequested |-> {"approveRefund", "openDispute"}],
  seller |-> [AwaitingDelivery |-> {"openDispute"},
              RefundRequested |-> {"approveRefund", "openDispute"}],
  arbitrator |-> [Disputed |-> {"resolveRelease", "resolveRefund"}]]

\* Mutant: the arbitrator is asked while a refund is requested.
SettlementBeforeDispute == [
  buyer |-> [AwaitingDelivery |-> {"confirmDelivery", "requestRefund", "openDispute"},
             RefundRequested |-> {"openDispute"}],
  seller |-> [AwaitingDelivery |-> {"openDispute"},
              RefundRequested |-> {"approveRefund", "openDispute"}],
  arbitrator |-> [RefundRequested |-> {"resolveRelease", "resolveRefund"}]]

\* What each role may do by hand in each state.
Settlement == [
  buyer |-> [AwaitingDelivery |-> {"confirmDelivery", "requestRefund", "openDispute"},
             RefundRequested |-> {"openDispute"}],
  seller |-> [AwaitingDelivery |-> {"openDispute"},
              RefundRequested |-> {"approveRefund", "openDispute"}],
  arbitrator |-> [Disputed |-> {"resolveRelease", "resolveRefund"}]]

HumanSettlement(role, state) ==
  IF state \in DOMAIN Settlement[role] THEN Settlement[role][state] ELSE {}

\* actionsFor.
ActionsFor(role, state, amount) ==
  (IF role = "buyer" /\ state = "AwaitingPayment" THEN {"deposit", "cancel"} ELSE {})
  \cup (IF ExternalOnly THEN {} ELSE HumanSettlement(role, state))
  \cup (IF CanWithdrawFunds(role, state, amount) THEN {"withdraw"} ELSE {})

(***************************************************************************)
(* The chain: the calls of the application, each in a block of its own,    *)
(* with the events they emit.                                              *)
(***************************************************************************)
Call(act, sender) ==
  \/ act = "deposit" /\ Deposit(E, sender, requiredAmount[E])
  \/ act = "cancel" /\ Cancel(E, sender)
  \/ act = "confirmDelivery" /\ ConfirmDelivery(E, sender)
  \/ act = "requestRefund" /\ \E v \in Evidence : RequestRefund(E, sender, v)
  \/ act = "approveRefund" /\ ApproveRefund(E, sender)
  \/ act = "openDispute" /\ \E v \in Evidence : OpenDispute(E, sender, v)
  \/ act = "resolveRelease" /\ ResolveDispute(E, sender, "ReleaseToSeller")
  \/ act = "resolveRefund" /\ ResolveDispute(E, sender, "RefundBuyer")
  \/ act = "withdraw" /\ WithdrawToWallet(E, sender)

Emits == [
  deposit |-> {"Deposited"}, cancel |-> {"Cancelled"},
  confirmDelivery |-> {"DeliveryConfirmed", "WithdrawalCredited"},
  requestRefund |-> {"RefundRequested"},
  approveRefund |-> {"RefundApproved", "WithdrawalCredited"},
  openDispute |-> {"DisputeOpened"},
  resolveRelease |-> {"DisputeResolved", "WithdrawalCredited"},
  resolveRefund |-> {"DisputeResolved", "WithdrawalCredited"},
  withdraw |-> {"Withdrawn"}]

Actions == DOMAIN Emits

Mined(events) == log' = Append(log, [events |-> events, escrow |-> esc'[E]])

\* Somebody acts, as an up-to-date page of its own offers it, or with other
\* software.
OthersCall(role, act) ==
  /\ scenario.outside \/ act \in
       ActionsFor(role, esc[E].state, esc[E].withdrawals[Wallet(role)])
  /\ Call(act, Wallet(role))
  /\ Mined(Emits[act])
  /\ UNCHANGED <<scenario, db, page, status, flow>>

\* The verifier's claim reaches the escrow through the registry.
ClaimAccepted ==
  /\ db.status # "none"
  /\ \E v \in Evidence :
       \/ SettleVerifiedCondition(E, evidenceRegistry[E], Claim, v)
            /\ Mined({"VerifiedConditionSettled", "WithdrawalCredited", "VerifiedClaimAccepted"})
       \/ RecordVerifiedCondition(E, evidenceRegistry[E], Claim, v)
            /\ Mined({"VerifiedConditionRecorded", "VerifiedClaimAccepted"})
  /\ UNCHANGED <<scenario, db, page, status, flow>>

(***************************************************************************)
(* The verification's record, as ConditionVerification maintains it.       *)
(***************************************************************************)
SubmitHash ==
  /\ External /\ db.status \in {"none", "verification_failed"}
  /\ db' = [status |-> "verification_in_progress", claim |-> Zero, code |-> "none"]
  /\ UNCHANGED <<chainVars, scenario, page, status, flow>>

VerificationEnds ==
  /\ db.status = "verification_in_progress"
  /\ \/ /\ esc[E].verifiedClaimId = Claim
        /\ db' = [status |-> "verified", claim |-> Claim, code |-> "none"]
     \/ \E code \in FailureCodes :
          db' = [status |-> "verification_failed", claim |-> Zero, code |-> code]
  /\ UNCHANGED <<chainVars, scenario, page, status, flow>>

(***************************************************************************)
(* details: reconcile reads the escrow and its events; if that fails, or   *)
(* the result cannot be recorded, readSnapshot reads the escrow alone.     *)
(***************************************************************************)
\* Mutant: the events up to whatever block is the latest by then.
EventsToLatest(block) == UNION {log[i].events : i \in DOMAIN log}

\* getLogs up to the block that was read first.
EventsTo(block) == UNION {log[i].events : i \in 1..block}

\* readSnapshot and readBalance: each of their calls is answered from a block
\* of its own, mined since the reading began.
SnapshotSince(block) ==
  LET since == {log[i].escrow : i \in block..Len(log)} IN
    [state : {e.state : e \in since}, claim : {e.verifiedClaimId : e \in since},
     credit : {e.withdrawals[Me] : e \in since}]

Reading(f) == flow[f].pc \in {"reconciling", "snapshot"}

\* The answers that GET /agreements/:id may give to a reading.
Details(f) ==
  LET block == flow[f].block
      timeline == IF flow[f].pc = "reconciling" THEN EventsTo(block) ELSE {}
  IN {[state |-> s.state, claim |-> s.claim, credit |-> s.credit, timeline |-> timeline] :
        s \in SnapshotSince(block)}

Goes(f, pc) == flow' = [flow EXCEPT ![f].pc = pc]

StartsReading(f, pc) == flow' = [flow EXCEPT ![f].pc = pc, ![f].block = Len(log)]

Ends(f) == flow' = [flow EXCEPT ![f] = NoFlow]

(***************************************************************************)
(* The page.                                                               *)
(***************************************************************************)
\* What the page of a participant would show now.
Fresh(role) ==
  [state |-> esc[E].state, claim |-> esc[E].verifiedClaimId,
   credit |-> esc[E].withdrawals[Wallet(role)], timeline |-> EventsTo(Len(log))]

\* (A page that is up to date would read the same again.)
Load(f) ==
  /\ f \in scenario.flows /\ flow[f] = NoFlow
  /\ page.detail # Fresh(scenario.role)
  /\ StartsReading(f, "reconciling")
  /\ UNCHANGED <<chainVars, scenario, db, page, status>>

\* fundEscrow reconciles a deposit with the details it has loaded; for other
\* actions the loading is enough.
Reconciled(act, detail) ==
  IF act = "deposit" /\ detail.state # "AwaitingDelivery"
  THEN "AWAITING_RECONCILIATION" ELSE "COMPLETE"

\* A load that no transaction waits for says nothing of one.
LoadEnds(f) ==
  /\ Reading(f)
  /\ \E detail \in Details(f) :
       /\ page' = [page EXCEPT !.detail = detail]
       /\ status' = IF flow[f].action = "none" THEN status
                    ELSE Reconciled(flow[f].action, detail)
  /\ Ends(f)
  /\ UNCHANGED <<chainVars, scenario, db>>

LoadFails(f) ==
  /\ \/ flow[f].pc = "reconciling" /\ StartsReading(f, "snapshot") /\ UNCHANGED status
     \/ /\ flow[f].pc = "snapshot" /\ Ends(f)
        /\ status' = CASE flow[f].action = "none" -> status
                       [] flow[f].action = "deposit" -> "AWAITING_RECONCILIATION"
                       [] OTHER -> "FAILED"
  /\ UNCHANGED <<chainVars, scenario, db, page>>

\* The condition panel's load.
LoadCondition ==
  /\ External
  /\ page' = [page EXCEPT !.verification = db]
  /\ UNCHANGED <<chainVars, scenario, db, status, flow>>

\* FAILED stands for USER_REJECTED, TRANSACTION_REVERTED, RPC_ERROR and
\* RECONCILIATION_FAILED.
NotBusy == {"IDLE", "COMPLETE", "FAILED"}
Busy == status \notin NotBusy

Loaded(detail) == detail.state # NoCode

\* The buttons of the detail view, or, for an external condition alone, of the
\* condition panel.
Displayed(role, detail) ==
  LET offered == ActionsFor(role, detail.state, detail.credit) IN
    IF ~Loaded(detail) THEN {}
    ELSE IF ExternalOnly
         THEN {act \in offered : act = "deposit" \/ (act = "withdraw" /\ role = "seller")}
         ELSE offered

\* execute: a click.  Nothing is shown as busy until the wallet is asked.
Execute(f, act) ==
  /\ f \in scenario.flows /\ flow[f] = NoFlow
  /\ ~Busy /\ act \in Displayed(scenario.role, page.detail)
  /\ flow' = [flow EXCEPT ![f].pc = "checking", ![f].action = act]
  /\ UNCHANGED <<chainVars, scenario, db, page, status>>

\* The rest of execute, up to the wallet: chain, signer and, for a deposit, the
\* escrow's state.  Some of its failures say so without touching the status.
Check(f) ==
  /\ flow[f].pc = "checking"
  /\ \/ /\ flow[f].action = "deposit" => esc[E].state = "AwaitingPayment"
        /\ Goes(f, "signing") /\ status' = "AWAITING_WALLET_SIGNATURE"
     \/ Ends(f) /\ status' \in {status, "FAILED"}
  /\ UNCHANGED <<chainVars, scenario, db, page>>

\* The wallet sends the transaction.  If its answer is lost the transaction
\* goes on without the page: it is then one of OthersCall.
Sign(f) ==
  /\ flow[f].pc = "signing"
  /\ \/ Goes(f, "pending") /\ status' = "CONFIRMING"
     \/ Ends(f) /\ status' = "FAILED"
  /\ UNCHANGED <<chainVars, scenario, db, page>>

MineMine(f) ==
  /\ flow[f].pc = "pending"
  /\ \/ /\ Call(flow[f].action, Me) /\ Mined(Emits[flow[f].action])
        /\ Goes(f, "mined")
     \/ /\ ~ENABLED Call(flow[f].action, Me)
        /\ Goes(f, "reverted")
        /\ UNCHANGED chainVars
  /\ UNCHANGED <<scenario, db, page, status>>

\* transaction.wait, which may fail, and the reconciliation that follows a
\* confirmation.
Receipt(f) ==
  /\ \/ /\ flow[f].pc = "mined"
        /\ StartsReading(f, "reconciling") /\ status' = "RECONCILING"
     \/ /\ flow[f].pc \in {"pending", "mined", "reverted"}
        /\ Ends(f) /\ status' = "FAILED"
  /\ UNCHANGED <<chainVars, scenario, db, page>>

(***************************************************************************)
(* What the pages say.                                                     *)
(***************************************************************************)
\* isVerifiedOnChain.
VerifiedOnChain(detail, verification) ==
  verification.status = "verified" /\ detail.claim = verification.claim

\* Mutant: the payment is unlocked as soon as the condition is verified.
PaymentUnlockedOnVerification(detail, verification) ==
  VerifiedOnChain(detail, verification)

\* isEscrowPaymentUnlocked.
PaymentUnlocked(detail, verification) ==
  /\ VerifiedOnChain(detail, verification)
  /\ detail.state = "Complete"
  /\ ExternalOnly \/ detail.credit # 0 \/ "WithdrawalCredited" \in detail.timeline

\* externalPaymentStatus; the tones follow the labels.
PaymentStatus(role, detail, verification) ==
  CASE "Withdrawn" \in detail.timeline -> "Withdrawn"
    [] OTHER ->
  CASE role = "seller" /\ CanWithdrawFunds(role, detail.state, detail.credit) ->
         "Unlocked - withdrawal available"
    [] PaymentUnlocked(detail, verification) -> "Unlocked"
    [] OTHER ->
  CASE verification.status = "verification_failed" -> verification.code
    [] verification.status = "verification_in_progress" -> "verification pending"
    [] verification.status = "verified" /\ ~VerifiedOnChain(detail, verification) ->
         "claim not accepted"
    [] verification.status = "verified" /\ VerifiedOnChain(detail, verification)
         /\ lifecycle[E] = "hybrid" -> "buyer acceptance required"
    [] OTHER -> "awaiting transaction hash"

\* conditionSummarySteps: those that are shown as done.
StepsDone(detail, verification) ==
  {step \in {"hash submitted", "proof requested", "verified", "unlocked", "withdrawable"} :
     \/ step = "hash submitted" /\ verification.status # "none"
     \/ /\ step = "proof requested"
        /\ verification.status \in {"verification_in_progress", "verified"}
     \/ step = "verified" /\ VerifiedOnChain(detail, verification)
     \/ step = "unlocked" /\ PaymentUnlocked(detail, verification)
     \/ step = "withdrawable" /\ CanWithdrawFunds("seller", detail.state, detail.credit)}

\* The claim's settlement, on the panel of an agreement that is not settled by
\* the condition alone.
SettlementStatus(detail, verification) ==
  CASE PaymentUnlocked(detail, verification) -> "Credited by escrow"
    [] VerifiedOnChain(detail, verification) /\ ~PaymentUnlocked(detail, verification) ->
         "Awaiting buyer acceptance"
    [] OTHER -> "Waiting"

\* sellerProgressSteps: the step that the verifier or the buyer ends.
SettlementStep(detail, verification) ==
  IF ExternalOnly
  THEN IF VerifiedOnChain(detail, verification) THEN "Seller credited" ELSE "Waiting"
  ELSE IF External => VerifiedOnChain(detail, verification)
       THEN IF detail.state = "Complete" THEN "Complete" ELSE "Awaiting buyer acceptance"
       ELSE "Waiting"

Terminal == {"Complete", "Refunded", "Cancelled"}

\* Mutant: every refund was requested.
LifecyclePathWithRequest(detail) ==
  <<"AwaitingPayment">> \o
  CASE detail.state = "Cancelled" -> <<"Cancelled">>
    [] detail.state = "Refunded" -> <<"AwaitingDelivery", "RefundRequested", "Refunded">>
    [] OTHER -> <<>>

\* AgreementLifecycle: the states it shows as passed, from the events.
LifecyclePath(detail) ==
  LET requested == IF "RefundRequested" \in detail.timeline THEN <<"RefundRequested">> ELSE <<>>
      disputed == IF "DisputeOpened" \in detail.timeline THEN <<"Disputed">> ELSE <<>>
      delivery == <<"AwaitingPayment", "AwaitingDelivery">>
  IN CASE detail.state = "AwaitingPayment" -> Append(delivery, "AwaitingPayment")
       [] detail.state = "AwaitingDelivery" -> delivery
       [] detail.state = "Cancelled" -> <<"AwaitingPayment", "Cancelled">>
       [] detail.state = "RefundRequested" -> delivery \o <<"RefundRequested">>
       [] detail.state = "Disputed" -> delivery \o requested \o <<"Disputed">>
       [] detail.state = "Refunded" -> delivery \o requested \o disputed \o <<"Refunded">>
       [] detail.state = "Complete" -> delivery \o disputed \o <<"Complete">>

\* agreementDisplayStatus, of the detail page.
DisplayStatus(detail, verification) ==
  IF ExternalOnly /\ detail.state = "AwaitingDelivery" THEN "Verification Pending"
  ELSE IF ExternalOnly /\ detail.state = "Complete" /\ verification.status = "verified"
  THEN "Verified on-chain / Payment unlocked"
  ELSE detail.state

(***************************************************************************)
(* The public list: listDiscovery, and the cards of escrow-module.tsx.     *)
(***************************************************************************)
\* A card of a list that read the escrow at block n.
Item(n) ==
  LET state == log[n].escrow.state IN
    [state |-> state, status |-> IF state \in Terminal THEN "closed" ELSE "live",
     verificationStatus |-> IF External /\ db.status # "none" THEN db.status ELSE "pending"]

\* discoveryDisplayStatus.
DiscoveryStatus(item) ==
  IF ExternalOnly /\ item.state = "AwaitingDelivery" THEN "Verification Pending"
  ELSE IF ExternalOnly /\ item.state = "Complete" /\ item.verificationStatus = "verified"
  THEN "Verified on-chain / Payment unlocked"
  ELSE item.state

\* Mutant: what is verified is unlocked.
DiscoveryVerificationAlone(item) ==
  CASE ~External -> "Not applicable"
    [] External /\ item.verificationStatus = "verified" -> "Payment unlocked"
    [] OTHER -> item.verificationStatus

\* discoveryVerificationLabel.
DiscoveryVerification(item) ==
  CASE ~External -> "Not applicable"
    [] External /\ item.verificationStatus = "verified" ->
         IF item.state = "Complete" THEN "Payment unlocked" ELSE "Verified on-chain"
    [] OTHER -> item.verificationStatus

\* discoveryAction, of a participant.
DiscoveryAction(role, item) ==
  CASE role = "buyer" /\ item.state = "AwaitingPayment" -> "Fund Contract"
    [] role = "arbitrator" /\ item.state = "Disputed" -> "Review Dispute"
    [] item.status = "closed" -> "View History"
    [] OTHER -> "Open Escrow"

DashboardNext ==
  \/ \E role \in Roles, act \in Actions : OthersCall(role, act)
  \/ ClaimAccepted \/ SubmitHash \/ VerificationEnds \/ LoadCondition
  \/ \E f \in Flows :
       \/ Load(f) \/ LoadEnds(f) \/ LoadFails(f)
       \/ (\E act \in Actions : Execute(f, act)) \/ Check(f)
       \/ Sign(f) \/ MineMine(f) \/ Receipt(f)

DashboardSpec == DashboardInit /\ [][DashboardNext]_dashboardVars

(***************************************************************************)
(* Properties.                                                             *)
(***************************************************************************)
\* Details that nothing on the chain has overtaken.
UpToDate(detail) ==
  LET fresh == Fresh(scenario.role) IN detail \in {fresh, [fresh EXCEPT !.timeline = {}]}

(* Every button of an up-to-date page is a call that the contract accepts  *)
(* from this participant: actionsFor and the filters of the page agree     *)
(* with the modifiers and requires of the contract.                        *)
OfferedIsAccepted ==
  UpToDate(page.detail) =>
    \A act \in Displayed(scenario.role, page.detail) : ENABLED Call(act, Me)

(* An escrow that was used through the application only is never left with *)
(* money that no page offers to move: some participant has a button, or    *)
(* the verifier still has to settle it.                                    *)
SomebodyCanGoOn ==
  ~scenario.outside =>
    \/ esc[E].state = "Cancelled"
    \/ esc[E].state \in Terminal /\ esc[E].balance = 0
    \/ \E role \in Roles : Displayed(role, Fresh(role)) # {}
    \/ ExternalOnly /\ esc[E].state = "AwaitingDelivery" /\ esc[E].verifiedClaimId = Zero

(* However the calls of a reading fall between blocks, no event is shown   *)
(* that the rest of the page does not know of yet.                         *)
TimelineIsNotAhead ==
  LET shown == page.detail IN
    Loaded(shown) =>
      /\ "Deposited" \in shown.timeline => shown.state # "AwaitingPayment"
      /\ "WithdrawalCredited" \in shown.timeline => shown.state \in Terminal
      /\ {"VerifiedConditionSettled", "VerifiedConditionRecorded"} \cap shown.timeline # {}
           => shown.claim # Zero

(* The path of states that the page shows was really gone through, in this *)
(* order (no state comes back); before payment the code's path also names  *)
(* AwaitingDelivery.                                                       *)
PathHappened ==
  LET path == LifecyclePath(page.detail)
      state(n) == log[n].escrow.state
  IN Loaded(page.detail) /\ page.detail.state # "AwaitingPayment" =>
       \A i, j \in DOMAIN path : i < j =>
         \E m, n \in DOMAIN log : m < n /\ state(m) = path[i] /\ state(n) = path[j]

(* The page tells the seller that the payment is unlocked, and that it was *)
(* credited, only when the escrow has been settled for the seller.         *)
UnlockedIsSettled ==
  LET shown == page.detail IN
    Loaded(shown) =>
      /\ PaymentStatus(scenario.role, shown, page.verification)
           \in {"Unlocked", "Unlocked - withdrawal available"} => esc[E].state = "Complete"
      /\ (\/ SettlementStep(shown, page.verification) = "Seller credited"
          \/ SettlementStatus(shown, page.verification) = "Credited by escrow"
          \/ {"unlocked", "withdrawable"} \cap StepsDone(shown, page.verification) # {})
         => esc[E].state = "Complete"

UnlockedLabel == "Verified on-chain / Payment unlocked"

\* The page of a participant who read the escrow at block n.
PageAt(role, n) ==
  [state |-> log[n].escrow.state, claim |-> log[n].escrow.verifiedClaimId,
   credit |-> log[n].escrow.withdrawals[Wallet(role)], timeline |-> EventsTo(n)]

(* List and pages, each read at a block of its own: what the earlier says  *)
(* of an unlocked payment, the later does not take back.                   *)
UnlockedStaysSo ==
  \A m \in DOMAIN log :
    /\ DiscoveryStatus(Item(m)) = UnlockedLabel
         \/ DiscoveryVerification(Item(m)) = "Payment unlocked"
       => \A n \in m..Len(log), role \in Roles : PaymentStatus(role, PageAt(role, n), db)
            \in {"Unlocked", "Unlocked - withdrawal available", "Withdrawn"}
    /\ \A role \in Roles :
         DisplayStatus(PageAt(role, m), db) = UnlockedLabel
           \/ PaymentStatus(role, PageAt(role, m), db) = "Unlocked"
         => \A n \in m..Len(log) : DiscoveryVerification(Item(n)) = "Payment unlocked"

\* Nobody is asked by the list to act where the page offers no action, or the
\* other way round.  The exception is a dispute opened, with other software, in
\* an escrow that is settled by its condition alone.
ListAsksForOffered ==
  LET asks(role) == DiscoveryAction(role, Item(Len(log)))
      offers(role) == Displayed(role, Fresh(role))
  IN /\ asks("buyer") = "Fund Contract" <=> "deposit" \in offers("buyer")
     /\ \/ asks("arbitrator") = "Review Dispute" <=> "resolveRefund" \in offers("arbitrator")
        \/ scenario.outside /\ ExternalOnly /\ offers("arbitrator") = {}
     /\ \A role \in Roles :
          asks(role) = "View History" => offers(role) \subseteq {"withdraw"}

(* The public list and the pages of the participants do not contradict     *)
(* each other: about payment when they were read at different blocks, and  *)
(* about who is to act when they were read at the same.                    *)
PagesAgree == UnlockedStaysSo /\ ListAsksForOffered
=============================================================================
