---------------------- MODULE AgreementDashboardProofs ----------------------
(***************************************************************************)
(* Proofs about the page of an agreement, for any escrows, roles, claims   *)
(* and number of blocks, with calls of other software or without.          *)
(***************************************************************************)
EXTENDS AgreementDashboard, VeyronisEscrowProofs

(***************************************************************************)
(* The types.                                                              *)
(***************************************************************************)
Emitted == UNION {Emits[act] : act \in Actions}

EventNames == Emitted \cup
  {"VerifiedConditionSettled", "VerifiedConditionRecorded", "VerifiedClaimAccepted"}

Verifications ==
  [status : {"none", "verification_in_progress", "verification_failed", "verified"},
   claim : ClaimIds \cup {Zero},
   code : FailureCodes \cup {"none"}]

DetailRecords ==
  [state : States \cup {NoCode}, claim : ClaimIds \cup {Zero}, credit : Nat,
   timeline : SUBSET EventNames]

Statuses ==
  {"IDLE", "AWAITING_WALLET_SIGNATURE", "CONFIRMING", "RECONCILING", "COMPLETE",
   "AWAITING_RECONCILIATION", "FAILED"}

FlowRecords ==
  [pc : {"idle", "checking", "signing", "pending", "mined", "reverted", "reconciling",
         "snapshot"},
   action : Actions \cup {"none"}, block : Nat]

(* The state has the values the code gives it.                             *)
DashboardTypeOK ==
  /\ scenario \in Scenarios
  /\ log \in Seq([events : SUBSET EventNames, escrow : EscrowRecord])
  /\ db \in Verifications
  /\ page \in [detail : DetailRecords, verification : Verifications]
  /\ status \in Statuses
  /\ flow \in [Flows -> FlowRecords]

(***************************************************************************)
(* The invariant: the log is a history of the escrow, and what the page    *)
(* knows is from it.                                                       *)
(***************************************************************************)
\* The states that an escrow in state s may still go through, s among them.
LaterStates(s) ==
  CASE s = "AwaitingPayment" -> States
    [] s = "AwaitingDelivery" -> States \ {"AwaitingPayment", "Cancelled"}
    [] s = "RefundRequested" -> {"RefundRequested", "Disputed", "Complete", "Refunded"}
    [] s = "Disputed" -> {"Disputed", "Complete", "Refunded"}
    [] OTHER -> {s}

Later(r, q) ==
  /\ q.state \in LaterStates(r.state)
  /\ r.verifiedClaimId # Zero \/ r.state \in Terminal => q.verifiedClaimId = r.verifiedClaimId

\* What a block's events say of the escrow after it.
BlockOK(b) ==
  /\ b.escrow.state # NoCode
  /\ "Deposited" \in b.events => b.escrow.state # "AwaitingPayment"
  /\ "WithdrawalCredited" \in b.events => b.escrow.state \in Terminal
  /\ {"VerifiedConditionSettled", "VerifiedConditionRecorded"} \cap b.events # {}
       => b.escrow.verifiedClaimId # Zero
  /\ "RefundRequested" \in b.events => b.escrow.state = "RefundRequested"
  /\ "DisputeOpened" \in b.events => b.escrow.state = "Disputed"

Blocks == 1..Len(log)

Reached(s) == \E n \in Blocks : log[n].escrow.state = s

LogOK ==
  /\ log # <<>>
  /\ log[Len(log)].escrow = esc[E]
  /\ \A i \in Blocks : BlockOK(log[i])
  /\ \A i, j \in Blocks : i <= j => Later(log[i].escrow, log[j].escrow)
  /\ Reached("AwaitingPayment")
  /\ esc[E].state \notin {"AwaitingPayment", "Cancelled"} => Reached("AwaitingDelivery")
  /\ \A n \in Blocks : log[n].escrow.state = "Complete" =>
       \E i \in 1..n : "WithdrawalCredited" \in log[i].events

\* A claim accepted for an agreement without work evidence has settled it; such
\* an agreement gets no refund or dispute through the application.
DirectOK ==
  ExternalOnly =>
    /\ esc[E].verifiedClaimId # Zero => esc[E].state = "Complete"
    /\ ~scenario.outside =>
         esc[E].state \in {"AwaitingPayment", "AwaitingDelivery", "Cancelled", "Complete"}

DbOK ==
  /\ db.status = "verified" => db.claim = Claim /\ esc[E].verifiedClaimId = Claim
  /\ db.status = "verification_failed" => db.code \in FailureCodes
  /\ db.status # "none" => External

ReadingOK == \A f \in Flows : Reading(f) => flow[f].block \in Blocks

DetailOK(detail) ==
  Loaded(detail) =>
    /\ Reached(detail.state)
    /\ \E n \in Blocks : log[n].escrow.verifiedClaimId = detail.claim
    /\ \A event \in detail.timeline : \E n \in Blocks : event \in log[n].events

PageOK ==
  /\ DetailOK(page.detail)
  /\ TimelineIsNotAhead
  /\ page.verification.status = "verified" => page.verification.claim = Claim
  /\ page.verification.status = "verification_failed" => page.verification.code \in FailureCodes

\* The condition's own page has no other button.
WalletOK ==
  ExternalOnly => \A f \in Flows : flow[f].action \in {"none", "deposit", "withdraw"}

DashboardInv ==
  /\ IInv /\ frames = <<>> /\ DashboardTypeOK
  /\ LogOK /\ DirectOK /\ DbOK /\ ReadingOK /\ PageOK /\ WalletOK

(***************************************************************************)
(* The agreement of the page.                                              *)
(***************************************************************************)
LEMMA PageFacts ==
  ASSUME scenario \in Scenarios
  PROVE  /\ E \in Escrows
         /\ scenario.role \in Roles
         /\ \A role \in Roles : Wallet(role) \in Accounts
         /\ Me \in Accounts
         /\ directConditionSettlement[E] <=> ExternalOnly
         /\ ExternalOnly => External
         /\ ConstructorAccepts(E)
         /\ requiredAmount[E] \in Values
         /\ Claim \in ClaimIds /\ Claim # Zero
  <1>1. E \in Escrows /\ scenario.role \in Roles
    BY ScenarioAssumption DEF E, Roles
  <1>2. ConstructorAccepts(E) /\ requiredAmount[E] \in Values
    BY <1>1, DashboardAssumption
  <1>3. {buyer[E], seller[E], arbitrator[E]} \subseteq Accounts
    BY <1>1, <1>2, AddressAssumption DEF ConstructorAccepts
  <1>4. \A role \in Roles : Wallet(role) \in Accounts
    BY <1>3 DEF Roles, Wallet
  <1>5. Me \in Accounts
    BY <1>1, <1>4 DEF Me
  <1>6. directConditionSettlement[E] <=> ExternalOnly
    BY <1>1, LifecycleAssumption DEF ExternalOnly
  <1>7. ExternalOnly => External
    BY DEF ExternalOnly, External
  <1>8. Claim \in ClaimIds /\ Claim # Zero
    BY DashboardAssumption DEF Claim
  <1> QED BY <1>1, <1>2, <1>4, <1>5, <1>6, <1>7, <1>8

(* The order of an escrow's states.                                        *)
LEMMA StateOrder ==
  ASSUME NEW r \in States
  PROVE  /\ r \in LaterStates(r)
         /\ LaterStates(r) \subseteq States
         /\ \A s \in LaterStates(r) : LaterStates(s) \subseteq LaterStates(r)
         /\ \A s \in LaterStates(r) : r \in LaterStates(s) => r = s
         /\ r \in Terminal => LaterStates(r) = {r}
  <1> USE DEF States, LaterStates, Terminal
  <1>1. CASE r = "AwaitingPayment" BY <1>1
  <1>2. CASE r = "AwaitingDelivery" BY <1>2
  <1>3. CASE r = "RefundRequested" BY <1>3
  <1>4. CASE r = "Disputed" BY <1>4
  <1>5. CASE r \in {"Complete", "Refunded", "Cancelled"} BY <1>5
  <1> QED BY <1>1, <1>2, <1>3, <1>4, <1>5

LEMMA LaterOrder ==
  ASSUME NEW r \in EscrowRecord, NEW q \in EscrowRecord, NEW s \in EscrowRecord,
         r.state # NoCode, Later(r, q), Later(q, s)
  PROVE  Later(r, r) /\ Later(r, s)
  <1>1. r.state \in States
    BY DEF EscrowRecord
  <1>2. s.state \in LaterStates(r.state) /\ r.state \in LaterStates(r.state)
    BY <1>1, StateOrder DEF Later
  <1>3. r.state \in Terminal => q.state = r.state
    BY DEF Later, LaterStates, Terminal
  <1> QED BY <1>2, <1>3 DEF Later

(***************************************************************************)
(* The calls.                                                              *)
(***************************************************************************)
\* The states before and after a call.
Moves(act, s, t) ==
  \/ act = "deposit" /\ s = "AwaitingPayment" /\ t = "AwaitingDelivery"
  \/ act = "cancel" /\ s = "AwaitingPayment" /\ t = "Cancelled"
  \/ act = "confirmDelivery" /\ s = "AwaitingDelivery" /\ t = "Complete"
  \/ act = "requestRefund" /\ s = "AwaitingDelivery" /\ t = "RefundRequested"
  \/ act = "approveRefund" /\ s = "RefundRequested" /\ t = "Refunded"
  \/ act = "openDispute" /\ s \in {"AwaitingDelivery", "RefundRequested"} /\ t = "Disputed"
  \/ act = "resolveRelease" /\ s = "Disputed" /\ t = "Complete"
  \/ act = "resolveRefund" /\ s = "Disputed" /\ t = "Refunded"
  \/ act = "withdraw" /\ t = s

LEMMA CallIsPartyCall ==
  ASSUME E \in Escrows, requiredAmount[E] \in Values, NEW act,
         NEW sender \in Accounts, Call(act, sender)
  PROVE  PartyCall(E)
  BY DEF Call, PartyCall

LEMMA SettleEffect ==
  ASSUME NEW e \in Escrows, esc \in [Escrows -> EscrowRecord], NEW final,
         NEW recipient, Settle(e, final, recipient)
  PROVE  /\ esc'[e].state = final
         /\ esc'[e].verifiedClaimId = esc[e].verifiedClaimId
         /\ frames' = frames
  <1>1. esc'[e] = Credit([esc[e] EXCEPT !.state = final], recipient) /\ frames' = frames
    BY DEF Settle
  <1>2. esc[e] \in EscrowRecord
    OBVIOUS
  <1> QED BY <1>1, <1>2 DEF Credit, EscrowRecord

LEMMA CallEffect ==
  ASSUME E \in Escrows, esc \in [Escrows -> EscrowRecord], NEW act, NEW sender,
         Call(act, sender)
  PROVE  /\ Moves(act, esc[E].state, esc'[E].state)
         /\ esc'[E].verifiedClaimId = esc[E].verifiedClaimId
         /\ act = "confirmDelivery" => ~directConditionSettlement[E]
         /\ frames' = frames
         /\ act \in Actions
  <1> DEFINE e == E
  <1>e. e \in Escrows /\ e = E /\ esc[e] \in EscrowRecord
    OBVIOUS
  <1> HIDE DEF e
  <1>1. CASE act = "deposit" /\ Deposit(e, sender, requiredAmount[e])
    BY <1>1, <1>e DEF Deposit, Moves, EscrowRecord, Actions, Emits
  <1>2. CASE act = "cancel" /\ Cancel(e, sender)
    BY <1>2, <1>e DEF Cancel, Moves, EscrowRecord, Actions, Emits
  <1>3. CASE act = "confirmDelivery" /\ ConfirmDelivery(e, sender)
    BY <1>3, <1>e, SettleEffect DEF ConfirmDelivery, Moves, Actions, Emits
  <1>4. CASE act = "requestRefund" /\ \E v \in Evidence : RequestRefund(e, sender, v)
    BY <1>4, <1>e DEF RequestRefund, Moves, EscrowRecord, Actions, Emits
  <1>5. CASE act = "approveRefund" /\ ApproveRefund(e, sender)
    BY <1>5, <1>e, SettleEffect DEF ApproveRefund, Moves, Actions, Emits
  <1>6. CASE act = "openDispute" /\ \E v \in Evidence : OpenDispute(e, sender, v)
    BY <1>6, <1>e DEF OpenDispute, Moves, EscrowRecord, Actions, Emits
  <1>7. CASE act = "resolveRelease" /\ ResolveDispute(e, sender, "ReleaseToSeller")
    BY <1>7, <1>e, SettleEffect DEF ResolveDispute, Moves, Actions, Emits
  <1>8. CASE act = "resolveRefund" /\ ResolveDispute(e, sender, "RefundBuyer")
    BY <1>8, <1>e, SettleEffect DEF ResolveDispute, Moves, Actions, Emits
  <1>9. CASE act = "withdraw" /\ WithdrawToWallet(e, sender)
    BY <1>9, <1>e DEF WithdrawToWallet, PaidOut, Moves, EscrowRecord, Actions, Emits
  <1> QED BY <1>e, <1>1, <1>2, <1>3, <1>4, <1>5, <1>6, <1>7, <1>8, <1>9 DEF Call

\* The claim is accepted: it settles the agreement, or is recorded.
Accepts(events, r, q) ==
  /\ r.state = "AwaitingDelivery" /\ r.verifiedClaimId = Zero
  /\ q.verifiedClaimId = Claim
  /\ \/ /\ ExternalOnly /\ q.state = "Complete"
        /\ events = {"VerifiedConditionSettled", "WithdrawalCredited", "VerifiedClaimAccepted"}
     \/ /\ ~ExternalOnly /\ q.state = "AwaitingDelivery"
        /\ events = {"VerifiedConditionRecorded", "VerifiedClaimAccepted"}

LEMMA ClaimEffect ==
  ASSUME scenario \in Scenarios, esc \in [Escrows -> EscrowRecord], frames = <<>>,
         ClaimAccepted
  PROVE  /\ RegistryCall(E)
         /\ frames' = frames
         /\ \E events : Mined(events) /\ Accepts(events, esc[E], esc'[E])
  <1> DEFINE e == E
  <1>1. /\ e \in Escrows /\ e = E /\ esc[e] \in EscrowRecord
        /\ directConditionSettlement[e] <=> ExternalOnly
        /\ Claim \in ClaimIds /\ Claim # Zero
    BY PageFacts
  <1> HIDE DEF e
  <1>2. PICK v \in Evidence :
          \/ SettleVerifiedCondition(e, evidenceRegistry[e], Claim, v)
               /\ Mined({"VerifiedConditionSettled", "WithdrawalCredited", "VerifiedClaimAccepted"})
          \/ RecordVerifiedCondition(e, evidenceRegistry[e], Claim, v)
               /\ Mined({"VerifiedConditionRecorded", "VerifiedClaimAccepted"})
    BY <1>1 DEF ClaimAccepted
  <1>3. RegistryCall(e)
    BY <1>1, <1>2 DEF RegistryCall
  <1>4. CASE SettleVerifiedCondition(e, evidenceRegistry[e], Claim, v)
             /\ Mined({"VerifiedConditionSettled", "WithdrawalCredited", "VerifiedClaimAccepted"})
    <2>1. /\ esc[e].state = "AwaitingDelivery" /\ esc[e].verifiedClaimId = Zero
          /\ directConditionSettlement[e] /\ frames' = frames
          /\ esc' = [esc EXCEPT ![e] =
                       Credit([esc[e] EXCEPT !.activeEvidenceCommitment = v,
                                             !.verifiedClaimId = Claim,
                                             !.state = "Complete"],
                              seller[e])]
      BY <1>4 DEF SettleVerifiedCondition
    <2>2. esc'[e].state = "Complete" /\ esc'[e].verifiedClaimId = Claim
      BY <1>1, <2>1 DEF Credit, EscrowRecord
    <2>3. Accepts({"VerifiedConditionSettled", "WithdrawalCredited", "VerifiedClaimAccepted"},
                  esc[e], esc'[e])
      BY <1>1, <2>1, <2>2 DEF Accepts
    <2> QED BY <1>1, <1>3, <1>4, <2>1, <2>3
  <1>5. CASE RecordVerifiedCondition(e, evidenceRegistry[e], Claim, v)
             /\ Mined({"VerifiedConditionRecorded", "VerifiedClaimAccepted"})
    <2>1. /\ esc[e].state = "AwaitingDelivery" /\ esc[e].verifiedClaimId = Zero
          /\ ~directConditionSettlement[e] /\ frames' = frames
          /\ esc' = [esc EXCEPT ![e].verifiedClaimId = Claim]
      BY <1>5 DEF RecordVerifiedCondition
    <2>2. esc'[e].state = "AwaitingDelivery" /\ esc'[e].verifiedClaimId = Claim
      BY <1>1, <2>1 DEF EscrowRecord
    <2>3. Accepts({"VerifiedConditionRecorded", "VerifiedClaimAccepted"}, esc[e], esc'[e])
      BY <1>1, <2>1, <2>2 DEF Accepts
    <2> QED BY <1>1, <1>3, <1>5, <2>1, <2>3
  <1> QED BY <1>2, <1>4, <1>5

(***************************************************************************)
(* A step of the system is one of these.                                   *)
(***************************************************************************)
\* Somebody's call, the page's own among them.
CallStep(act) ==
  /\ \E sender \in Accounts : Call(act, sender)
  /\ Mined(Emits[act])
  /\ \/ scenario.outside
     \/ \E f \in Flows : act = flow[f].action
     \/ \E amount : \E role \in Roles : act \in ActionsFor(role, esc[E].state, amount)
  /\ UNCHANGED <<scenario, db, page, status>>
  /\ UNCHANGED flow \/ \E f \in Flows : flow[f].pc = "pending" /\ Goes(f, "mined")

ClaimStep == ClaimAccepted /\ UNCHANGED <<scenario, db, page, status, flow>>

\* Nothing happens on the chain.
PageStep ==
  /\ UNCHANGED <<chainVars, scenario>>
  /\ \/ SubmitHash \/ VerificationEnds \/ LoadCondition
     \/ \E f \in Flows :
          \/ Load(f) \/ LoadEnds(f) \/ LoadFails(f)
          \/ (\E act \in Actions : Execute(f, act)) \/ Check(f)
          \/ Sign(f) \/ MineMine(f) \/ Receipt(f)
     \/ UNCHANGED dashboardVars

LEMMA DashboardSteps ==
  ASSUME scenario \in Scenarios, [DashboardNext]_dashboardVars
  PROVE  (\E act \in Actions : CallStep(act)) \/ ClaimStep \/ PageStep
  <1>1. ASSUME NEW role \in Roles, NEW act \in Actions, OthersCall(role, act)
        PROVE  CallStep(act)
    <2>1. Wallet(role) \in Accounts
      BY PageFacts
    <2> QED BY <1>1, <2>1 DEF OthersCall, CallStep
  <1>2. CASE ClaimAccepted
    BY <1>2 DEF ClaimStep, ClaimAccepted
  <1>3. ASSUME NEW f \in Flows, MineMine(f)
        PROVE  (\E act \in Actions : CallStep(act)) \/ PageStep
    <2>1. \/ /\ Call(flow[f].action, Me) /\ Mined(Emits[flow[f].action])
             /\ flow[f].pc = "pending" /\ Goes(f, "mined")
             /\ UNCHANGED <<scenario, db, page, status>>
          \/ UNCHANGED <<chainVars, scenario>>
      BY <1>3 DEF MineMine
    <2>2. Call(flow[f].action, Me) => flow[f].action \in Actions
      BY DEF Call, Actions, Emits
    <2>3. Me \in Accounts
      BY PageFacts
    <2>4. ASSUME Call(flow[f].action, Me), Mined(Emits[flow[f].action]),
                 flow[f].pc = "pending", Goes(f, "mined"),
                 UNCHANGED <<scenario, db, page, status>>
          PROVE  CallStep(flow[f].action)
      BY <2>3, <2>4 DEF CallStep
    <2> QED BY <1>3, <2>1, <2>2, <2>4 DEF PageStep
  <1>4. CASE UNCHANGED dashboardVars
    BY <1>4 DEF PageStep, dashboardVars, chainVars, vars
  <1>5. ASSUME NEW f \in Flows, NEW act \in Actions, Execute(f, act)
        PROVE  PageStep
    BY <1>5 DEF PageStep, Execute
  <1>6. CASE SubmitHash \/ VerificationEnds \/ LoadCondition
    BY <1>6 DEF PageStep, SubmitHash, VerificationEnds, LoadCondition
  <1>7. ASSUME NEW f \in Flows, Load(f) \/ LoadEnds(f) \/ LoadFails(f)
        PROVE  PageStep
    BY <1>7 DEF PageStep, Load, LoadEnds, LoadFails
  <1>8. ASSUME NEW f \in Flows, Check(f) \/ Sign(f) \/ Receipt(f)
        PROVE  PageStep
    BY <1>8 DEF PageStep, Check, Sign, Receipt
  <1> QED BY <1>1, <1>2, <1>3, <1>4, <1>5, <1>6, <1>7, <1>8 DEF DashboardNext

(***************************************************************************)
(* The log.                                                                *)
(***************************************************************************)
LogGrows == Blocks \subseteq Blocks' /\ \A n \in Blocks : log'[n] = log[n]

LogTyped == log \in Seq([events : SUBSET EventNames, escrow : EscrowRecord])

\* A step of the escrow that the log may record with these events.
Recorded(events) ==
  /\ events \in SUBSET EventNames
  /\ Mined(events)
  /\ esc'[E] \in EscrowRecord
  /\ BlockOK([events |-> events, escrow |-> esc'[E]])
  /\ Later(esc[E], esc'[E])
  /\ \/ esc'[E].state \in {"AwaitingPayment", "Cancelled", "AwaitingDelivery"}
     \/ esc[E].state \notin {"AwaitingPayment", "Cancelled"}
  /\ esc'[E].state = "Complete" =>
       esc[E].state = "Complete" \/ "WithdrawalCredited" \in events

LEMMA LastBlock ==
  ASSUME LogTyped, LogOK
  PROVE  /\ Len(log) \in Nat \ {0} /\ Len(log) \in Blocks
         /\ \A n \in Blocks :
              /\ log[n].escrow \in EscrowRecord /\ log[n].events \in SUBSET EventNames
              /\ log[n].escrow.state \in States
              /\ Later(log[n].escrow, esc[E])
         /\ esc[E] \in EscrowRecord /\ esc[E].state \in States
  <1>1. Len(log) \in Nat \ {0}
    BY DEF LogTyped, LogOK
  <1>2. Len(log) \in Blocks /\ \A n \in Blocks : n <= Len(log)
    BY <1>1 DEF Blocks
  <1>3. ASSUME NEW n \in Blocks
        PROVE  /\ log[n].escrow \in EscrowRecord /\ log[n].events \in SUBSET EventNames
               /\ log[n].escrow.state \in States
               /\ Later(log[n].escrow, esc[E])
    <2>1. log[n] \in [events : SUBSET EventNames, escrow : EscrowRecord]
      BY ElementOfSeq DEF LogTyped, Blocks
    <2>2. log[n].escrow \in EscrowRecord /\ log[n].events \in SUBSET EventNames
      BY <2>1
    <2>3. log[n].escrow.state \in States
      BY <2>2 DEF EscrowRecord, LogOK, BlockOK
    <2>4. Later(log[n].escrow, log[Len(log)].escrow)
      BY <1>2 DEF LogOK
    <2> QED BY <2>2, <2>3, <2>4 DEF LogOK
  <1>4. esc[E] = log[Len(log)].escrow
    BY DEF LogOK
  <1> QED BY <1>1, <1>2, <1>3, <1>4

LEMMA AppendBlock ==
  ASSUME LogTyped, LogOK, scenario' = scenario, NEW events, Recorded(events)
  PROVE  LogTyped' /\ LogOK' /\ LogGrows
  <1> DEFINE n == Len(log)
             block == [events |-> events, escrow |-> esc'[E]]
             old(i) == log[i].escrow
  <1>1. E' = E
    BY DEF E
  <1>2. /\ block \in [events : SUBSET EventNames, escrow : EscrowRecord]
        /\ block.escrow = esc'[E] /\ block.events = events
        /\ BlockOK(block)
    BY DEF Recorded
  <1>3. log' = Append(log, block)
    BY <1>1 DEF Recorded, Mined
  <1> HIDE DEF block
  <1>4. /\ log' \in Seq([events : SUBSET EventNames, escrow : EscrowRecord])
        /\ Len(log') = n + 1 /\ n \in Nat \ {0}
        /\ \A i \in 1..n : log'[i] = log[i]
        /\ log'[n + 1] = block
    BY <1>2, <1>3, LastBlock DEF LogTyped
  <1>5. /\ Blocks = 1..n /\ Blocks' = 1..(n + 1)
        /\ \A i \in 1..(n + 1) : i \in 1..n \/ i = n + 1
        /\ 1..n \subseteq 1..(n + 1) /\ n + 1 \in 1..(n + 1)
    BY <1>4 DEF Blocks
  <1>6. /\ LogGrows
        /\ \A i \in Blocks : i \in Blocks' /\ log'[i] = log[i]
        /\ \A i \in Blocks' : i \in Blocks \/ log'[i] = block
        /\ n + 1 \in Blocks' /\ log'[n + 1] = block
    BY <1>4, <1>5 DEF LogGrows
  <1>7. log'[Len(log')].escrow = esc'[E'] /\ log' # <<>>
    BY <1>1, <1>2, <1>4
  <1>8. \A i \in Blocks' : BlockOK(log'[i])
    BY <1>2, <1>6 DEF LogOK
  <1>9. ASSUME NEW i \in Blocks', NEW j \in Blocks', i <= j
        PROVE  Later(log'[i].escrow, log'[j].escrow)
    <2>1. CASE j \in Blocks
      <3>1. i \in Blocks
        BY <1>4, <1>5, <1>9, <2>1
      <3>2. Later(log[i].escrow, log[j].escrow)
        BY <1>9, <2>1, <3>1 DEF LogOK
      <3> QED BY <1>6, <2>1, <3>1, <3>2
    <2>2. CASE i \in Blocks /\ log'[j] = block
      <3>1. /\ log[i].escrow \in EscrowRecord /\ log[i].escrow.state # NoCode
            /\ esc[E] \in EscrowRecord
            /\ Later(log[i].escrow, esc[E])
        BY <2>2, LastBlock DEF States, NoCode
      <3>2. esc'[E] \in EscrowRecord /\ Later(esc[E], esc'[E])
        BY DEF Recorded
      <3>3. Later(log[i].escrow, esc'[E])
        BY <3>1, <3>2, LaterOrder
      <3> QED BY <1>2, <1>6, <2>2, <3>3
    <2>3. CASE log'[i] = block /\ log'[j] = block
      <3>1. block.escrow \in EscrowRecord /\ block.escrow.state \in States
        BY <1>2 DEF BlockOK, EscrowRecord
      <3>2. Later(block.escrow, block.escrow)
        BY <3>1, StateOrder DEF Later
      <3> QED BY <2>3, <3>2
    <2>4. CASE i \notin Blocks /\ j \in Blocks
      BY <1>4, <1>5, <1>9, <2>4
    <2> QED BY <1>6, <2>1, <2>2, <2>3
  <1>10. ASSUME NEW s, Reached(s)
         PROVE  \E i \in Blocks' : log'[i].escrow.state = s
    BY <1>6, <1>10 DEF Reached
  <1>11. \E i \in Blocks' : log'[i].escrow.state = "AwaitingPayment"
    BY <1>10 DEF LogOK
  <1>12. ASSUME esc'[E].state \notin {"AwaitingPayment", "Cancelled"}
         PROVE  \E i \in Blocks' : log'[i].escrow.state = "AwaitingDelivery"
    <2>1. CASE esc'[E].state = "AwaitingDelivery"
      BY <1>2, <1>6, <2>1
    <2>2. CASE esc[E].state \notin {"AwaitingPayment", "Cancelled"}
      BY <1>10, <2>2 DEF LogOK
    <2> QED BY <1>12, <2>1, <2>2 DEF Recorded
  <1>13. ASSUME NEW j \in Blocks', log'[j].escrow.state = "Complete"
         PROVE  \E i \in 1..j : "WithdrawalCredited" \in log'[i].events
    <2>1. CASE j \in Blocks
      <3>1. PICK i \in 1..j : "WithdrawalCredited" \in log[i].events
        BY <1>6, <1>13, <2>1 DEF LogOK
      <3>2. i \in Blocks
        BY <1>4, <1>5, <2>1, <3>1
      <3> QED BY <1>6, <3>1, <3>2
    <2>2. CASE j \notin Blocks
      <3>1. j = n + 1 /\ log'[j] = block
        BY <1>5, <1>6, <2>2
      <3>2. CASE "WithdrawalCredited" \in events
        <4>1. j \in 1..j
          BY <1>4, <3>1
        <4> QED BY <1>2, <3>1, <3>2, <4>1
      <3>3. CASE esc[E].state = "Complete"
        <4>1. log[n].escrow.state = "Complete" /\ n \in Blocks
          BY <1>4, <1>5, <3>3 DEF LogOK
        <4>2. PICK i \in 1..n : "WithdrawalCredited" \in log[i].events
          BY <4>1 DEF LogOK
        <4>3. i \in Blocks /\ i \in 1..j
          BY <1>4, <1>5, <3>1, <4>2
        <4> QED BY <1>6, <4>2, <4>3
      <3> QED BY <1>2, <1>13, <3>1, <3>2, <3>3 DEF Recorded
    <2> QED BY <2>1, <2>2
  <1>14. LogOK'
    BY <1>1, <1>7, <1>8, <1>9, <1>11, <1>12, <1>13 DEF LogOK, Reached, BlockOK
  <1> QED BY <1>4, <1>6, <1>14 DEF LogTyped

(***************************************************************************)
(* The steps on the chain.                                                 *)
(***************************************************************************)
LEMMA MovesOK ==
  ASSUME NEW act \in Actions, NEW s \in States, NEW t, Moves(act, s, t)
  PROVE  /\ t \in LaterStates(s)
         /\ Emits[act] \in SUBSET EventNames
         /\ "Deposited" \in Emits[act] => t # "AwaitingPayment"
         /\ "WithdrawalCredited" \in Emits[act] => t \in Terminal
         /\ {"VerifiedConditionSettled", "VerifiedConditionRecorded"} \cap Emits[act] = {}
         /\ "RefundRequested" \in Emits[act] => t = "RefundRequested"
         /\ "DisputeOpened" \in Emits[act] => t = "Disputed"
         /\ t \in {"AwaitingPayment", "Cancelled", "AwaitingDelivery"}
              \/ s \notin {"AwaitingPayment", "Cancelled"}
         /\ t = "Complete" => s = "Complete" \/ "WithdrawalCredited" \in Emits[act]
  <1>1. Emits[act] \in SUBSET EventNames
    BY DEF EventNames, Emitted
  <1>2. t \in LaterStates(s)
    BY DEF Moves, LaterStates, States
  <1> QED BY <1>1, <1>2 DEF Moves, Emits, Actions, Terminal, States

LEMMA DirectActions ==
  ASSUME ExternalOnly, NEW role, NEW state, NEW amount
  PROVE  ActionsFor(role, state, amount) \subseteq {"deposit", "cancel", "withdraw"}
  BY DEF ActionsFor

LEMMA CallRecorded ==
  ASSUME DashboardInv, NEW act \in Actions, CallStep(act)
  PROVE  /\ PartyCall(E) /\ frames' = frames
         /\ esc'[E].verifiedClaimId = esc[E].verifiedClaimId
         /\ Recorded(Emits[act])
         /\ DirectOK'
  <1> DEFINE r == esc[E]
             q == esc'[E]
  <1>1. /\ scenario \in Scenarios /\ E \in Escrows /\ requiredAmount[E] \in Values
        /\ esc \in [Escrows -> EscrowRecord]
        /\ E' = E /\ (ExternalOnly' <=> ExternalOnly)
        /\ directConditionSettlement[E] <=> ExternalOnly
    <2>1. scenario \in Scenarios /\ scenario' = scenario
      BY DEF DashboardInv, DashboardTypeOK, CallStep
    <2>2. E' = E /\ (ExternalOnly' <=> ExternalOnly)
      BY <2>1 DEF E, ExternalOnly
    <2>3. esc \in [Escrows -> EscrowRecord]
      BY DEF DashboardInv, IInv, TypeOK
    <2> QED BY <2>1, <2>2, <2>3, PageFacts
  <1>2. PICK sender \in Accounts : Call(act, sender)
    BY DEF CallStep
  <1>3. PartyCall(E)
    BY <1>1, <1>2, CallIsPartyCall
  <1>4. /\ Moves(act, r.state, q.state)
        /\ q.verifiedClaimId = r.verifiedClaimId
        /\ act = "confirmDelivery" => ~directConditionSettlement[E]
        /\ frames' = frames
    BY <1>1, <1>2, CallEffect
  <1>5. q \in EscrowRecord
    <2>1. esc' \in [Escrows -> EscrowRecord]
      BY <1>1, <1>3, CallEvolves DEF DashboardInv, StepEvolves
    <2> QED BY <1>1, <2>1
  <1>6. r.state \in States
    BY LastBlock DEF DashboardInv, DashboardTypeOK, LogTyped
  <1>7. q.state \in LaterStates(r.state) /\ q.state \in States
    BY <1>4, <1>6, MovesOK, StateOrder
  <1>8. Recorded(Emits[act])
    <2>1. BlockOK([events |-> Emits[act], escrow |-> q])
      BY <1>4, <1>6, <1>7, MovesOK DEF BlockOK, States, NoCode
    <2>2. Later(r, q)
      BY <1>4, <1>7 DEF Later
    <2>3. Mined(Emits[act])
      BY DEF CallStep
    <2> QED BY <1>4, <1>5, <1>6, <2>1, <2>2, <2>3, MovesOK DEF Recorded
  <1>9. DirectOK'
    <2> SUFFICES ASSUME ExternalOnly
                 PROVE  /\ q.verifiedClaimId # Zero => q.state = "Complete"
                        /\ ~scenario'.outside =>
                             q.state \in {"AwaitingPayment", "AwaitingDelivery", "Cancelled",
                                          "Complete"}
      BY <1>1 DEF DirectOK
    <2>1. scenario' = scenario /\ DirectOK /\ WalletOK
      BY DEF DashboardInv, CallStep
    <2>2. q.verifiedClaimId # Zero => q.state = "Complete"
      BY <1>4, <1>6, <1>7, <2>1, StateOrder DEF DirectOK, Terminal
    <2>3. ASSUME ~scenario.outside
          PROVE  q.state \in {"AwaitingPayment", "AwaitingDelivery", "Cancelled", "Complete"}
      <3>1. act \in {"deposit", "cancel", "withdraw"}
        <4>1. \/ \E f \in Flows : act = flow[f].action
              \/ \E amount : \E role \in Roles : act \in ActionsFor(role, r.state, amount)
          BY <2>3 DEF CallStep
        <4>2. CASE \E f \in Flows : act = flow[f].action
          BY <2>1, <4>2 DEF WalletOK, Actions, Emits
        <4> QED BY <4>1, <4>2, DirectActions
      <3>2. r.state \in {"AwaitingPayment", "AwaitingDelivery", "Cancelled", "Complete"}
        BY <2>1, <2>3 DEF DirectOK
      <3> QED BY <1>4, <3>1, <3>2 DEF Moves
    <2> QED BY <2>1, <2>2, <2>3
  <1> QED BY <1>3, <1>4, <1>8, <1>9

LEMMA ClaimRecorded ==
  ASSUME DashboardInv, ClaimStep
  PROVE  /\ RegistryCall(E) /\ frames' = frames
         /\ \E events : Recorded(events)
         /\ DirectOK'
  <1> DEFINE r == esc[E]
             q == esc'[E]
  <1>1. /\ scenario \in Scenarios /\ E \in Escrows
        /\ esc \in [Escrows -> EscrowRecord]
        /\ scenario' = scenario /\ E' = E /\ (ExternalOnly' <=> ExternalOnly)
        /\ Claim # Zero
    <2>1. scenario \in Scenarios /\ scenario' = scenario
      BY DEF DashboardInv, DashboardTypeOK, ClaimStep
    <2>2. E' = E /\ (ExternalOnly' <=> ExternalOnly)
      BY <2>1 DEF E, ExternalOnly
    <2>3. esc \in [Escrows -> EscrowRecord]
      BY DEF DashboardInv, IInv, TypeOK
    <2> QED BY <2>1, <2>2, <2>3, PageFacts
  <1>2. RegistryCall(E) /\ frames' = frames
    BY <1>1, ClaimEffect DEF DashboardInv, ClaimStep
  <1>3. PICK events : Mined(events) /\ Accepts(events, r, q)
    BY <1>1, ClaimEffect DEF DashboardInv, ClaimStep
  <1>4. q \in EscrowRecord
    <2>1. esc' \in [Escrows -> EscrowRecord]
      BY <1>1, <1>2, CallEvolves DEF DashboardInv, StepEvolves
    <2> QED BY <1>1, <2>1
  <1>5. Recorded(events)
    <2>1. events \in SUBSET EventNames
      <3>1. "confirmDelivery" \in Actions /\ "WithdrawalCredited" \in Emits["confirmDelivery"]
        BY DEF Actions, Emits
      <3>2. "WithdrawalCredited" \in EventNames
        BY <3>1 DEF EventNames, Emitted
      <3>3. {"VerifiedConditionSettled", "VerifiedConditionRecorded", "VerifiedClaimAccepted"}
              \subseteq EventNames
        BY DEF EventNames
      <3>4. events \subseteq {"VerifiedConditionSettled", "VerifiedConditionRecorded",
                             "VerifiedClaimAccepted", "WithdrawalCredited"}
        BY <1>3 DEF Accepts
      <3> QED BY <3>2, <3>3, <3>4
    <2>2. BlockOK([events |-> events, escrow |-> q])
      BY <1>1, <1>3 DEF Accepts, BlockOK, Terminal, NoCode
    <2>3. Later(r, q)
      BY <1>3 DEF Accepts, Later, LaterStates, States, Terminal
    <2>4. r.state = "AwaitingDelivery"
      BY <1>3 DEF Accepts
    <2>5. q.state = "Complete" => "WithdrawalCredited" \in events
      BY <1>3 DEF Accepts
    <2> QED BY <1>3, <1>4, <2>1, <2>2, <2>3, <2>4, <2>5 DEF Recorded
  <1>6. ExternalOnly => q.state = "Complete"
    BY <1>3 DEF Accepts
  <1> QED BY <1>1, <1>2, <1>5, <1>6 DEF DirectOK

\* A flow goes on to another step of the same action.
LEMMA FlowGoes ==
  ASSUME flow \in [Flows -> FlowRecords], NEW f \in Flows,
         NEW pc \in {"signing", "pending", "mined", "reverted"}, Goes(f, pc)
  PROVE  /\ flow' \in [Flows -> FlowRecords]
         /\ \A g \in Flows : flow'[g].action = flow[g].action /\ flow'[g].block = flow[g].block
         /\ \A g \in Flows \ {f} : flow'[g] = flow[g]
         /\ flow'[f].pc = pc
  <1>1. [flow[f] EXCEPT !.pc = pc] \in FlowRecords
    BY DEF FlowRecords
  <1>2. /\ [flow[f] EXCEPT !.pc = pc].action = flow[f].action
        /\ [flow[f] EXCEPT !.pc = pc].block = flow[f].block
        /\ [flow[f] EXCEPT !.pc = pc].pc = pc
    BY DEF FlowRecords
  <1>3. flow' = [flow EXCEPT ![f] = [flow[f] EXCEPT !.pc = pc]]
    BY DEF Goes
  <1> QED BY <1>1, <1>2, <1>3

(* A block more changes nothing of what the page knows.                    *)
LEMMA BlockKeeps ==
  ASSUME DashboardInv, DirectOK', NEW events, Recorded(events),
         UNCHANGED <<scenario, db, page, status, frames>>,
         UNCHANGED flow \/ \E f \in Flows : flow[f].pc = "pending" /\ Goes(f, "mined"),
         PartyCall(E) \/ RegistryCall(E)
  PROVE  DashboardInv'
  <1>1. /\ scenario \in Scenarios /\ E \in Escrows /\ E' = E
        /\ (ExternalOnly' <=> ExternalOnly) /\ (External' <=> External) /\ Claim # Zero
    <2>1. scenario \in Scenarios /\ scenario' = scenario
      BY DEF DashboardInv, DashboardTypeOK
    <2>2. E' = E /\ (ExternalOnly' <=> ExternalOnly) /\ (External' <=> External)
      BY <2>1 DEF E, ExternalOnly, External
    <2> QED BY <2>1, <2>2, PageFacts
  <1>2. IInv' /\ frames' = <<>>
    <2>1. [Next]_vars
      BY <1>1 DEF Next
    <2> QED BY <2>1, NextIInv DEF DashboardInv
  <1>3. LogTyped' /\ LogOK' /\ LogGrows
    BY AppendBlock DEF DashboardInv, DashboardTypeOK, LogTyped
  <1>4. DashboardTypeOK'
    <2>1. flow' \in [Flows -> FlowRecords]
      BY FlowGoes DEF DashboardInv, DashboardTypeOK
    <2> QED BY <1>3, <2>1 DEF DashboardInv, DashboardTypeOK, LogTyped
  <1>5. DbOK'
    <2>1. esc[E].verifiedClaimId = Claim => esc'[E].verifiedClaimId = Claim
      BY <1>1 DEF Recorded, Later
    <2> QED BY <1>1, <2>1 DEF DashboardInv, DbOK
  <1>6. ReadingOK'
    <2>1. \A f \in Flows : flow'[f].block = flow[f].block /\ (Reading(f)' => Reading(f))
      BY FlowGoes DEF DashboardInv, DashboardTypeOK, Reading
    <2> QED BY <1>3, <2>1 DEF DashboardInv, ReadingOK, LogGrows
  <1>7. PageOK'
    <2>1. DetailOK(page.detail)'
      <3>1. \A s : Reached(s) => Reached(s)'
        BY <1>3 DEF LogGrows, Reached
      <3> QED BY <1>3, <3>1 DEF DashboardInv, PageOK, DetailOK, LogGrows, Loaded, Reached
    <2>2. TimelineIsNotAhead'
      BY DEF DashboardInv, PageOK, TimelineIsNotAhead, Loaded
    <2> QED BY <2>1, <2>2 DEF DashboardInv, PageOK
  <1>8. WalletOK'
    <2>1. \A f \in Flows : flow'[f].action = flow[f].action
      BY FlowGoes DEF DashboardInv, DashboardTypeOK
    <2> QED BY <1>1, <2>1 DEF DashboardInv, WalletOK
  <1> QED BY <1>2, <1>3, <1>4, <1>5, <1>6, <1>7, <1>8 DEF DashboardInv

(***************************************************************************)
(* The steps of the page and its backend.                                  *)
(***************************************************************************)
\* However its calls fall between blocks, a reading shows what was on the chain,
\* and no event that it does not know the effect of.
LEMMA DetailsOK ==
  ASSUME DashboardInv, NEW f \in Flows, Reading(f), NEW detail \in Details(f)
  PROVE  /\ detail \in DetailRecords
         /\ DetailOK(detail)
         /\ "Deposited" \in detail.timeline => detail.state # "AwaitingPayment"
         /\ "WithdrawalCredited" \in detail.timeline => detail.state \in Terminal
         /\ {"VerifiedConditionSettled", "VerifiedConditionRecorded"} \cap detail.timeline # {}
              => detail.claim # Zero
  <1> DEFINE b == flow[f].block
  <1>1. /\ LogTyped /\ LogOK /\ b \in Blocks /\ Me \in Accounts
        /\ Len(log) \in Nat /\ Blocks = 1..Len(log)
    BY PageFacts, LastBlock DEF DashboardInv, DashboardTypeOK, LogTyped, ReadingOK, Blocks
  <1> HIDE DEF b
  <1>2. PICK s \in SnapshotSince(b) :
          detail = [state |-> s.state, claim |-> s.claim, credit |-> s.credit,
                    timeline |-> IF flow[f].pc = "reconciling" THEN EventsTo(b) ELSE {}]
    BY DEF Details, b
  <1>3. /\ \E i \in b..Len(log) : s.state = log[i].escrow.state
        /\ \E i \in b..Len(log) : s.claim = log[i].escrow.verifiedClaimId
        /\ \E i \in b..Len(log) : s.credit = log[i].escrow.withdrawals[Me]
    BY DEF SnapshotSince
  <1>4. /\ detail.state = s.state /\ detail.claim = s.claim /\ detail.credit = s.credit
        /\ detail.timeline \subseteq EventsTo(b)
    BY <1>2
  <1>5. PICK i \in b..Len(log) : detail.state = log[i].escrow.state
    BY <1>3, <1>4
  <1>6. PICK j \in b..Len(log) : detail.claim = log[j].escrow.verifiedClaimId
    BY <1>3, <1>4
  <1>7. PICK k \in b..Len(log) : detail.credit = log[k].escrow.withdrawals[Me]
    BY <1>3, <1>4
  <1>8. i \in Blocks /\ j \in Blocks /\ k \in Blocks
    BY <1>1
  <1>9. ASSUME NEW event \in detail.timeline
        PROVE  \E n \in Blocks : /\ event \in log[n].events
                                 /\ n <= i /\ n <= j
    <2>1. PICK n \in 1..b : event \in log[n].events
      BY <1>4 DEF EventsTo
    <2> QED BY <1>1, <1>8, <2>1
  <1>10. detail \in DetailRecords
    <2>1. /\ log[i].escrow \in EscrowRecord /\ log[j].escrow \in EscrowRecord
          /\ log[k].escrow \in EscrowRecord
      BY <1>1, <1>8, LastBlock
    <2>2. detail.state \in States \cup {NoCode} /\ detail.claim \in ClaimIds \cup {Zero}
      BY <1>5, <1>6, <2>1 DEF EscrowRecord
    <2>3. detail.credit \in Nat
      BY <1>1, <1>7, <2>1 DEF EscrowRecord
    <2>4. detail.timeline \in SUBSET EventNames
      <3>1. \A n \in Blocks : log[n].events \in SUBSET EventNames
        BY <1>1, LastBlock
      <3> QED BY <1>9, <3>1
    <2>5. detail = [state |-> detail.state, claim |-> detail.claim, credit |-> detail.credit,
                    timeline |-> detail.timeline]
      BY <1>2
    <2> QED BY <2>2, <2>3, <2>4, <2>5 DEF DetailRecords
  <1>11. DetailOK(detail)
    BY <1>5, <1>6, <1>8, <1>9 DEF DetailOK, Reached
  <1>12. ASSUME NEW n \in Blocks
         PROVE  /\ BlockOK(log[n])
                /\ log[n].escrow.state \in States
                /\ log[i].escrow.state \in States
                /\ n <= i => Later(log[n].escrow, log[i].escrow)
                /\ n <= j => Later(log[n].escrow, log[j].escrow)
    BY <1>1, <1>8, LastBlock DEF LogOK
  <1>13. ASSUME "Deposited" \in detail.timeline
         PROVE  detail.state # "AwaitingPayment"
    <2>1. PICK n \in Blocks : "Deposited" \in log[n].events /\ n <= i
      BY <1>9, <1>13
    <2>2. log[n].escrow.state # "AwaitingPayment"
      BY <1>12, <2>1 DEF BlockOK
    <2>3. detail.state \in LaterStates(log[n].escrow.state)
      BY <1>5, <1>12, <2>1 DEF Later
    <2> QED BY <1>12, <2>2, <2>3 DEF LaterStates, States
  <1>14. ASSUME "WithdrawalCredited" \in detail.timeline
         PROVE  detail.state \in Terminal
    <2>1. PICK n \in Blocks : "WithdrawalCredited" \in log[n].events /\ n <= i
      BY <1>9, <1>14
    <2>2. log[n].escrow.state \in Terminal
      BY <1>12, <2>1 DEF BlockOK
    <2>3. detail.state \in LaterStates(log[n].escrow.state)
      BY <1>5, <1>12, <2>1 DEF Later
    <2> QED BY <1>12, <2>2, <2>3, StateOrder
  <1>15. ASSUME NEW event \in {"VerifiedConditionSettled", "VerifiedConditionRecorded"},
                event \in detail.timeline
         PROVE  detail.claim # Zero
    <2>1. PICK n \in Blocks : event \in log[n].events /\ n <= j
      BY <1>9, <1>15
    <2>2. log[n].escrow.verifiedClaimId # Zero
      BY <1>12, <1>15, <2>1 DEF BlockOK
    <2>3. log[j].escrow.verifiedClaimId = log[n].escrow.verifiedClaimId
      BY <1>12, <2>1, <2>2 DEF Later
    <2> QED BY <1>6, <2>2, <2>3
  <1> QED BY <1>10, <1>11, <1>13, <1>14, <1>15

\* What a step off the chain leaves as it is.
OffChain == UNCHANGED <<esc, frames, log, scenario>>

LEMMA OffChainKeeps ==
  ASSUME DashboardInv, OffChain
  PROVE  /\ IInv' /\ frames' = <<>> /\ LogOK' /\ DirectOK' /\ LogTyped'
         /\ Blocks' = Blocks /\ E' = E /\ (ExternalOnly' <=> ExternalOnly)
         /\ External' <=> External
         /\ scenario' \in Scenarios
         /\ UNCHANGED db => DbOK'
         /\ UNCHANGED page => PageOK'
         /\ UNCHANGED flow => ReadingOK' /\ WalletOK'
  <1>1. /\ E' = E /\ (ExternalOnly' <=> ExternalOnly) /\ (External' <=> External)
        /\ Blocks' = Blocks
    BY DEF OffChain, E, ExternalOnly, External, Blocks
  <1>2. IInv' /\ frames' = <<>>
    BY NextIInv DEF DashboardInv, OffChain, vars
  <1>3. LogOK' /\ LogTyped'
    BY <1>1 DEF DashboardInv, DashboardTypeOK, LogOK, LogTyped, OffChain, Reached, BlockOK
  <1>4. DirectOK'
    BY <1>1 DEF DashboardInv, DirectOK, OffChain
  <1>5. UNCHANGED db => DbOK'
    BY <1>1 DEF DashboardInv, DbOK, OffChain
  <1>6. UNCHANGED flow => ReadingOK'
    BY <1>1 DEF DashboardInv, ReadingOK, Reading
  <1>7. ASSUME UNCHANGED page
        PROVE  PageOK'
    <2>1. DetailOK(page.detail)'
      BY <1>1, <1>7 DEF DashboardInv, PageOK, DetailOK, OffChain, Loaded, Reached
    <2>2. TimelineIsNotAhead'
      BY <1>7 DEF DashboardInv, PageOK, TimelineIsNotAhead, Loaded
    <2> QED BY <1>7, <2>1, <2>2 DEF DashboardInv, PageOK
  <1>8. UNCHANGED flow => WalletOK'
    BY <1>1 DEF DashboardInv, WalletOK
  <1>9. scenario' \in Scenarios
    BY DEF DashboardInv, DashboardTypeOK, OffChain
  <1> QED BY <1>1, <1>2, <1>3, <1>4, <1>5, <1>6, <1>7, <1>8, <1>9

\* What a flow may become, off the chain.
LEMMA FlowKeeps ==
  ASSUME DashboardInv, OffChain, NEW f \in Flows,
         \/ Ends(f)
         \/ \E pc \in {"signing", "pending", "reverted"} : Goes(f, pc)
         \/ \E pc \in {"reconciling", "snapshot"} : StartsReading(f, pc)
         \/ \E act \in Displayed(scenario.role, page.detail) \cap Actions :
              flow[f] = NoFlow /\ flow' = [flow EXCEPT ![f].pc = "checking", ![f].action = act]
  PROVE  flow' \in [Flows -> FlowRecords] /\ ReadingOK' /\ WalletOK'
  <1>1. /\ flow \in [Flows -> FlowRecords] /\ flow[f] \in FlowRecords /\ ReadingOK /\ WalletOK
        /\ Blocks' = Blocks /\ (ExternalOnly' <=> ExternalOnly)
        /\ Len(log) \in Nat /\ Len(log) \in Blocks
    BY OffChainKeeps, LastBlock DEF DashboardInv, DashboardTypeOK, LogTyped
  <1>2. ASSUME NEW r \in FlowRecords, flow' = [flow EXCEPT ![f] = r],
               r.pc \in {"reconciling", "snapshot"} => r.block \in Blocks,
               ExternalOnly => r.action \in {"none", "deposit", "withdraw"}
        PROVE  flow' \in [Flows -> FlowRecords] /\ ReadingOK' /\ WalletOK'
    <2>1. /\ flow' \in [Flows -> FlowRecords] /\ flow'[f] = r
          /\ \A g \in Flows \ {f} : flow'[g] = flow[g]
      BY <1>1, <1>2
    <2> QED BY <1>1, <1>2, <2>1 DEF ReadingOK, Reading, WalletOK
  <1>3. CASE Ends(f)
    <2>1. NoFlow \in FlowRecords /\ NoFlow.pc = "idle" /\ NoFlow.action = "none"
      BY DEF NoFlow, FlowRecords
    <2> QED BY <1>2, <1>3, <2>1 DEF Ends
  <1>4. ASSUME NEW pc \in {"signing", "pending", "reverted"}, Goes(f, pc)
        PROVE  flow' \in [Flows -> FlowRecords] /\ ReadingOK' /\ WalletOK'
    <2>1. /\ flow' \in [Flows -> FlowRecords]
          /\ \A g \in Flows : flow'[g].action = flow[g].action
          /\ \A g \in Flows \ {f} : flow'[g] = flow[g]
          /\ flow'[f].pc = pc
      BY <1>1, <1>4, FlowGoes
    <2> QED BY <1>1, <1>4, <2>1 DEF ReadingOK, Reading, WalletOK
  <1>5. ASSUME NEW pc \in {"reconciling", "snapshot"}, StartsReading(f, pc)
        PROVE  flow' \in [Flows -> FlowRecords] /\ ReadingOK' /\ WalletOK'
    <2> DEFINE r == [flow[f] EXCEPT !.pc = pc, !.block = Len(log)]
    <2>1. flow' = [flow EXCEPT ![f] = r]
      BY <1>5 DEF StartsReading
    <2>2. r \in FlowRecords /\ r.block = Len(log) /\ r.action = flow[f].action
      BY <1>1 DEF FlowRecords
    <2> HIDE DEF r
    <2>3. ExternalOnly => r.action \in {"none", "deposit", "withdraw"}
      BY <1>1, <2>2 DEF WalletOK
    <2> QED BY <1>1, <1>2, <2>1, <2>2, <2>3
  <1>6. ASSUME NEW act \in Displayed(scenario.role, page.detail) \cap Actions,
               flow[f] = NoFlow, flow' = [flow EXCEPT ![f].pc = "checking", ![f].action = act]
        PROVE  flow' \in [Flows -> FlowRecords] /\ ReadingOK' /\ WalletOK'
    <2> DEFINE r == [flow[f] EXCEPT !.pc = "checking", !.action = act]
    <2>1. flow' = [flow EXCEPT ![f] = r]
      BY <1>6
    <2>2. r \in FlowRecords /\ r.pc = "checking" /\ r.action = act
      BY <1>1 DEF FlowRecords
    <2>3. ExternalOnly => act \in {"deposit", "withdraw"}
      BY <1>6 DEF Displayed
    <2> HIDE DEF r
    <2> QED BY <1>2, <2>1, <2>2, <2>3
  <1> QED BY <1>3, <1>4, <1>5, <1>6

LEMMA PageStepKeeps ==
  ASSUME DashboardInv, PageStep
  PROVE  DashboardInv'
  <1>1. OffChain
    BY DEF PageStep, OffChain, chainVars
  <1>2. /\ IInv' /\ frames' = <<>> /\ LogOK' /\ DirectOK' /\ LogTyped'
        /\ Blocks' = Blocks /\ scenario' \in Scenarios
        /\ UNCHANGED db => DbOK'
        /\ UNCHANGED page => PageOK'
        /\ UNCHANGED flow => ReadingOK' /\ WalletOK'
    BY <1>1, OffChainKeeps
  <1>t. /\ db \in Verifications
        /\ page \in [detail : DetailRecords, verification : Verifications]
        /\ status \in Statuses /\ flow \in [Flows -> FlowRecords]
        /\ DbOK /\ PageOK
    BY DEF DashboardInv, DashboardTypeOK
  <1>3. ASSUME db' \in Verifications /\ DbOK',
               page' \in [detail : DetailRecords, verification : Verifications] /\ PageOK',
               status' \in Statuses,
               flow' \in [Flows -> FlowRecords] /\ ReadingOK' /\ WalletOK'
        PROVE  DashboardInv'
    <2>1. DashboardTypeOK'
      BY <1>2, <1>3 DEF DashboardTypeOK, LogTyped
    <2> QED BY <1>2, <1>3, <2>1 DEF DashboardInv
  <1>4. ASSUME NEW f \in Flows, UNCHANGED <<db, page>>, status' \in Statuses,
               \/ Ends(f)
               \/ \E pc \in {"signing", "pending", "reverted"} : Goes(f, pc)
               \/ \E pc \in {"reconciling", "snapshot"} : StartsReading(f, pc)
               \/ \E act \in Displayed(scenario.role, page.detail) \cap Actions :
                    /\ flow[f] = NoFlow
                    /\ flow' = [flow EXCEPT ![f].pc = "checking", ![f].action = act]
        PROVE  DashboardInv'
    <2>1. flow' \in [Flows -> FlowRecords] /\ ReadingOK' /\ WalletOK'
      BY <1>1, <1>4, FlowKeeps
    <2> QED BY <1>2, <1>3, <1>4, <1>t, <2>1
  <1>6. CASE SubmitHash
    <2>1. db' = [status |-> "verification_in_progress", claim |-> Zero, code |-> "none"]
          /\ UNCHANGED <<page, status, flow>>
      BY <1>6 DEF SubmitHash
    <2>2. db' \in Verifications
      BY <2>1 DEF Verifications
    <2>3. DbOK'
      BY <1>1, <1>6, <2>1, OffChainKeeps DEF DbOK, SubmitHash
    <2> QED BY <1>2, <1>3, <1>t, <2>1, <2>2, <2>3
  <1>7. CASE VerificationEnds
    <2>1. UNCHANGED <<page, status, flow>>
      BY <1>7 DEF VerificationEnds
    <2>2. db' \in Verifications /\ DbOK'
      <3>1. /\ Claim \in ClaimIds /\ E' = E /\ esc' = esc
            /\ External' <=> External
        BY <1>1, OffChainKeeps, PageFacts DEF DashboardInv, DashboardTypeOK, OffChain
      <3>4. External
        BY <1>7, <1>t DEF VerificationEnds, DbOK
      <3>2. CASE /\ esc[E].verifiedClaimId = Claim
                 /\ db' = [status |-> "verified", claim |-> Claim, code |-> "none"]
        BY <3>1, <3>2, <3>4 DEF Verifications, DbOK
      <3>3. CASE \E code \in FailureCodes :
                   db' = [status |-> "verification_failed", claim |-> Zero, code |-> code]
        BY <3>1, <3>3, <3>4 DEF Verifications, DbOK
      <3> QED BY <1>7, <3>2, <3>3 DEF VerificationEnds
    <2> QED BY <1>2, <1>3, <1>t, <2>1, <2>2
  <1>8. ASSUME NEW f \in Flows, Load(f)
        PROVE  DashboardInv'
    BY <1>4, <1>8, <1>t DEF Load
  <1>9. ASSUME NEW f \in Flows, LoadEnds(f)
        PROVE  DashboardInv'
    <2>1. PICK detail \in Details(f) :
            /\ page' = [page EXCEPT !.detail = detail]
            /\ status' = IF flow[f].action = "none" THEN status
                         ELSE Reconciled(flow[f].action, detail)
      BY <1>9 DEF LoadEnds
    <2>2. Reading(f) /\ Ends(f) /\ UNCHANGED db
      BY <1>9 DEF LoadEnds
    <2>3. /\ detail \in DetailRecords /\ DetailOK(detail)
          /\ "Deposited" \in detail.timeline => detail.state # "AwaitingPayment"
          /\ "WithdrawalCredited" \in detail.timeline => detail.state \in Terminal
          /\ {"VerifiedConditionSettled", "VerifiedConditionRecorded"} \cap detail.timeline # {}
               => detail.claim # Zero
      BY <2>2, DetailsOK
    <2>4. page'.detail = detail /\ page'.verification = page.verification
          /\ page' \in [detail : DetailRecords, verification : Verifications]
      BY <1>t, <2>1, <2>3
    <2>5. DetailOK(page.detail)'
      BY <1>1, <1>2, <2>3, <2>4 DEF DetailOK, Reached, Loaded, OffChain
    <2>6. TimelineIsNotAhead'
      BY <2>3, <2>4 DEF TimelineIsNotAhead
    <2>7. PageOK'
      BY <1>t, <2>4, <2>5, <2>6 DEF PageOK
    <2>8. status' \in Statuses
      BY <1>t, <2>1 DEF Reconciled, Statuses
    <2>9. flow' \in [Flows -> FlowRecords] /\ ReadingOK' /\ WalletOK'
      BY <1>1, <2>2, FlowKeeps
    <2> QED BY <1>2, <1>3, <1>t, <2>2, <2>4, <2>7, <2>8, <2>9
  <1>10. ASSUME NEW f \in Flows, LoadFails(f)
         PROVE  DashboardInv'
    <2>1. UNCHANGED <<db, page>> /\ status' \in Statuses
      BY <1>10, <1>t DEF LoadFails, Statuses
    <2>2. StartsReading(f, "snapshot") \/ Ends(f)
      BY <1>10 DEF LoadFails
    <2> QED BY <1>4, <2>1, <2>2
  <1>11. CASE LoadCondition
    <2>1. page' = [page EXCEPT !.verification = db] /\ UNCHANGED <<db, status, flow>>
      BY <1>11 DEF LoadCondition
    <2>2. page'.detail = page.detail /\ page'.verification = db
          /\ page' \in [detail : DetailRecords, verification : Verifications]
      BY <1>t, <2>1
    <2>3. DetailOK(page.detail)'
      BY <1>1, <1>2, <1>t, <2>2 DEF PageOK, DetailOK, Reached, Loaded, OffChain
    <2>4. TimelineIsNotAhead'
      BY <1>t, <2>2 DEF PageOK, TimelineIsNotAhead
    <2>5. PageOK'
      BY <1>t, <2>2, <2>3, <2>4 DEF PageOK, DbOK
    <2> QED BY <1>2, <1>3, <1>t, <2>1, <2>2, <2>5
  <1>12. ASSUME NEW f \in Flows, NEW act \in Actions, Execute(f, act)
         PROVE  DashboardInv'
    <2>1. /\ UNCHANGED <<db, page, status>> /\ flow[f] = NoFlow
          /\ act \in Displayed(scenario.role, page.detail)
          /\ flow' = [flow EXCEPT ![f].pc = "checking", ![f].action = act]
      BY <1>12 DEF Execute
    <2> QED BY <1>4, <1>t, <2>1
  <1>13. ASSUME NEW f \in Flows, Check(f) \/ Sign(f)
         PROVE  DashboardInv'
    <2>1. UNCHANGED <<db, page>> /\ status' \in Statuses
      BY <1>13, <1>t DEF Check, Sign, Statuses
    <2>2. Goes(f, "signing") \/ Goes(f, "pending") \/ Ends(f)
      BY <1>13 DEF Check, Sign
    <2> QED BY <1>4, <2>1, <2>2
  <1>14. ASSUME NEW f \in Flows, MineMine(f)
         PROVE  DashboardInv'
    <2>1. UNCHANGED <<db, page, status>>
      BY <1>14 DEF MineMine
    <2>2. CASE Goes(f, "reverted")
      BY <1>4, <1>t, <2>1, <2>2
    <2>3. CASE Mined(Emits[flow[f].action])
      <3>1. log' = Append(log, [events |-> Emits[flow[f].action], escrow |-> esc'[E]])
        BY <2>3 DEF Mined
      <3>2. log' = log
        BY <1>1 DEF OffChain
      <3> QED BY <3>1, <3>2, LastBlock DEF DashboardInv, DashboardTypeOK, LogTyped
    <2> QED BY <1>14, <2>2, <2>3 DEF MineMine
  <1>15. ASSUME NEW f \in Flows, Receipt(f)
         PROVE  DashboardInv'
    <2>1. UNCHANGED <<db, page>> /\ status' \in Statuses
      BY <1>15 DEF Receipt, Statuses
    <2>2. StartsReading(f, "reconciling") \/ Ends(f)
      BY <1>15 DEF Receipt
    <2> QED BY <1>4, <2>1, <2>2
  <1>16. CASE UNCHANGED dashboardVars
    BY <1>2, <1>3, <1>16, <1>t DEF dashboardVars
  <1> QED
    BY <1>6, <1>7, <1>8, <1>9, <1>10, <1>11, <1>12, <1>13, <1>14, <1>15, <1>16
    DEF PageStep

(***************************************************************************)
(* The invariant.                                                          *)
(***************************************************************************)
LEMMA NewRecordOK ==
  ASSUME NEW e \in Escrows
  PROVE  RecordOK(e, [Blank EXCEPT !.state = "AwaitingPayment"])
  <1> DEFINE r == [Blank EXCEPT !.state = "AwaitingPayment"]
  <1>1. /\ r.state = "AwaitingPayment" /\ r.depositedAmount = 0 /\ r.balance = 0
        /\ r.withdrawals = [a \in Accounts |-> 0]
        /\ r \in EscrowRecord
    BY DEF Blank, EscrowRecord, States
  <1>2. ConstructorAccepts(e)
    BY DashboardAssumption
  <1>3. {buyer[e], seller[e]} \subseteq Accounts
    BY <1>2, AddressAssumption DEF ConstructorAccepts
  <1> HIDE DEF r
  <1>4. SolventRecord(e, r)
    BY <1>1, <1>3 DEF SolventRecord, TotalAccountedFunds, NoCode
  <1>5. CreditRecord(e, r) /\ DepositRecord(e, r)
    BY <1>1 DEF CreditRecord, DepositRecord, Holding
  <1>6. RecordOK(e, r)
    BY <1>1, <1>2, <1>4, <1>5 DEF RecordOK
  <1> QED BY <1>6 DEF r

LEMMA DashboardInitInv == DashboardInit => DashboardInv
  <1> SUFFICES ASSUME DashboardInit PROVE DashboardInv
    OBVIOUS
  <1> DEFINE r == [Blank EXCEPT !.state = "AwaitingPayment"]
  <1>1. scenario \in Scenarios /\ E \in Escrows /\ Claim # Zero
    BY PageFacts DEF DashboardInit
  <1>2. /\ r.state = "AwaitingPayment" /\ r.verifiedClaimId = Zero
        /\ r \in EscrowRecord
    BY DEF Blank, EscrowRecord, States
  <1>3. esc = [e \in Escrows |-> r] /\ frames = <<>>
    BY DEF DashboardInit
  <1>4. \A e \in Escrows : RecordOK(e, r)
    BY NewRecordOK
  <1> HIDE DEF r
  <1>5. IInv
    <2>1. TypeOK
      BY <1>2, <1>3 DEF TypeOK
    <2>2. RecordsOK(esc)
      BY <1>3, <1>4 DEF RecordsOK
    <2>3. StackOK
      BY <1>3 DEF StackOK
    <2> QED BY <2>1, <2>2, <2>3 DEF IInv
  <1>6. esc[E] = r
    BY <1>1, <1>3
  <1>7. /\ log = <<[events |-> {}, escrow |-> r]>>
        /\ log \in Seq([events : SUBSET EventNames, escrow : EscrowRecord])
        /\ Len(log) = 1 /\ log # <<>>
        /\ log[1].events = {} /\ log[1].escrow = r
    <2> DEFINE block == [events |-> {}, escrow |-> r]
    <2>1. log = <<block>>
      BY <1>6 DEF DashboardInit
    <2>2. /\ block \in [events : SUBSET EventNames, escrow : EscrowRecord]
          /\ block.events = {} /\ block.escrow = r
      BY <1>2
    <2>3. log = <<[events |-> {}, escrow |-> r]>>
      BY <2>1
    <2> HIDE DEF block
    <2>4. log[1] = block /\ Len(log) = 1 /\ log # <<>>
      BY <2>1
    <2>5. log \in Seq([events : SUBSET EventNames, escrow : EscrowRecord])
      BY <2>1, <2>2
    <2> QED BY <2>2, <2>3, <2>4, <2>5
  <1>8. Blocks = {1}
    BY <1>7 DEF Blocks
  <1>9. LogOK
    <2>1. BlockOK(log[1])
      BY <1>2, <1>7 DEF BlockOK, NoCode
    <2>2. Later(r, r)
      BY <1>2 DEF Later, LaterStates, States
    <2> QED BY <1>2, <1>6, <1>7, <1>8, <2>1, <2>2 DEF LogOK, Reached
  <1>10. DirectOK
    BY <1>2, <1>6 DEF DirectOK
  <1>11. /\ db = NoVerification /\ NoVerification \in Verifications /\ DbOK
    BY DEF DashboardInit, NoVerification, Verifications, DbOK
  <1>12. /\ page = [detail |-> NotLoaded, verification |-> NoVerification]
         /\ NotLoaded \in DetailRecords /\ ~Loaded(NotLoaded)
         /\ NoVerification.status = "none"
    BY DEF DashboardInit, NotLoaded, DetailRecords, Loaded, NoVerification
  <1>13. page \in [detail : DetailRecords, verification : Verifications] /\ PageOK
    BY <1>11, <1>12 DEF PageOK, DetailOK, TimelineIsNotAhead
  <1>14. /\ status \in Statuses /\ flow \in [Flows -> FlowRecords]
         /\ ReadingOK /\ WalletOK
    BY DEF DashboardInit, Statuses, NoFlow, FlowRecords, ReadingOK, Reading, WalletOK
  <1>15. DashboardTypeOK
    BY <1>1, <1>7, <1>11, <1>13, <1>14 DEF DashboardTypeOK
  <1> QED
    BY <1>3, <1>5, <1>9, <1>10, <1>11, <1>13, <1>14, <1>15 DEF DashboardInv

LEMMA DashboardNextInv ==
  DashboardInv /\ [DashboardNext]_dashboardVars => DashboardInv' /\ [Next]_vars
  <1> SUFFICES ASSUME DashboardInv, [DashboardNext]_dashboardVars
               PROVE  DashboardInv' /\ [Next]_vars
    OBVIOUS
  <1>1. scenario \in Scenarios /\ E \in Escrows
    BY PageFacts DEF DashboardInv, DashboardTypeOK
  <1>2. ASSUME NEW act \in Actions, CallStep(act)
        PROVE  DashboardInv' /\ [Next]_vars
    <2>1. /\ PartyCall(E) /\ frames' = frames
          /\ Recorded(Emits[act]) /\ DirectOK'
      BY <1>2, CallRecorded
    <2>2. /\ UNCHANGED <<scenario, db, page, status, frames>>
          /\ \/ UNCHANGED flow
             \/ \E f \in Flows : flow[f].pc = "pending" /\ Goes(f, "mined")
      BY <1>2, <2>1 DEF CallStep
    <2> QED BY <1>1, <2>1, <2>2, BlockKeeps DEF Next
  <1>3. CASE ClaimStep
    <2>1. RegistryCall(E) /\ frames' = frames /\ DirectOK'
      BY <1>3, ClaimRecorded
    <2>2. PICK events : Recorded(events)
      BY <1>3, ClaimRecorded
    <2>3. UNCHANGED <<scenario, db, page, status, flow, frames>>
      BY <1>3, <2>1 DEF ClaimStep
    <2> QED BY <1>1, <2>1, <2>2, <2>3, BlockKeeps DEF Next
  <1>4. CASE PageStep
    BY <1>4, PageStepKeeps DEF PageStep, chainVars, vars
  <1> QED BY <1>1, <1>2, <1>3, <1>4, DashboardSteps

(* The invariant holds in every reachable state.                           *)
LEMMA DashboardInvariance == DashboardSpec => []DashboardInv
  BY DashboardInitInv, DashboardNextInv, PTL DEF DashboardSpec

(* Everything that the page, the backend and the record of the             *)
(* verification hold has the values that the code gives it.                *)
THEOREM DashboardTypeCorrect == DashboardSpec => []DashboardTypeOK
  <1>1. DashboardInv => DashboardTypeOK
    BY DEF DashboardInv
  <1> QED BY <1>1, DashboardInvariance, PTL

(* Whatever the pages, the backend and the verifier do, the chain moves    *)
(* only as the contract lets it: each of their steps is a step of          *)
(* VeyronisEscrow, or leaves the chain as it is.                           *)
THEOREM DashboardActsThroughEscrow == DashboardSpec => [][Next]_vars
  BY DashboardInvariance, DashboardNextInv, PTL DEF DashboardSpec

(***************************************************************************)
(* What the pages say.                                                     *)
(***************************************************************************)
(* The timeline is never ahead of the state, the claim or the credit that  *)
(* the same page shows.                                                    *)
THEOREM TimelineFollowsState == DashboardSpec => []TimelineIsNotAhead
  <1>1. DashboardInv => TimelineIsNotAhead
    BY DEF DashboardInv, PageOK
  <1> QED BY <1>1, DashboardInvariance, PTL

\* States that were gone through, each of them before the next.
Happened(path) ==
  /\ path \in Seq(States) /\ path # <<>>
  /\ \A i \in DOMAIN path : Reached(path[i])
  /\ \A i, j \in DOMAIN path : i < j => path[j] \in LaterStates(path[i]) \ {path[i]}

\* The states that came later than a state in the order of the contract did so
\* on the chain.
LEMMA BlockOrder ==
  ASSUME LogTyped, LogOK, NEW s \in States, NEW t \in LaterStates(s) \ {s},
         Reached(s), Reached(t)
  PROVE  \E m, n \in Blocks : m < n /\ log[m].escrow.state = s /\ log[n].escrow.state = t
  <1>1. PICK m \in Blocks, n \in Blocks : log[m].escrow.state = s /\ log[n].escrow.state = t
    BY DEF Reached
  <1>2. m \in Int /\ n \in Int
    BY DEF Blocks
  <1>3. CASE n <= m
    <2>1. s \in LaterStates(t)
      BY <1>1, <1>3 DEF LogOK, Later
    <2> QED BY <2>1, StateOrder
  <1> QED BY <1>1, <1>2, <1>3

LEMMA PathGrows ==
  ASSUME NEW path, Happened(path), NEW s \in States, Reached(s),
         s \in LaterStates(path[Len(path)]) \ {path[Len(path)]}
  PROVE  Happened(path \o <<s>>)
  <1> DEFINE n == Len(path)
             longer == path \o <<s>>
  <1>1. /\ path \in Seq(States) /\ n \in Nat \ {0} /\ DOMAIN path = 1..n
        /\ \A i \in 1..n : path[i] \in States
    BY DEF Happened
  <1>2. /\ longer \in Seq(States) /\ longer # <<>> /\ Len(longer) = n + 1
        /\ DOMAIN longer = 1..(n + 1)
        /\ \A i \in 1..n : longer[i] = path[i]
        /\ longer[n + 1] = s
    <2>1. <<s>> \in Seq(States) /\ Len(<<s>>) = 1 /\ <<s>>[1] = s
      OBVIOUS
    <2>2. /\ longer \in Seq(States) /\ Len(longer) = n + 1
          /\ \A i \in 1..(n + 1) : longer[i] = IF i <= n THEN path[i] ELSE <<s>>[i - n]
      BY <1>1, <2>1, ConcatProperties
    <2>3. DOMAIN longer = 1..(n + 1)
      BY <2>2, LenProperties
    <2> HIDE DEF longer
    <2>4. longer # <<>>
      BY <1>1, <2>2
    <2>5. \A i \in 1..n : longer[i] = path[i]
      BY <1>1, <2>2
    <2>6. longer[n + 1] = s
      <3>1. n + 1 \in 1..(n + 1) /\ ~(n + 1 <= n) /\ (n + 1) - n = 1
        BY <1>1
      <3> QED BY <2>1, <2>2, <3>1
    <2> QED BY <2>2, <2>3, <2>4, <2>5, <2>6
  <1> HIDE DEF longer
  <1>3. \A i \in 1..(n + 1) : i \in 1..n \/ i = n + 1
    BY <1>1
  <1>4. \A i \in DOMAIN longer : Reached(longer[i])
    BY <1>1, <1>2, <1>3 DEF Happened
  <1>5. ASSUME NEW i \in DOMAIN longer, NEW j \in DOMAIN longer, i < j
        PROVE  longer[j] \in LaterStates(longer[i]) \ {longer[i]}
    <2>1. i \in 1..n
      BY <1>1, <1>2, <1>5
    <2>2. CASE j \in 1..n
      BY <1>1, <1>2, <1>5, <2>1, <2>2 DEF Happened
    <2>3. CASE j = n + 1
      <3>1. path[n] \in LaterStates(path[i]) /\ path[i] \in States /\ path[n] \in States
        <4>1. CASE i = n
          BY <1>1, <2>1, <4>1, StateOrder
        <4>2. CASE i < n
          BY <1>1, <2>1, <4>2 DEF Happened
        <4> QED BY <1>1, <2>1, <4>1, <4>2
      <3>2. s \in LaterStates(path[i])
        BY <3>1, StateOrder
      <3>3. s # path[i]
        BY <3>1, StateOrder
      <3> QED BY <1>2, <2>1, <2>3, <3>2, <3>3
    <2> QED BY <1>2, <1>3, <2>2, <2>3
  <1>6. Happened(longer)
    BY <1>2, <1>4, <1>5 DEF Happened
  <1> QED BY <1>6 DEF longer

\* A path on which s, when it happened, comes next.
LEMMA PathMayGrow ==
  ASSUME NEW path, Happened(path), NEW s \in States, NEW last \in States,
         path[Len(path)] = last, s \in LaterStates(last) \ {last},
         NEW more \in {<<>>, <<s>>}, more = <<s>> => Reached(s)
  PROVE  Happened(path \o more) /\ (path \o more)[Len(path \o more)] \in {last, s}
  <1>1. path \in Seq(States) /\ Len(path) \in Nat
    BY DEF Happened
  <1>2. CASE more = <<s>>
    <2> DEFINE n == Len(path)
               longer == path \o <<s>>
    <2>1. <<s>> \in Seq(States) /\ Len(<<s>>) = 1 /\ <<s>>[1] = s
      OBVIOUS
    <2>2. /\ Len(longer) = n + 1
          /\ \A i \in 1..(n + 1) : longer[i] = IF i <= n THEN path[i] ELSE <<s>>[i - n]
      BY <1>1, <2>1, ConcatProperties
    <2>3. n + 1 \in 1..(n + 1) /\ ~(n + 1 <= n) /\ (n + 1) - n = 1
      BY <1>1
    <2>4. longer[Len(longer)] = s
      BY <2>1, <2>2, <2>3
    <2>5. Happened(longer)
      BY <1>2, PathGrows
    <2> QED BY <1>2, <2>4, <2>5
  <1>3. CASE more = <<>>
    BY <1>1, <1>3, ConcatEmptySeq
  <1> QED BY <1>2, <1>3

LEMMA PathIsHistory ==
  ASSUME DashboardInv, NEW detail \in DetailRecords, Loaded(detail), DetailOK(detail),
         detail.state # "AwaitingPayment"
  PROVE  Happened(LifecyclePath(detail))
  <1> DEFINE s == detail.state
             delivery == <<"AwaitingPayment", "AwaitingDelivery">>
             requested == IF "RefundRequested" \in detail.timeline
                          THEN <<"RefundRequested">> ELSE <<>>
             disputed == IF "DisputeOpened" \in detail.timeline THEN <<"Disputed">> ELSE <<>>
  <1>1. LogTyped /\ LogOK
    BY DEF DashboardInv, DashboardTypeOK, LogTyped
  <1>2. s \in States /\ Reached(s)
    BY DEF DetailRecords, Loaded, DetailOK
  <1>3. esc[E].state \in LaterStates(s)
    BY <1>1, <1>2, LastBlock DEF Reached, Later
  <1>4. Reached("AwaitingPayment") /\ (s # "Cancelled" => Reached("AwaitingDelivery"))
    BY <1>1, <1>2, <1>3 DEF LogOK, LaterStates, States
  <1>5. /\ "RefundRequested" \in detail.timeline => Reached("RefundRequested")
        /\ "DisputeOpened" \in detail.timeline => Reached("Disputed")
    BY <1>1 DEF DetailOK, LogOK, BlockOK, Reached
  <1>r. /\ requested \in {<<>>, <<"RefundRequested">>}
        /\ requested = <<"RefundRequested">> => Reached("RefundRequested")
        /\ disputed \in {<<>>, <<"Disputed">>}
        /\ disputed = <<"Disputed">> => Reached("Disputed")
    BY <1>5
  <1>6. CASE s = "Cancelled"
    <2>1. LifecyclePath(detail) = <<"AwaitingPayment", "Cancelled">>
      BY <1>6 DEF LifecyclePath
    <2>2. Happened(<<"AwaitingPayment", "Cancelled">>)
      BY <1>2, <1>4, <1>6 DEF Happened, LaterStates, States
    <2> QED BY <2>1, <2>2
  <1>7. CASE s # "Cancelled"
    <2>1. Happened(delivery) /\ delivery[Len(delivery)] = "AwaitingDelivery"
      BY <1>4, <1>7 DEF Happened, LaterStates, States
    <2> HIDE DEF delivery, requested, disputed
    <2>e. /\ {"AwaitingDelivery", "RefundRequested", "Disputed"} \subseteq States
          /\ {"RefundRequested", "Disputed"} \subseteq
               LaterStates("AwaitingDelivery") \ {"AwaitingDelivery"}
          /\ "Disputed" \in LaterStates("RefundRequested") \ {"RefundRequested"}
      BY DEF LaterStates, States
    <2>2. /\ Happened(delivery \o requested)
          /\ (delivery \o requested)[Len(delivery \o requested)]
               \in {"AwaitingDelivery", "RefundRequested"}
      BY <1>r, <2>1, <2>e, PathMayGrow
    <2>3. /\ Happened(delivery \o disputed)
          /\ (delivery \o disputed)[Len(delivery \o disputed)]
               \in {"AwaitingDelivery", "Disputed"}
      BY <1>r, <2>1, <2>e, PathMayGrow
    <2>4. /\ Happened(delivery \o requested \o disputed)
          /\ (delivery \o requested \o disputed)[Len(delivery \o requested \o disputed)]
               \in {"AwaitingDelivery", "RefundRequested", "Disputed"}
      <3> DEFINE path == delivery \o requested
      <3>1. /\ Happened(path)
            /\ path[Len(path)] \in {"AwaitingDelivery", "RefundRequested"}
        BY <2>2
      <3> HIDE DEF path
      <3>2. /\ Happened(path \o disputed)
            /\ (path \o disputed)[Len(path \o disputed)] \in {path[Len(path)], "Disputed"}
        BY <1>r, <2>e, <3>1, PathMayGrow
      <3> QED BY <3>1, <3>2 DEF path
    <2>5. ASSUME NEW path, Happened(path),
                 s \in LaterStates(path[Len(path)]) \ {path[Len(path)]}
          PROVE  Happened(path \o <<s>>)
      BY <1>2, <2>5, PathGrows
    <2>6. CASE s = "AwaitingDelivery"
      BY <2>1, <2>6 DEF LifecyclePath, delivery
    <2>7. CASE s = "RefundRequested"
      <3>1. LifecyclePath(detail) = delivery \o <<s>>
        BY <2>7 DEF LifecyclePath, delivery
      <3> QED BY <2>1, <2>5, <2>7, <3>1 DEF LaterStates, States
    <2>8. CASE s = "Disputed"
      <3>1. LifecyclePath(detail) = delivery \o requested \o <<s>>
        BY <2>8 DEF LifecyclePath, delivery, requested
      <3>2. s \in LaterStates((delivery \o requested)[Len(delivery \o requested)])
                  \ {(delivery \o requested)[Len(delivery \o requested)]}
        BY <2>2, <2>8 DEF LaterStates, States
      <3> QED BY <2>2, <2>5, <3>1, <3>2
    <2>9. CASE s = "Refunded"
      <3>1. LifecyclePath(detail) = delivery \o requested \o disputed \o <<s>>
        BY <2>9 DEF LifecyclePath, delivery, requested, disputed
      <3> DEFINE path == delivery \o requested \o disputed
      <3>2. s \in LaterStates(path[Len(path)]) \ {path[Len(path)]}
        BY <2>4, <2>9 DEF LaterStates, States
      <3>3. Happened(path)
        BY <2>4
      <3>4. LifecyclePath(detail) = path \o <<s>>
        BY <3>1
      <3> HIDE DEF path
      <3> QED BY <2>5, <3>2, <3>3, <3>4
    <2>10. CASE s = "Complete"
      <3>1. LifecyclePath(detail) = delivery \o disputed \o <<s>>
        BY <2>10 DEF LifecyclePath, delivery, disputed
      <3>2. s \in LaterStates((delivery \o disputed)[Len(delivery \o disputed)])
                  \ {(delivery \o disputed)[Len(delivery \o disputed)]}
        BY <2>3, <2>10 DEF LaterStates, States
      <3> QED BY <2>3, <2>5, <3>1, <3>2
    <2> QED BY <1>2, <1>7, <2>6, <2>7, <2>8, <2>9, <2>10 DEF States
  <1> QED BY <1>6, <1>7

(* The path of states that the page shows was gone through on the chain,   *)
(* in that order.                                                          *)
THEOREM PathWasTaken == DashboardSpec => []PathHappened
  <1>1. DashboardInv => PathHappened
    <2> SUFFICES ASSUME DashboardInv, Loaded(page.detail),
                        page.detail.state # "AwaitingPayment",
                        NEW i \in DOMAIN LifecyclePath(page.detail),
                        NEW j \in DOMAIN LifecyclePath(page.detail), i < j
                 PROVE  \E m, n \in DOMAIN log :
                          /\ m < n
                          /\ log[m].escrow.state = LifecyclePath(page.detail)[i]
                          /\ log[n].escrow.state = LifecyclePath(page.detail)[j]
      BY DEF PathHappened
    <2> DEFINE path == LifecyclePath(page.detail)
    <2>1. page.detail \in DetailRecords /\ DetailOK(page.detail)
      BY DEF DashboardInv, DashboardTypeOK, PageOK
    <2>2. Happened(path)
      BY <2>1, PathIsHistory
    <2> HIDE DEF path
    <2>3. /\ path[i] \in States /\ Reached(path[i]) /\ Reached(path[j])
          /\ path[j] \in LaterStates(path[i]) \ {path[i]}
      BY <2>2, LenProperties DEF Happened, path
    <2>4. LogTyped /\ LogOK
      BY DEF DashboardInv, DashboardTypeOK, LogTyped
    <2>5. Blocks = DOMAIN log
      BY <2>4, LenProperties DEF LogTyped, Blocks
    <2>6. \E m, n \in Blocks :
            m < n /\ log[m].escrow.state = path[i] /\ log[n].escrow.state = path[j]
      BY <2>3, <2>4, BlockOrder
    <2> QED BY <2>5, <2>6 DEF path
  <1> QED BY <1>1, DashboardInvariance, PTL

(***************************************************************************)
(* What the details that a page shows are worth.                           *)
(***************************************************************************)
LEMMA CompleteIsComplete ==
  ASSUME DashboardInv, NEW detail, Loaded(detail), DetailOK(detail),
         detail.state = "Complete"
  PROVE  esc[E].state = "Complete"
  <1>1. LogTyped /\ LogOK
    BY DEF DashboardInv, DashboardTypeOK, LogTyped
  <1>2. PICK n \in Blocks : log[n].escrow.state = "Complete"
    BY DEF DetailOK, Reached
  <1> QED BY <1>1, <1>2, LastBlock DEF Later, LaterStates

LEMMA VerifiedIsSettled ==
  ASSUME DashboardInv, ExternalOnly, NEW detail, Loaded(detail), DetailOK(detail),
         NEW verification, VerifiedOnChain(detail, verification),
         verification.status = "verified" => verification.claim = Claim
  PROVE  esc[E].state = "Complete"
  <1>1. LogTyped /\ LogOK /\ DirectOK /\ Claim # Zero
    BY PageFacts DEF DashboardInv, DashboardTypeOK, LogTyped
  <1>2. PICK n \in Blocks : log[n].escrow.verifiedClaimId = Claim
    BY DEF DetailOK, VerifiedOnChain
  <1>3. esc[E].verifiedClaimId = Claim
    BY <1>1, <1>2, LastBlock DEF Later
  <1> QED BY <1>1, <1>3 DEF DirectOK

(* A page that says that the payment is unlocked, or credited to the       *)
(* seller, says it of an escrow that was settled for the seller.           *)
THEOREM UnlockedMeansSettled == DashboardSpec => []UnlockedIsSettled
  <1>1. DashboardInv => UnlockedIsSettled
    <2> DEFINE shown == page.detail
               v == page.verification
    <2> SUFFICES ASSUME DashboardInv, Loaded(shown), esc[E].state # "Complete"
                 PROVE  /\ PaymentStatus(scenario.role, shown, v)
                             \notin {"Unlocked", "Unlocked - withdrawal available"}
                        /\ SettlementStep(shown, v) # "Seller credited"
                        /\ SettlementStatus(shown, v) # "Credited by escrow"
                        /\ {"unlocked", "withdrawable"} \cap StepsDone(shown, v) = {}
      BY DEF UnlockedIsSettled
    <2>1. /\ DetailOK(shown) /\ v \in Verifications
          /\ v.status = "verified" => v.claim = Claim
          /\ v.status = "verification_failed" => v.code \in FailureCodes
      BY DEF DashboardInv, DashboardTypeOK, PageOK
    <2> HIDE DEF shown, v
    <2>2. shown.state # "Complete"
      BY <2>1, CompleteIsComplete
    <2>3. ~(ExternalOnly /\ VerifiedOnChain(shown, v))
      BY <2>1, VerifiedIsSettled
    <2>4. ~PaymentUnlocked(shown, v)
      BY <2>2 DEF PaymentUnlocked
    <2>5. ~CanWithdrawFunds("seller", shown.state, shown.credit)
      BY <2>2 DEF CanWithdrawFunds
    <2>6. v.status = "verification_failed" =>
            v.code \notin {"Unlocked", "Unlocked - withdrawal available"}
      BY <2>1, DashboardAssumption
    <2>7. PaymentStatus(scenario.role, shown, v)
            \notin {"Unlocked", "Unlocked - withdrawal available"}
      BY <2>4, <2>5, <2>6 DEF PaymentStatus
    <2>8. SettlementStep(shown, v) # "Seller credited"
      BY <2>3 DEF SettlementStep
    <2>9. SettlementStatus(shown, v) # "Credited by escrow"
      BY <2>4 DEF SettlementStatus
    <2>10. {"unlocked", "withdrawable"} \cap StepsDone(shown, v) = {}
      BY <2>4, <2>5 DEF StepsDone
    <2> QED BY <2>7, <2>8, <2>9, <2>10
  <1> QED BY <1>1, DashboardInvariance, PTL

(***************************************************************************)
(* What pages that are up to date show.                                    *)
(***************************************************************************)
\* A button of the participant's page, now.
LEMMA FreshButton ==
  ASSUME NEW role \in Roles, NEW act, esc[E].state # NoCode,
         act \in ActionsFor(role, esc[E].state, esc[E].withdrawals[Wallet(role)]),
         ExternalOnly => act = "deposit" \/ (act = "withdraw" /\ role = "seller")
  PROVE  Displayed(role, Fresh(role)) # {}
  <1> DEFINE fresh == Fresh(role)
  <1>1. /\ fresh.state = esc[E].state
        /\ fresh.credit = esc[E].withdrawals[Wallet(role)]
    BY DEF Fresh
  <1> HIDE DEF fresh
  <1>2. act \in Displayed(role, fresh)
    BY <1>1 DEF Displayed, Loaded
  <1> QED BY <1>2 DEF fresh

LEMMA SettlementButtons ==
  /\ "confirmDelivery" \in HumanSettlement("buyer", "AwaitingDelivery")
  /\ "openDispute" \in HumanSettlement("buyer", "RefundRequested")
  /\ "resolveRelease" \in HumanSettlement("arbitrator", "Disputed")
  BY DEF HumanSettlement, Settlement

\* Of a decided escrow, the balance is the credit of one of the parties.
LEMMA BalanceIsCredit ==
  ASSUME DashboardInv
  PROVE  LET r == esc[E] IN
         /\ r.state = "Complete" => r.balance = r.withdrawals[seller[E]]
         /\ r.state = "Refunded" => r.balance = r.withdrawals[buyer[E]]
         /\ r.balance \in Nat
  <1> DEFINE r == esc[E]
  <1>1. E \in Escrows /\ ConstructorAccepts(E)
    BY PageFacts DEF DashboardInv, DashboardTypeOK
  <1>2. RecordOK(E, r)
    BY <1>1 DEF DashboardInv, IInv, RecordsOK
  <1>3. {buyer[E], seller[E]} \subseteq Accounts /\ buyer[E] # seller[E]
    BY <1>1, AddressAssumption DEF ConstructorAccepts
  <1> HIDE DEF r
  <1>4. r \in EscrowRecord
    BY <1>2 DEF RecordOK
  <1>5. /\ r.withdrawals[buyer[E]] \in Nat /\ r.withdrawals[seller[E]] \in Nat
        /\ r.balance \in Nat
    BY <1>3, <1>4 DEF EscrowRecord
  <1>6. r.state \in {"Complete", "Refunded"} =>
          r.balance = r.withdrawals[buyer[E]] + r.withdrawals[seller[E]]
    BY <1>2, <1>5 DEF RecordOK, SolventRecord, DepositRecord, TotalAccountedFunds, Holding,
                      NoCode
  <1>7. /\ r.state = "Complete" => r.withdrawals[buyer[E]] = 0
        /\ r.state = "Refunded" => r.withdrawals[seller[E]] = 0
    BY <1>2, <1>3 DEF RecordOK, CreditRecord
  <1>8. /\ r.state = "Complete" => r.balance = r.withdrawals[seller[E]]
        /\ r.state = "Refunded" => r.balance = r.withdrawals[buyer[E]]
    BY <1>5, <1>6, <1>7
  <1> QED BY <1>5, <1>8 DEF r

(* No money stays in an escrow of the application with no page that offers *)
(* to move it.                                                             *)
THEOREM MoneyCanMove == DashboardSpec => []SomebodyCanGoOn
  <1>1. DashboardInv => SomebodyCanGoOn
    <2> DEFINE s == esc[E].state
    <2> SUFFICES ASSUME DashboardInv, ~scenario.outside, s # "Cancelled",
                        s \in Terminal => esc[E].balance # 0,
                        ~(ExternalOnly /\ s = "AwaitingDelivery"
                            /\ esc[E].verifiedClaimId = Zero)
                 PROVE  \E role \in Roles : Displayed(role, Fresh(role)) # {}
      BY DEF SomebodyCanGoOn
    <2>1. s \in States /\ s # NoCode
      BY LastBlock DEF DashboardInv, DashboardTypeOK, LogTyped, States, NoCode
    <2>2. /\ ExternalOnly => s \in {"AwaitingPayment", "Complete"}
      BY DEF DashboardInv, DirectOK
    <2>3. {"buyer", "seller", "arbitrator"} \subseteq Roles
      BY DEF Roles
    <2>4. CASE s = "AwaitingPayment"
      <3>1. "deposit" \in ActionsFor("buyer", s, esc[E].withdrawals[Wallet("buyer")])
        BY <2>4 DEF ActionsFor
      <3> QED BY <2>1, <2>3, <3>1, FreshButton
    <2>5. CASE s \in {"AwaitingDelivery", "RefundRequested", "Disputed"}
      <3>1. ~ExternalOnly
        BY <2>2, <2>5
      <3>2. \A role \in Roles :
              HumanSettlement(role, s) \subseteq
                ActionsFor(role, s, esc[E].withdrawals[Wallet(role)])
        BY <3>1 DEF ActionsFor
      <3>3. \E role \in Roles : \E act : act \in HumanSettlement(role, s)
        BY <2>3, <2>5, SettlementButtons
      <3> QED BY <2>1, <3>1, <3>2, <3>3, FreshButton
    <2>6. CASE s = "Complete"
      <3>1. Wallet("seller") = seller[E]
        BY DEF Wallet
      <3>2. esc[E].withdrawals[Wallet("seller")] > 0
        BY <2>6, <3>1, BalanceIsCredit DEF Terminal
      <3>3. "withdraw" \in ActionsFor("seller", s, esc[E].withdrawals[Wallet("seller")])
        BY <2>6, <3>2 DEF ActionsFor, CanWithdrawFunds
      <3> QED BY <2>1, <2>3, <3>3, FreshButton
    <2>7. CASE s = "Refunded"
      <3>1. Wallet("buyer") = buyer[E]
        BY DEF Wallet
      <3>2. esc[E].withdrawals[Wallet("buyer")] > 0
        BY <2>7, <3>1, BalanceIsCredit DEF Terminal
      <3>3. "withdraw" \in ActionsFor("buyer", s, esc[E].withdrawals[Wallet("buyer")])
        BY <2>7, <3>2 DEF ActionsFor, CanWithdrawFunds
      <3>4. ~ExternalOnly
        BY <2>2, <2>7
      <3> QED BY <2>1, <2>3, <3>3, <3>4, FreshButton
    <2> QED BY <2>1, <2>4, <2>5, <2>6, <2>7 DEF States
  <1> QED BY <1>1, DashboardInvariance, PTL

\* What a list or a page of a block has to do with the escrow of now.
LEMMA BlockFacts ==
  ASSUME DashboardInv, NEW m \in DOMAIN log, NEW n \in m..Len(log)
  PROVE  /\ m \in Blocks /\ n \in Blocks /\ DOMAIN log = Blocks
         /\ log[m].escrow.state \in States /\ log[m].escrow.state # NoCode
         /\ log[m].escrow.state = "Complete" => log[n].escrow.state = "Complete"
         /\ log[m].escrow.state = "Complete" => log[m].escrow.verifiedClaimId = esc[E].verifiedClaimId
         /\ log[m].escrow.state = "Complete" => "WithdrawalCredited" \in EventsTo(m)
  <1>1. LogTyped /\ LogOK
    BY DEF DashboardInv, DashboardTypeOK, LogTyped
  <1>2. DOMAIN log = Blocks /\ Len(log) \in Nat
    BY <1>1 DEF LogTyped, Blocks
  <1>3. m \in Blocks /\ n \in Blocks /\ m <= n
    BY <1>2 DEF Blocks
  <1>4. log[m].escrow.state \in States /\ log[m].escrow.state # NoCode
    BY <1>1, <1>3, LastBlock DEF LogOK, BlockOK
  <1>5. log[m].escrow.state = "Complete" => log[n].escrow.state = "Complete"
    BY <1>1, <1>3 DEF LogOK, Later, LaterStates
  <1>6. log[m].escrow.state = "Complete" => log[m].escrow.verifiedClaimId = esc[E].verifiedClaimId
    BY <1>1, <1>3, LastBlock DEF Later, Terminal
  <1>7. log[m].escrow.state = "Complete" => "WithdrawalCredited" \in EventsTo(m)
    BY <1>1, <1>3 DEF LogOK, EventsTo
  <1> QED BY <1>2, <1>3, <1>4, <1>5, <1>6, <1>7

\* A condition verified, of an agreement whose payment is settled.
LEMMA SettledShows ==
  ASSUME DashboardInv, NEW n \in DOMAIN log, NEW role \in Roles,
         db.status = "verified", log[n].escrow.state = "Complete"
  PROVE  /\ PaymentStatus(role, PageAt(role, n), db)
              \in {"Unlocked", "Unlocked - withdrawal available", "Withdrawn"}
         /\ DiscoveryVerification(Item(n)) = "Payment unlocked"
  <1>1. DbOK /\ External
    BY DEF DashboardInv, DbOK
  <1>2. n \in n..Len(log)
    BY DEF DashboardInv, DashboardTypeOK
  <1> DEFINE detail == PageAt(role, n)
  <1>3. /\ detail.state = "Complete" /\ detail.claim = Claim
        /\ "WithdrawalCredited" \in detail.timeline
    BY <1>1, <1>2, BlockFacts DEF PageAt, DbOK
  <1>4. Item(n).state = "Complete" /\ Item(n).verificationStatus = "verified"
    BY <1>1 DEF Item
  <1> HIDE DEF detail
  <1>5. PaymentUnlocked(detail, db)
    BY <1>1, <1>3 DEF PaymentUnlocked, VerifiedOnChain, DbOK
  <1>6. PaymentStatus(role, detail, db)
          \in {"Unlocked", "Unlocked - withdrawal available", "Withdrawn"}
    BY <1>5 DEF PaymentStatus
  <1>7. DiscoveryVerification(Item(n)) = "Payment unlocked"
    BY <1>1, <1>4 DEF DiscoveryVerification
  <1> QED BY <1>6, <1>7 DEF detail

LEMMA UnlockedIsKept ==
  ASSUME DashboardInv
  PROVE  UnlockedStaysSo
  <1> SUFFICES ASSUME NEW m \in DOMAIN log
               PROVE  /\ DiscoveryStatus(Item(m)) = UnlockedLabel
                           \/ DiscoveryVerification(Item(m)) = "Payment unlocked"
                         => \A n \in m..Len(log), role \in Roles :
                              PaymentStatus(role, PageAt(role, n), db)
                                \in {"Unlocked", "Unlocked - withdrawal available", "Withdrawn"}
                      /\ \A role \in Roles :
                           DisplayStatus(PageAt(role, m), db) = UnlockedLabel
                             \/ PaymentStatus(role, PageAt(role, m), db) = "Unlocked"
                           => \A n \in m..Len(log) :
                                DiscoveryVerification(Item(n)) = "Payment unlocked"
    BY DEF UnlockedStaysSo
  <1>1. db \in Verifications /\ DbOK
    BY DEF DashboardInv, DashboardTypeOK
  <1>2. /\ m \in m..Len(log) /\ Len(log) \in Nat
        /\ \A n \in m..Len(log) : n \in DOMAIN log
    BY DEF DashboardInv, DashboardTypeOK
  <1>3. log[m].escrow.state \in States /\ UnlockedLabel \notin States
    BY <1>2, BlockFacts DEF UnlockedLabel, States
  <1>4. ASSUME DiscoveryStatus(Item(m)) = UnlockedLabel
                 \/ DiscoveryVerification(Item(m)) = "Payment unlocked"
        PROVE  db.status = "verified" /\ log[m].escrow.state = "Complete"
    <2> DEFINE item == Item(m)
    <2>1. /\ item.state = log[m].escrow.state
          /\ item.verificationStatus = IF External /\ db.status # "none" THEN db.status
                                       ELSE "pending"
      BY DEF Item
    <2> HIDE DEF item
    <2>2. item.verificationStatus \in {"pending", "verification_in_progress",
                                       "verification_failed", "verified"}
      BY <1>1, <2>1 DEF Verifications
    <2>3. DiscoveryStatus(item) = UnlockedLabel =>
            item.state = "Complete" /\ item.verificationStatus = "verified"
      BY <1>3, <2>1 DEF DiscoveryStatus, UnlockedLabel
    <2>4. DiscoveryVerification(item) = "Payment unlocked" =>
            item.state = "Complete" /\ item.verificationStatus = "verified"
      BY <2>2 DEF DiscoveryVerification
    <2>5. item.verificationStatus = "verified" => db.status = "verified"
      BY <2>1
    <2>6. DiscoveryStatus(item) = UnlockedLabel
            \/ DiscoveryVerification(item) = "Payment unlocked"
      BY <1>4 DEF item
    <2> QED BY <2>1, <2>3, <2>4, <2>5, <2>6
  <1>5. ASSUME NEW role \in Roles,
               DisplayStatus(PageAt(role, m), db) = UnlockedLabel
                 \/ PaymentStatus(role, PageAt(role, m), db) = "Unlocked"
        PROVE  db.status = "verified" /\ log[m].escrow.state = "Complete"
    <2> DEFINE detail == PageAt(role, m)
    <2>1. detail.state = log[m].escrow.state
      BY DEF PageAt
    <2> HIDE DEF detail
    <2>2. DisplayStatus(detail, db) = UnlockedLabel =>
            detail.state = "Complete" /\ db.status = "verified"
      BY <1>3, <2>1 DEF DisplayStatus, UnlockedLabel
    <2>3. db.status = "verification_failed" => db.code # "Unlocked"
      BY <1>1, DashboardAssumption DEF DbOK
    <2>4. PaymentStatus(role, detail, db) = "Unlocked" => PaymentUnlocked(detail, db)
      BY <2>3 DEF PaymentStatus
    <2>5. PaymentUnlocked(detail, db) => detail.state = "Complete" /\ db.status = "verified"
      BY DEF PaymentUnlocked, VerifiedOnChain
    <2>6. DisplayStatus(detail, db) = UnlockedLabel
            \/ PaymentStatus(role, detail, db) = "Unlocked"
      BY <1>5 DEF detail
    <2> QED BY <2>1, <2>2, <2>4, <2>5, <2>6
  <1>6. ASSUME db.status = "verified", log[m].escrow.state = "Complete",
               NEW n \in m..Len(log), NEW role \in Roles
        PROVE  /\ PaymentStatus(role, PageAt(role, n), db)
                    \in {"Unlocked", "Unlocked - withdrawal available", "Withdrawn"}
               /\ DiscoveryVerification(Item(n)) = "Payment unlocked"
    BY <1>2, <1>6, BlockFacts, SettledShows
  <1>7. "buyer" \in Roles
    BY DEF Roles
  <1> QED BY <1>4, <1>5, <1>6, <1>7

\* Who settles by hand, and when.
LEMMA SettlementTable ==
  ASSUME NEW s
  PROVE  /\ "deposit" \notin HumanSettlement("buyer", s)
         /\ "resolveRefund" \in HumanSettlement("arbitrator", s) <=> s = "Disputed"
         /\ s \in {"Complete", "Refunded", "Cancelled"} =>
              \A role \in {"buyer", "seller", "arbitrator"} : HumanSettlement(role, s) = {}
  <1>1. \A act : act \in HumanSettlement("buyer", s) =>
          act \in {"confirmDelivery", "requestRefund", "openDispute"}
    BY DEF HumanSettlement, Settlement
  <1>2. "resolveRefund" \in HumanSettlement("arbitrator", s) <=> s = "Disputed"
    <2>1. CASE s = "Disputed"
      BY <2>1 DEF HumanSettlement, Settlement
    <2>2. CASE s # "Disputed"
      BY <2>2 DEF HumanSettlement, Settlement
    <2> QED BY <2>1, <2>2
  <1>3. ASSUME s \in {"Complete", "Refunded", "Cancelled"}
        PROVE  \A role \in {"buyer", "seller", "arbitrator"} : HumanSettlement(role, s) = {}
    BY <1>3 DEF HumanSettlement, Settlement
  <1> QED BY <1>1, <1>2, <1>3

LEMMA ListAsksWhatIsOffered ==
  ASSUME DashboardInv
  PROVE  ListAsksForOffered
  <1> DEFINE s == esc[E].state
             credit(role) == esc[E].withdrawals[Wallet(role)]
             item == Item(Len(log))
  <1>1. LogTyped /\ LogOK /\ DirectOK
    BY DEF DashboardInv, DashboardTypeOK, LogTyped
  <1>2. s \in States /\ s # NoCode /\ log[Len(log)].escrow = esc[E]
    BY <1>1, LastBlock DEF LogOK, BlockOK
  <1>3. item.state = s /\ (item.status = "closed" <=> s \in Terminal)
    BY <1>2 DEF Item
  <1>4. ASSUME NEW role \in Roles
        PROVE  Displayed(role, Fresh(role)) =
                 IF ExternalOnly
                 THEN {act \in ActionsFor(role, s, credit(role)) :
                         act = "deposit" \/ (act = "withdraw" /\ role = "seller")}
                 ELSE ActionsFor(role, s, credit(role))
    <2>1. Fresh(role).state = s /\ Fresh(role).credit = credit(role) /\ Loaded(Fresh(role))
      BY <1>2 DEF Fresh, Loaded
    <2> QED BY <2>1 DEF Displayed
  <1> HIDE DEF s, credit, item
  <1>5. DiscoveryAction("buyer", item) = "Fund Contract" <=> "deposit" \in Displayed("buyer", Fresh("buyer"))
    <2>1. DiscoveryAction("buyer", item) = "Fund Contract" <=> s = "AwaitingPayment"
      BY <1>3 DEF DiscoveryAction, Terminal
    <2>2. "deposit" \in ActionsFor("buyer", s, credit("buyer")) <=> s = "AwaitingPayment"
      BY SettlementTable DEF ActionsFor
    <2>3. "buyer" \in Roles
      BY DEF Roles
    <2> QED BY <1>4, <2>1, <2>2, <2>3
  <1>6. \/ DiscoveryAction("arbitrator", item) = "Review Dispute"
             <=> "resolveRefund" \in Displayed("arbitrator", Fresh("arbitrator"))
        \/ scenario.outside /\ ExternalOnly /\ Displayed("arbitrator", Fresh("arbitrator")) = {}
    <2>1. DiscoveryAction("arbitrator", item) = "Review Dispute" <=> s = "Disputed"
      BY <1>3 DEF DiscoveryAction, Terminal
    <2>2. "arbitrator" \in Roles
      BY DEF Roles
    <2>3. CASE ExternalOnly
      <3>1. ActionsFor("arbitrator", s, credit("arbitrator")) = {}
        BY <2>3 DEF ActionsFor, CanWithdrawFunds
      <3>2. Displayed("arbitrator", Fresh("arbitrator")) = {}
        BY <1>4, <2>2, <2>3, <3>1
      <3>3. ~scenario.outside => s # "Disputed"
        BY <1>1, <2>3 DEF DirectOK, s
      <3> QED BY <2>1, <2>3, <3>2, <3>3
    <2>4. CASE ~ExternalOnly
      <3>1. "resolveRefund" \in ActionsFor("arbitrator", s, credit("arbitrator")) <=> s = "Disputed"
        BY <2>4, SettlementTable DEF ActionsFor, CanWithdrawFunds
      <3> QED BY <1>4, <2>1, <2>2, <2>4, <3>1
    <2> QED BY <2>3, <2>4
  <1>7. ASSUME NEW role \in Roles, DiscoveryAction(role, item) = "View History"
        PROVE  Displayed(role, Fresh(role)) \subseteq {"withdraw"}
    <2>1. s \in Terminal
      BY <1>3, <1>7 DEF DiscoveryAction
    <2>2. ActionsFor(role, s, credit(role)) \subseteq {"withdraw"}
      BY <2>1, SettlementTable DEF ActionsFor, Terminal, Roles
    <2> QED BY <1>4, <2>2
  <1> QED BY <1>5, <1>6, <1>7 DEF ListAsksForOffered, item

(* The public list and the participants' pages do not contradict each      *)
(* other: what one of them says of an unlocked payment the other says too, *)
(* when it was read at the same block or a later one, and, read at the     *)
(* same block, the list asks buyer and arbitrator to act exactly when      *)
(* their pages let them, whatever the mode of the agreement.  One case is  *)
(* excepted: a dispute that other software opened in an escrow that its    *)
(* condition alone settles, which the list offers to review and no page.   *)
THEOREM ListAndPagesAgree == DashboardSpec => []PagesAgree
  <1>1. DashboardInv => PagesAgree
    BY UnlockedIsKept, ListAsksWhatIsOffered DEF PagesAgree
  <1> QED BY <1>1, DashboardInvariance, PTL

(***************************************************************************)
(* The buttons and the contract.  What the contract requires of a call by  *)
(* an account, between two transactions, and the escrow after it: v is the *)
(* evidence that a refund request or a dispute names.                      *)
(***************************************************************************)
Requires(act, sender) ==
  LET r == esc[E] IN
  \/ act \in {"deposit", "cancel"} /\ sender = buyer[E] /\ r.state = "AwaitingPayment"
  \/ /\ act = "confirmDelivery" /\ ~directConditionSettlement[E]
     /\ sender = buyer[E] /\ r.state = "AwaitingDelivery"
  \/ act = "requestRefund" /\ sender = buyer[E] /\ r.state = "AwaitingDelivery"
  \/ act = "approveRefund" /\ sender = seller[E] /\ r.state = "RefundRequested"
  \/ /\ act = "openDispute" /\ sender \in {buyer[E], seller[E]}
     /\ r.state \in {"AwaitingDelivery", "RefundRequested"}
  \/ /\ act \in {"resolveRelease", "resolveRefund"}
     /\ sender = arbitrator[E] /\ r.state = "Disputed"
  \/ act = "withdraw" /\ sender \notin Contracts /\ r.withdrawals[sender] # 0

Result(act, sender, v) ==
  LET r == esc[E] IN
  CASE act = "deposit" ->
         [r EXCEPT !.depositedAmount = requiredAmount[E],
                   !.balance = @ + requiredAmount[E], !.state = "AwaitingDelivery"]
    [] act = "cancel" -> [r EXCEPT !.state = "Cancelled"]
    [] act \in {"confirmDelivery", "resolveRelease"} ->
         Credit([r EXCEPT !.state = "Complete"], seller[E])
    [] act \in {"approveRefund", "resolveRefund"} ->
         Credit([r EXCEPT !.state = "Refunded"], buyer[E])
    [] act = "requestRefund" ->
         [r EXCEPT !.state = "RefundRequested", !.activeEvidenceCommitment = v]
    [] act = "openDispute" ->
         [r EXCEPT !.state = "Disputed", !.activeEvidenceCommitment = v]
    [] act = "withdraw" -> PaidOut(r, sender)

(* The contract accepts a call exactly when that is met: it accepts no     *)
(* other call, and the step to the escrow's next record is then the call.  *)
THEOREM CallsNeedOnlyThis ==
  ASSUME E \in Escrows, frames = <<>>, esc[E].locked = 1, NEW act \in Actions,
         NEW sender, NEW v \in Evidence \ {Zero}
  PROVE  /\ Call(act, sender) => Requires(act, sender)
         /\ Requires(act, sender) /\ frames' = frames
              /\ esc' = [esc EXCEPT ![E] = Result(act, sender, v)]
            => Call(act, sender)
  <1> DEFINE e == E
  <1>e. e \in Escrows /\ e = E /\ MayCall(sender)
    BY DEF MayCall
  <1> HIDE DEF e
  <1>1. ASSUME Call(act, sender)
        PROVE  Requires(act, sender)
    BY <1>1, <1>e DEF Call, Requires, Deposit, Cancel, ConfirmDelivery, RequestRefund,
       ApproveRefund, OpenDispute, ResolveDispute, WithdrawToWallet, CanWithdraw
  <1>2. ASSUME Requires(act, sender), frames' = frames,
               esc' = [esc EXCEPT ![e] = Result(act, sender, v)]
        PROVE  Call(act, sender)
    <2> USE <1>e
    <2>1. CASE act = "deposit"
      <3>1. Deposit(e, sender, requiredAmount[e])
        BY <1>2, <2>1 DEF Requires, Result, Deposit
      <3> QED BY <2>1, <3>1 DEF Call
    <2>2. CASE act = "cancel"
      <3>1. Cancel(e, sender)
        BY <1>2, <2>2 DEF Requires, Result, Cancel
      <3> QED BY <2>2, <3>1 DEF Call
    <2>3. CASE act = "confirmDelivery"
      <3>1. ConfirmDelivery(e, sender)
        BY <1>2, <2>3 DEF Requires, Result, ConfirmDelivery, Settle
      <3> QED BY <2>3, <3>1 DEF Call
    <2>4. CASE act = "requestRefund"
      <3>1. RequestRefund(e, sender, v)
        BY <1>2, <2>4 DEF Requires, Result, RequestRefund
      <3> QED BY <2>4, <3>1 DEF Call
    <2>5. CASE act = "approveRefund"
      <3>1. ApproveRefund(e, sender)
        BY <1>2, <2>5 DEF Requires, Result, ApproveRefund, Settle
      <3> QED BY <2>5, <3>1 DEF Call
    <2>6. CASE act = "openDispute"
      <3>1. OpenDispute(e, sender, v)
        BY <1>2, <2>6 DEF Requires, Result, OpenDispute
      <3> QED BY <2>6, <3>1 DEF Call
    <2>7. CASE act = "resolveRelease"
      <3>1. ResolveDispute(e, sender, "ReleaseToSeller")
        BY <1>2, <2>7 DEF Requires, Result, ResolveDispute, Settle
      <3> QED BY <2>7, <3>1 DEF Call
    <2>8. CASE act = "resolveRefund"
      <3>1. ResolveDispute(e, sender, "RefundBuyer")
        BY <1>2, <2>8 DEF Requires, Result, ResolveDispute, Settle
      <3> QED BY <2>8, <3>1 DEF Call
    <2>9. CASE act = "withdraw"
      <3>1. WithdrawToWallet(e, sender)
        BY <1>2, <2>9 DEF Requires, Result, WithdrawToWallet, CanWithdraw
      <3> QED BY <2>9, <3>1 DEF Call
    <2> QED BY <2>1, <2>2, <2>3, <2>4, <2>5, <2>6, <2>7, <2>8, <2>9 DEF Actions, Emits
  <1> QED BY <1>e, <1>1, <1>2

\* Of the page's escrow, every withdrawal is possible.
Unlocked == esc[E].locked = 1

(* No withdrawal from a page leaves the escrow locked.                     *)
LEMMA DashboardUnlocked == DashboardSpec => []Unlocked
  <1>1. DashboardInit => LocksOK
    <2> SUFFICES ASSUME DashboardInit
                 PROVE  LocksOK
      OBVIOUS
    <2>1. frames = <<>> /\ \A d \in Escrows : esc[d].locked = 1
      BY DEF DashboardInit, Blank
    <2> QED BY <2>1 DEF LocksOK, LockedBy
  <1>2. DashboardInv /\ LocksOK /\ [DashboardNext]_dashboardVars => LocksOK'
    BY DashboardNextInv, NextLocks DEF DashboardInv
  <1>3. DashboardInv /\ LocksOK => Unlocked
    BY PageFacts, UnlockedBetween DEF DashboardInv, DashboardTypeOK, Unlocked
  <1> QED BY <1>1, <1>2, <1>3, DashboardInvariance, PTL DEF DashboardSpec

\* The calls that the page of an agreement settled by its condition alone knows.
ByCondition == {"deposit", "cancel", "withdraw"}

\* What each participant without code is offered, if its page shows the escrow
\* as it is.
OffersAreExact ==
  \A role \in Roles :
    LET accepted == {act \in Actions : Requires(act, Wallet(role))} IN
    Wallet(role) \notin Contracts =>
      ActionsFor(role, esc[E].state, esc[E].withdrawals[Wallet(role)])
        = IF ExternalOnly THEN accepted \cap ByCondition ELSE accepted

(* The rules of the backend and those of the contract, which are written   *)
(* in two languages, are the same: of each participant the backend offers  *)
(* all the calls that the contract accepts, and no other; of an agreement  *)
(* that its condition alone settles, it leaves out refunds and disputes.   *)
THEOREM OffersMatchContract == DashboardSpec => []OffersAreExact
  <1>1. ASSUME DashboardInv, Unlocked
        PROVE  OffersAreExact
    <2> SUFFICES ASSUME NEW role \in Roles, Wallet(role) \notin Contracts
                 PROVE  ActionsFor(role, esc[E].state, esc[E].withdrawals[Wallet(role)])
                          = LET accepted == {act \in Actions : Requires(act, Wallet(role))} IN
                            IF ExternalOnly THEN accepted \cap ByCondition ELSE accepted
      BY DEF OffersAreExact
    <2> DEFINE a == Wallet(role)
               s == esc[E].state
               credit == esc[E].withdrawals[a]
    <2>1. /\ E \in Escrows /\ ConstructorAccepts(E) /\ a \in Accounts
          /\ directConditionSettlement[E] <=> ExternalOnly
      BY <1>1, PageFacts DEF DashboardInv, DashboardTypeOK
    <2>2. RecordOK(E, esc[E])
      BY <1>1, <2>1 DEF DashboardInv, IInv, RecordsOK
    <2>3. /\ s \in States \cup {NoCode} /\ credit \in Nat
          /\ credit # 0 => \/ a = seller[E] /\ s = "Complete"
                           \/ a = buyer[E] /\ s = "Refunded"
      BY <2>1, <2>2 DEF RecordOK, CreditRecord, EscrowRecord
    <2>4. /\ a = buyer[E] <=> role = "buyer"
          /\ a = seller[E] <=> role = "seller"
          /\ a = arbitrator[E] <=> role = "arbitrator"
      BY <2>1 DEF ConstructorAccepts, Roles, Wallet
    <2> HIDE DEF a, s, credit
    <2>5. \A act : act \in ActionsFor(role, s, credit) <=>
            \/ role = "buyer" /\ s = "AwaitingPayment" /\ act \in {"deposit", "cancel"}
            \/ ~ExternalOnly /\ act \in HumanSettlement(role, s)
            \/ act = "withdraw" /\ credit > 0
                 /\ <<role, s>> \in {<<"seller", "Complete">>, <<"buyer", "Refunded">>}
      BY DEF ActionsFor, CanWithdrawFunds
    <2>6. \A act : act \in HumanSettlement(role, s) <=>
            \/ act = "confirmDelivery" /\ role = "buyer" /\ s = "AwaitingDelivery"
            \/ act = "requestRefund" /\ role = "buyer" /\ s = "AwaitingDelivery"
            \/ act = "approveRefund" /\ role = "seller" /\ s = "RefundRequested"
            \/ /\ act = "openDispute" /\ role \in {"buyer", "seller"}
               /\ s \in {"AwaitingDelivery", "RefundRequested"}
            \/ act \in {"resolveRelease", "resolveRefund"} /\ role = "arbitrator"
                 /\ s = "Disputed"
      BY <2>3 DEF HumanSettlement, Settlement, Roles
    <2>7. \A act : Requires(act, a) <=>
            \/ act \in {"deposit", "cancel"} /\ role = "buyer" /\ s = "AwaitingPayment"
            \/ /\ act = "confirmDelivery" /\ ~ExternalOnly
               /\ role = "buyer" /\ s = "AwaitingDelivery"
            \/ act = "requestRefund" /\ role = "buyer" /\ s = "AwaitingDelivery"
            \/ act = "approveRefund" /\ role = "seller" /\ s = "RefundRequested"
            \/ /\ act = "openDispute" /\ role \in {"buyer", "seller"}
               /\ s \in {"AwaitingDelivery", "RefundRequested"}
            \/ act \in {"resolveRelease", "resolveRefund"} /\ role = "arbitrator"
                 /\ s = "Disputed"
            \/ act = "withdraw" /\ credit # 0
      BY <2>1, <2>4 DEF Requires, a, s, credit
    <2>8. credit # 0 <=>
            credit > 0 /\ <<role, s>> \in {<<"seller", "Complete">>, <<"buyer", "Refunded">>}
      BY <2>3, <2>4
    <2>9. \A act : act \in ActionsFor(role, s, credit) <=>
            /\ act \in Actions /\ Requires(act, a)
            /\ ExternalOnly => act \in ByCondition
      BY <2>5, <2>6, <2>7, <2>8 DEF Actions, Emits, ByCondition
    <2>10. ActionsFor(role, s, credit)
             = LET accepted == {act \in Actions : Requires(act, a)} IN
               IF ExternalOnly THEN accepted \cap ByCondition ELSE accepted
      BY <2>9
    <2> QED BY <2>10 DEF a, s, credit
  <1> QED BY <1>1, DashboardInvariance, DashboardUnlocked, PTL

(* The theorem behind OfferedIsAccepted: whatever an up-to-date page shows *)
(* as a button, the contract requires no more of that call than what is    *)
(* so, and by CallsNeedOnlyThis the step it stands for is one it accepts.  *)
THEOREM OfferedCallsSucceed ==
  DashboardSpec =>
    [](/\ frames = <<>> /\ Unlocked
       /\ UpToDate(page.detail) /\ Me \notin Contracts =>
            \A act \in Displayed(scenario.role, page.detail) :
              act \in Actions /\ Requires(act, Me))
  <1>1. ASSUME DashboardInv, OffersAreExact, UpToDate(page.detail), Me \notin Contracts,
               NEW act \in Displayed(scenario.role, page.detail)
        PROVE  act \in Actions /\ Requires(act, Me)
    <2>1. scenario.role \in Roles
      BY <1>1, PageFacts DEF DashboardInv, DashboardTypeOK
    <2>2. page.detail.state = esc[E].state /\ page.detail.credit = esc[E].withdrawals[Me]
      BY <1>1 DEF UpToDate, Fresh, Me
    <2>3. act \in ActionsFor(scenario.role, esc[E].state, esc[E].withdrawals[Me])
      BY <1>1, <2>2 DEF Displayed
    <2> QED BY <1>1, <2>1, <2>3 DEF OffersAreExact, Me
  <1>2. DashboardInv /\ Unlocked /\ OffersAreExact =>
          /\ frames = <<>> /\ Unlocked
          /\ UpToDate(page.detail) /\ Me \notin Contracts =>
               \A act \in Displayed(scenario.role, page.detail) :
                 act \in Actions /\ Requires(act, Me)
    BY <1>1 DEF DashboardInv
  <1> QED BY <1>2, DashboardInvariance, DashboardUnlocked, OffersMatchContract, PTL
=============================================================================
