----------------------- MODULE ConditionVerification -----------------------
(***************************************************************************)
(* The backend's verification of blockchain conditions and of dispute      *)
(* evidence, on top of the two contracts:                                  *)
(*                                                                         *)
(*   agreement-condition-service.ts    a seller's request to verify        *)
(*   agreement-condition-repository.ts the table of attempts               *)
(*   attestcoin-verifier.ts            verifyAndSubmit                     *)
(*   ethers-gateways.ts                the queue of registry submissions   *)
(*                                                                         *)
(* Every deployed escrow is one agreement and gives it its name.  A worker *)
(* is a request being served; it takes one step per await, a read of the   *)
(* chain sees the state after some finished transaction.                   *)
(***************************************************************************)
EXTENDS EvidenceClaimRegistry, FiniteSets

CONSTANTS
  Workers,      \* requests served at the same time
  SourceTxs,    \* transactions of the source chain that are submitted
  Qualifies,    \* <<e, t>>: t is proved and meets the policy of e's agreement
  evidenceType, \* of the policy of each agreement
  sourceChainKey,
  expectedSender,
  MaxTxs,       \* bound: registry transactions ever sent
  Faults        \* which of the faults below can happen

NoTx == 0

\* The claim about t in the agreement of e (proofRequest and verifyAndSubmit).
ClaimFor(e, t) ==
  [escrow |-> e,
   agreementCommitment |-> agreementCommitment[e],
   evidencePolicyCommitment |-> evidencePolicyCommitment[e],
   evidenceCommitment |->
     ComputeEvidenceCommitment(evidencePolicyCommitment[e], evidenceType[e],
       sourceChainKey[e], t, expectedSender[e]),
   evidenceType |-> evidenceType[e],
   sourceChainKey |-> sourceChainKey[e],
   sourceTransactionHash |-> t,
   subject |-> expectedSender[e]]

Pairs == Escrows \X SourceTxs

ASSUME VerificationAssumption ==
  /\ Qualifies \subseteq Pairs
  /\ \A e \in Escrows, t \in SourceTxs : ClaimFor(e, t) \in Claims
  /\ MaxTxs \in Nat
  /\ Faults \subseteq {"crash", "rpc", "db", "lostSend", "slow"}

VARIABLES
  row,      \* the attempts: status, freshness and failure of each <<e, t>>
  worker,   \* the requests being served
  pending,  \* claimSubmissions: mode and transaction of each claim, or nothing
  queue,    \* claims with a submission running, or waiting for its turn
  sent,     \* the first submission of the queue is waiting for its receipt
  txs       \* registry transactions, in the order of their nonces

backendVars == <<row, worker, pending, queue, sent>>
gatewayVars == <<pending, queue, sent>>
verificationVars == <<systemVars, backendVars, txs>>

Fault(f) == f \in Faults

\* Why an attempt failed: the failure codes, the ones that come before the
\* claim is submitted or out of its submission taken together.
Failures == {"NOT_SUBMITTED", "REPLAY_DETECTED", "NOT_CREDITED", "NOT_READ"}

Modes == {"DisputeEvidence", "DirectSettlement", "PrerequisiteRecord"}

ConditionMode(e) ==
  IF directConditionSettlement[e] THEN "DirectSettlement" ELSE "PrerequisiteRecord"

Idle == [pc |-> "idle"]

NoRow == [status |-> "none"]

VerificationInit ==
  /\ SystemInit
  /\ row = [p \in Pairs |-> NoRow]
  /\ worker = [w \in Workers |-> Idle]
  /\ pending = [p \in Pairs |-> <<>>]
  /\ queue = <<>>
  /\ sent = FALSE
  /\ txs = <<>>

At(w, step) == worker[w].pc = step

Pair(w) == <<worker[w].escrow, worker[w].tx>>

ClaimOfPair(p) == ClaimFor(p[1], p[2])

IdOf(p) == ComputeClaimId(ClaimOfPair(p))

Goto(w, step) == worker' = [worker EXCEPT ![w].pc = step]

Ends(w) == worker' = [worker EXCEPT ![w] = Idle]

\* verifyAndSubmit returns a failure: the attempt is to be marked as failed,
\* or, for dispute evidence, the request is answered.
Fails(w, code) ==
  worker' = [worker EXCEPT ![w] =
               IF @.mode = "DisputeEvidence" THEN Idle
               ELSE [@ EXCEPT !.pc = "fail", !.code = code]]

NewWorker(step, e, t, mode) ==
  [pc |-> step, escrow |-> e, tx |-> t, mode |-> mode, already |-> FALSE,
   code |-> "none"]

VerifiedElsewhere(p) ==
  \E q \in Pairs : q # p /\ q[2] = p[2] /\ row[q].status = "verified"

(***************************************************************************)
(* The request and the table of attempts.                                  *)
(***************************************************************************)
\* verify(), up to findVerifiedTransaction.
RequestCondition(w, e, t) ==
  /\ At(w, "idle")
  /\ committed[e].state # NoCode
  /\ ~VerifiedElsewhere(<<e, t>>)
  /\ worker' = [worker EXCEPT ![w] = NewWorker("start", e, t, ConditionMode(e))]
  /\ UNCHANGED <<systemVars, row, gatewayVars, txs>>

\* POST /evidence/verify: no attempt is recorded.
RequestDisputeEvidence(w, e, t) ==
  /\ At(w, "idle")
  /\ committed[e].state # NoCode
  /\ worker' = [worker EXCEPT ![w] = NewWorker("bound", e, t, "DisputeEvidence")]
  /\ UNCHANGED <<systemVars, row, gatewayVars, txs>>

\* Mutant: a running attempt is taken over whatever its age.
ClaimableAtAnyAge(r) == r.status # "verified"

\* Mutant: a verified attempt is started again.
ClaimableAfterSuccess(r) ==
  r.status = "verification_in_progress" => ~r.fresh

\* The condition of startVerification's upsert: no attempt, a failed one, or
\* one in progress that was not touched for five minutes.
Claimable(r) ==
  \/ r.status \in {"none", "verification_failed"}
  \/ r.status = "verification_in_progress" /\ ~r.fresh

StartVerification(w) ==
  /\ At(w, "start")
  /\ \/ /\ Claimable(row[Pair(w)])
        /\ row' = [row EXCEPT ![Pair(w)] =
                     [status |-> "verification_in_progress", fresh |-> TRUE]]
        /\ Goto(w, "bound") \/ (Fault("db") /\ Ends(w))
     \/ /\ ~Claimable(row[Pair(w)]) \/ Fault("db")
        /\ Ends(w)
        /\ UNCHANGED row
  /\ UNCHANGED <<systemVars, gatewayVars, txs>>

\* w is working on the attempt p, which it started.
OnAttempt(w, p) ==
  /\ worker[w].pc \notin {"idle", "start"}
  /\ worker[w].mode # "DisputeEvidence"
  /\ Pair(w) = p

\* Five minutes pass since the attempt was started.  Unless requests may be
\* slow, the one that started it is over by then.
FiveMinutesPass(p) ==
  /\ row[p].status = "verification_in_progress" /\ row[p].fresh
  /\ Fault("slow") \/ \A w \in Workers : ~OnAttempt(w, p)
  /\ row' = [row EXCEPT ![p].fresh = FALSE]
  /\ UNCHANGED <<systemVars, worker, gatewayVars, txs>>

(***************************************************************************)
(* verifyAndSubmit.  Policy and proof depend on the source chain only; a   *)
(* proof that fails and a registry that cannot be read end alike.  The     *)
(* registry's two maps are read one after the other.                       *)
(***************************************************************************)
\* Mutant: the result of policy and proof is not looked at.
ReadBoundEscrowUnproved(w) ==
  LET e == worker[w].escrow
      bound == sourceEvidenceEscrow[ComputeSourceEvidenceKey(ClaimOfPair(Pair(w)))]
  IN
  /\ At(w, "bound")
  /\ \/ bound \in {Zero, e} /\
          worker' = [worker EXCEPT ![w].pc = "consumed", ![w].already = (bound = e)]
     \/ bound \notin {Zero, e} /\ Fails(w, "REPLAY_DETECTED")
     \/ Fault("rpc") /\ Fails(w, "NOT_SUBMITTED")
  /\ UNCHANGED <<systemVars, row, gatewayVars, txs>>

ReadBoundEscrow(w) ==
  LET e == worker[w].escrow
      bound == sourceEvidenceEscrow[ComputeSourceEvidenceKey(ClaimOfPair(Pair(w)))]
  IN
  /\ At(w, "bound")
  /\ \/ Pair(w) \in Qualifies /\ bound \in {Zero, e} /\
          worker' = [worker EXCEPT ![w].pc = "consumed", ![w].already = (bound = e)]
     \/ Pair(w) \in Qualifies /\ bound \notin {Zero, e} /\ Fails(w, "REPLAY_DETECTED")
     \/ Pair(w) \notin Qualifies /\ Fails(w, "NOT_SUBMITTED")
     \/ Fault("rpc") /\ Fails(w, "NOT_SUBMITTED")
  /\ UNCHANGED <<systemVars, row, gatewayVars, txs>>

ReadConsumed(w) ==
  /\ At(w, "consumed")
  /\ IF IdOf(Pair(w)) \in consumedClaims /\ ~worker[w].already
     THEN Fails(w, "REPLAY_DETECTED")
     ELSE Goto(w, "context")
  /\ UNCHANGED <<systemVars, row, gatewayVars, txs>>

\* The checks against readDisputeContext; the immutables match by construction.
ContextAllows(w) ==
  LET r == committed[worker[w].escrow]
      evidence == ClaimOfPair(Pair(w)).evidenceCommitment
  IN IF worker[w].mode = "DisputeEvidence"
     THEN r.activeEvidenceCommitment = evidence /\ r.state = "Disputed"
     ELSE \/ worker[w].already
          \/ r.state = "AwaitingDelivery" /\ r.activeEvidenceCommitment = Zero

ReadDisputeContext(w) ==
  /\ At(w, "context")
  /\ \/ ContextAllows(w) /\ Goto(w, IF worker[w].already THEN "settlement" ELSE "submit")
     \/ ~ContextAllows(w) /\ Fails(w, "NOT_SUBMITTED")
     \/ Fault("rpc") /\ Fails(w, "NOT_SUBMITTED")
  /\ UNCHANGED <<systemVars, row, gatewayVars, txs>>

(***************************************************************************)
(* The gateway.  A claim keeps its mode and its transaction in             *)
(* claimSubmissions until its submission succeeds; submissions run one     *)
(* after the other.                                                        *)
(***************************************************************************)
Queued(p) == \E i \in DOMAIN queue : queue[i] = p

Refused(w) == pending[Pair(w)] # <<>> /\ pending[Pair(w)].mode # worker[w].mode

\* Mutant: the result of the submission is not awaited.
SubmitClaimWithoutWaiting(w) ==
  /\ At(w, "submit")
  /\ ~Refused(w)
  /\ Goto(w, "save")
  /\ UNCHANGED <<systemVars, row, gatewayVars, txs>>

\* submitClaim: refused, joined to the running submission, or queued.
SubmitClaim(w) ==
  LET p == Pair(w) IN
  /\ At(w, "submit")
  /\ \/ Refused(w) /\ Fails(w, "NOT_SUBMITTED") /\ UNCHANGED <<pending, queue>>
     \/ /\ ~Refused(w)
        /\ Goto(w, "waiting")
        /\ pending' = [pending EXCEPT ![p] =
             IF @ = <<>> THEN [mode |-> worker[w].mode, tx |-> NoTx] ELSE @]
        /\ queue' = IF Queued(p) THEN queue ELSE Append(queue, p)
  /\ UNCHANGED <<systemVars, row, sent, txs>>

\* What the registry and the escrow require of a submission.
Accepts(claim, mode) ==
  LET e == claim.escrow IN
  /\ frames = <<>>
  /\ ValidateNonzeroFields(claim)
  /\ MatchesEscrow(claim,
       IF mode = "DisputeEvidence" THEN "Disputed" ELSE "AwaitingDelivery", mode)
  /\ Unused(claim)
  /\ esc[e].verifiedClaimId = Zero
  /\ evidenceRegistry[e] = thisRegistry
  /\ mode = "DirectSettlement" => directConditionSettlement[e]
  /\ mode = "PrerequisiteRecord" => ~directConditionSettlement[e]

Waiting(w, p) == At(w, "waiting") /\ Pair(w) = p

\* The running submission ends: its callers go on, the next one starts.
RunEnds(success) ==
  /\ worker' = [w \in Workers |->
       IF ~Waiting(w, Head(queue)) THEN worker[w]
       ELSE IF success THEN [worker[w] EXCEPT !.pc = "settlement"]
       ELSE IF worker[w].mode = "DisputeEvidence" THEN Idle
       ELSE [worker[w] EXCEPT !.pc = "fail", !.code = "NOT_SUBMITTED"]]
  /\ queue' = Tail(queue)
  /\ sent' = FALSE

\* Mutant: a failed submission is forgotten.
RunFailsForgetting ==
  /\ RunEnds(FALSE)
  /\ pending' = [pending EXCEPT ![Head(queue)] = <<>>]

\* Mutant: a failed submission leaves the queue blocked.
RunFailsBlocking == UNCHANGED <<worker, queue, pending, sent>>

\* claimSubmissions keeps the claim.
RunFails == RunEnds(FALSE) /\ UNCHANGED pending

Running == Head(queue)

\* processClaimSubmission, static call and submission.
RunSend ==
  LET p == Running
      mode == pending[p].mode
      accepted == Accepts(ClaimOfPair(p), mode)
      broadcast == Append(txs, [pair |-> p, mode |-> mode, status |-> "pending"])
  IN
  /\ queue # <<>> /\ ~sent
  /\ \/ /\ ~accepted \/ Fault("rpc")
        /\ RunFails /\ UNCHANGED txs
     \/ /\ accepted /\ pending[p].tx # NoTx
        /\ sent' = TRUE
        /\ UNCHANGED <<worker, queue, pending, txs>>
     \/ /\ accepted /\ pending[p].tx = NoTx /\ Len(txs) < MaxTxs
        /\ txs' = broadcast
        /\ \/ /\ pending' = [pending EXCEPT ![p].tx = Len(broadcast)]
              /\ sent' = TRUE
              /\ UNCHANGED <<worker, queue>>
           \/ Fault("lostSend") /\ RunFails
  /\ UNCHANGED <<systemVars, row>>

\* processClaimSubmission, receipt and the reads that follow it.
RunReceipt ==
  LET status == txs[pending[Running].tx].status IN
  /\ queue # <<>> /\ sent
  /\ \/ /\ status = "mined"
        /\ RunEnds(TRUE)
        /\ pending' = [pending EXCEPT ![Running] = <<>>]
     \/ status = "reverted" /\ RunFails
     \/ Fault("rpc") /\ RunFails
  /\ UNCHANGED <<systemVars, row, txs>>

(***************************************************************************)
(* The chain executes the verifier's transactions in the order of their    *)
(* nonces.                                                                 *)
(***************************************************************************)
Mine(i) ==
  LET claim == ClaimOfPair(txs[i].pair)
      mode == txs[i].mode
  IN
  /\ frames = <<>>
  /\ txs[i].status = "pending"
  /\ \A j \in 1..(i - 1) : txs[j].status # "pending"
  /\ \/ /\ Accepts(claim, mode)
        /\ \/ /\ mode = "DisputeEvidence"
              /\ SubmitVerifiedClaim(authorizedVerifier, claim)
           \/ /\ mode = "DirectSettlement"
              /\ SubmitVerifiedConditionClaim(authorizedVerifier, claim)
           \/ /\ mode = "PrerequisiteRecord"
              /\ SubmitVerifiedPrerequisiteClaim(authorizedVerifier, claim)
        /\ txs' = [txs EXCEPT ![i].status = "mined"]
     \/ /\ ~Accepts(claim, mode)
        /\ txs' = [txs EXCEPT ![i].status = "reverted"]
        /\ UNCHANGED systemVars
  /\ UNCHANGED backendVars

(***************************************************************************)
(* The end of verifyAndSubmit and of the attempt.                          *)
(***************************************************************************)
Recorded(w) == committed[worker[w].escrow].verifiedClaimId = IdOf(Pair(w))

SettlementConfirmed(w) ==
  LET e == worker[w].escrow
      r == committed[e]
      credit == r.withdrawals[seller[e]]
  IN /\ Recorded(w)
     /\ worker[w].mode = "DirectSettlement" => r.state = "Complete" /\ credit > 0
     /\ worker[w].mode = "PrerequisiteRecord" =>
          /\ r.state = "AwaitingDelivery"
          /\ r.activeEvidenceCommitment = Zero
          /\ credit = 0

ReadSettlement(w) ==
  /\ At(w, "settlement")
  /\ \/ SettlementConfirmed(w) /\
          IF worker[w].mode = "DisputeEvidence" THEN Ends(w) ELSE Goto(w, "save")
     \/ ~SettlementConfirmed(w) /\ Fails(w, "NOT_CREDITED")
     \/ Fault("rpc") /\ Fails(w, "NOT_READ")
  /\ UNCHANGED <<systemVars, row, gatewayVars, txs>>

\* The update to verified; the unique index admits one per source transaction.
SaveVerified(w) ==
  LET p == Pair(w) IN
  /\ At(w, "save")
  /\ \/ /\ ~VerifiedElsewhere(p)
        /\ row' = [row EXCEPT ![p] = [status |-> "verified"]]
        /\ Ends(w)
     \/ /\ VerifiedElsewhere(p)
        /\ Fails(w, "REPLAY_DETECTED")
        /\ UNCHANGED row
     \/ Fault("db") /\ Ends(w) /\ UNCHANGED row
  /\ UNCHANGED <<systemVars, gatewayVars, txs>>

\* finishFailure: whatever the attempt's status is by now.
FinishFailure(w) ==
  /\ At(w, "fail")
  /\ Ends(w)
  /\ \/ row' = [row EXCEPT ![Pair(w)] = [status |-> "verification_failed",
                                        code |-> worker[w].code]]
     \/ Fault("db") /\ UNCHANGED row
  /\ UNCHANGED <<systemVars, gatewayVars, txs>>

\* The process stops and starts again: the gateway forgets its submissions.
Crash ==
  /\ Fault("crash")
  /\ worker' = [w \in Workers |-> Idle]
  /\ pending' = [p \in Pairs |-> <<>>]
  /\ queue' = <<>>
  /\ sent' = FALSE
  /\ <<worker', pending'>> # <<worker, pending>>
  /\ UNCHANGED <<systemVars, row, txs>>

WorkerStep(w) ==
  \/ StartVerification(w) \/ ReadBoundEscrow(w) \/ ReadConsumed(w)
  \/ ReadDisputeContext(w) \/ SubmitClaim(w) \/ ReadSettlement(w)
  \/ SaveVerified(w) \/ FinishFailure(w)

GatewayStep == RunSend \/ RunReceipt

PartiesStep == EscrowStep /\ UNCHANGED <<backendVars, txs>>

VerificationNext ==
  \/ \E w \in Workers, e \in Escrows, t \in SourceTxs :
       RequestCondition(w, e, t) \/ RequestDisputeEvidence(w, e, t)
  \/ \E w \in Workers : WorkerStep(w)
  \/ GatewayStep
  \/ \E i \in DOMAIN txs : Mine(i)
  \/ \E p \in Pairs : FiveMinutesPass(p)
  \/ PartiesStep
  \/ Crash

VerificationSpec == VerificationInit /\ [][VerificationNext]_verificationVars

\* The event loop runs requests and submissions on; the chain mines.
VerificationFairness ==
  /\ \A w \in Workers : WF_verificationVars(WorkerStep(w))
  /\ WF_verificationVars(GatewayStep)
  /\ WF_verificationVars(\E i \in DOMAIN txs : Mine(i))

FairVerificationSpec == VerificationSpec /\ VerificationFairness

(***************************************************************************)
(* Properties.                                                             *)
(***************************************************************************)
\* The values of an attempt, of a request, of a claim and of a transaction.
Attempts ==
  [status : {"none", "verified"}]
  \cup [status : {"verification_in_progress"}, fresh : BOOLEAN]
  \cup [status : {"verification_failed"}, code : Failures]

RequestSteps == {"start", "bound", "consumed", "context", "submit", "waiting",
                 "settlement", "save"}

\* A request has a failure code once it fails.
RequestsAt(steps, codes) ==
  [pc : steps, escrow : Escrows, tx : SourceTxs, mode : Modes,
   already : BOOLEAN, code : codes]

Requests == RequestsAt(RequestSteps, {"none"}) \cup RequestsAt({"fail"}, Failures)

Submissions == [mode : Modes, tx : Nat]

RegistryTxs ==
  [pair : Pairs, mode : Modes, status : {"pending", "mined", "reverted"}]

\* The queue has each claim at most once, and claimSubmissions knows it; a
\* claim's transaction is one of its own; a receipt is awaited of one.
GatewayOK ==
  /\ \A i, j \in 1..Len(queue) : i # j => queue[i] # queue[j]
  /\ \A i \in 1..Len(queue) : pending[queue[i]] # <<>>
  /\ \A p \in Pairs : pending[p] # <<>> /\ pending[p].tx # NoTx =>
       /\ pending[p].tx \in 1..Len(txs)
       /\ txs[pending[p].tx].pair = p
       /\ txs[pending[p].tx].mode = pending[p].mode
  /\ sent => queue # <<>> /\ pending[Running].tx # NoTx

BackendTypeOK ==
  /\ row \in [Pairs -> Attempts]
  /\ worker \in [Workers -> {Idle} \cup Requests]
  /\ pending \in [Pairs -> {<<>>} \cup Submissions]
  /\ queue \in Seq(Pairs)
  /\ sent \in BOOLEAN
  /\ txs \in Seq(RegistryTxs)
  /\ GatewayOK

(* Attempts, requests, the gateway and its transactions have the values    *)
(* the code gives them; a submission waits for a receipt only once it has  *)
(* a transaction, of its own claim and mode.                               *)
VerificationTypeOK == RegistryTypeOK /\ BackendTypeOK

(* What the table calls verified is on the chain: the escrow has recorded  *)
(* the claim, and an escrow that settles directly has been completed.      *)
VerifiedIsOnChain ==
  \A p \in Pairs : row[p].status = "verified" =>
    /\ committed[p[1]].verifiedClaimId = IdOf(p)
    /\ directConditionSettlement[p[1]] => committed[p[1]].state = "Complete"

\* The claim is about a payment that is proved and meets the policy of e's
\* agreement.
RestsOn(e, id) == \E t \in SourceTxs : <<e, t>> \in Qualifies /\ id = IdOf(<<e, t>>)

(* Nothing but a proved payment that meets the agreement's policy is ever  *)
(* recorded by an escrow, whichever way its claim took through requests,   *)
(* the gateway's memory, retries and restarts.                             *)
ClaimsAreQualified ==
  \A e \in Escrows : committed[e].verifiedClaimId # Zero =>
    RestsOn(e, committed[e].verifiedClaimId)

(* An agreement that settles directly pays its seller for a payment that   *)
(* is proved and meets its policy, or because its arbitrator ruled so.     *)
DirectReleaseIsEarned ==
  [][\A e \in Escrows :
       /\ directConditionSettlement[e]
       /\ esc[e].state \notin {"Disputed", "Complete"}
       /\ esc'[e].state = "Complete"
       => RestsOn(e, esc'[e].verifiedClaimId)]_verificationVars

(* An attempt is worked on by one request at a time: a second request for  *)
(* the same transaction is answered with the attempt in progress.          *)
OneWorkerPerAttempt ==
  \A p \in Pairs, v, w \in Workers :
    OnAttempt(v, p) /\ OnAttempt(w, p) => v = w

(* A verified attempt stays verified: a seller who sees it never loses it  *)
(* to a repeated or to a late request.                                     *)
VerifiedStands ==
  [][\A p \in Pairs : row[p].status = "verified" =>
       row'[p].status = "verified"]_verificationVars

(* A claim is broadcast once, however many requests, retries and failing   *)
(* receipts there are, while the process lives.                            *)
OneBroadcastPerClaim ==
  \A i, j \in DOMAIN txs : txs[i].pair = txs[j].pair => i = j

(* An attempt does not stay in progress: it is verified or fails, whatever *)
(* the escrow's parties do and whichever claims share the gateway's queue. *)
AttemptEnds ==
  \A p \in Pairs :
    row[p].status = "verification_in_progress" ~>
      row[p].status \in {"verified", "verification_failed"}

=============================================================================
