-------------------- MODULE ConditionVerificationProofs --------------------
(***************************************************************************)
(* Proofs about the backend's verification, for any number of agreements,  *)
(* requests, claims and transactions.                                      *)
(***************************************************************************)
EXTENDS ConditionVerification, EvidenceClaimRegistryProofs

(* The claim of a pair is one the contracts know, with an id of its own.   *)
LEMMA ClaimOfPairFacts ==
  ASSUME NEW p \in Pairs
  PROVE  /\ ClaimOfPair(p) \in Claims
         /\ ClaimOfPair(p).escrow = p[1]
         /\ p[1] \in Escrows
         /\ p[2] \in SourceTxs
         /\ IdOf(p) \in ClaimIds \ {Zero}
<1>1. p[1] \in Escrows /\ p[2] \in SourceTxs
  BY DEF Pairs
<1>2. ClaimOfPair(p) \in Claims
  BY <1>1, VerificationAssumption DEF ClaimOfPair
<1>3. ClaimOfPair(p).escrow = p[1]
  BY DEF ClaimOfPair, ClaimFor
<1> QED
  BY <1>1, <1>2, <1>3, ClaimAssumption DEF IdOf

(* Different pairs have different claim ids: the ids are equal only when   *)
(* all their parts are.                                                    *)
LEMMA IdsAreDistinct ==
  ASSUME NEW p \in Pairs, NEW q \in Pairs, IdOf(p) = IdOf(q)
  PROVE  p = q
<1>1. /\ IdOf(p)[2] = p[1] /\ IdOf(p)[8] = p[2]
      /\ IdOf(q)[2] = q[1] /\ IdOf(q)[8] = q[2]
  BY DEF IdOf, ComputeClaimId, ClaimOfPair, ClaimFor
<1>2. p[1] = q[1] /\ p[2] = q[2]
  BY <1>1
<1> QED
  BY <1>2 DEF Pairs

(***************************************************************************)
(* The contracts under the backend are the contracts of                    *)
(* EvidenceClaimRegistry: a step of the backend is none of theirs, or a    *)
(* mined transaction of the verifier.                                      *)
(***************************************************************************)
LEMMA MineIsSystemStep ==
  ASSUME BackendTypeOK, NEW i \in DOMAIN txs, Mine(i)
  PROVE  [SystemNext]_systemVars
<1> DEFINE claim == ClaimOfPair(txs[i].pair)
<1>1. txs[i] \in RegistryTxs
  BY DEF BackendTypeOK
<1>2. claim \in Claims
  BY <1>1, ClaimOfPairFacts DEF RegistryTxs
<1>3. authorizedVerifier \in Accounts
  BY VerifierAssumption
<1> HIDE DEF claim
<1>4. ASSUME \/ SubmitVerifiedClaim(authorizedVerifier, claim)
             \/ SubmitVerifiedConditionClaim(authorizedVerifier, claim)
             \/ SubmitVerifiedPrerequisiteClaim(authorizedVerifier, claim)
      PROVE  Submit
  BY <1>2, <1>3, <1>4 DEF Submit
<1>5. \/ UNCHANGED systemVars
      \/ SubmitVerifiedClaim(authorizedVerifier, claim)
      \/ SubmitVerifiedConditionClaim(authorizedVerifier, claim)
      \/ SubmitVerifiedPrerequisiteClaim(authorizedVerifier, claim)
  BY DEF Mine, claim
<1> QED
  BY <1>4, <1>5 DEF SystemNext

LEMMA StepIsSystemStep ==
  ASSUME BackendTypeOK, [VerificationNext]_verificationVars
  PROVE  [SystemNext]_systemVars
<1>1. CASE UNCHANGED verificationVars
  BY <1>1 DEF verificationVars
<1>2. ASSUME NEW w \in Workers, NEW e \in Escrows, NEW t \in SourceTxs,
             RequestCondition(w, e, t) \/ RequestDisputeEvidence(w, e, t)
      PROVE  UNCHANGED systemVars
  BY <1>2 DEF RequestCondition, RequestDisputeEvidence
<1>3. ASSUME NEW w \in Workers, WorkerStep(w)
      PROVE  UNCHANGED systemVars
  BY <1>3 DEF WorkerStep, StartVerification, ReadBoundEscrow, ReadConsumed,
              ReadDisputeContext, SubmitClaim, ReadSettlement, SaveVerified,
              FinishFailure
<1>4. CASE GatewayStep
  BY <1>4 DEF GatewayStep, RunSend, RunReceipt
<1>5. ASSUME NEW i \in DOMAIN txs, Mine(i)
      PROVE  [SystemNext]_systemVars
  BY <1>5, MineIsSystemStep
<1>6. ASSUME NEW p \in Pairs, FiveMinutesPass(p)
      PROVE  UNCHANGED systemVars
  BY <1>6 DEF FiveMinutesPass
<1>7. CASE PartiesStep
  BY <1>7 DEF PartiesStep, SystemNext
<1>8. CASE Crash
  BY <1>8 DEF Crash
<1> QED
  BY <1>1, <1>2, <1>3, <1>4, <1>5, <1>6, <1>7, <1>8 DEF VerificationNext

(***************************************************************************)
(* The values of the backend's variables.                                  *)
(***************************************************************************)
WorkersOK == worker \in [Workers -> {Idle} \cup Requests]

(* A request at one of the steps is one with all its parts.                *)
LEMMA ActiveRequest ==
  ASSUME WorkersOK, NEW w \in Workers, worker[w].pc # "idle"
  PROVE  /\ worker[w] \in Requests
         /\ Pair(w) \in Pairs
<1>1. worker[w] \in {Idle} \cup Requests
  BY DEF WorkersOK
<1>2. worker[w] # Idle
  BY DEF Idle
<1> QED
  BY <1>1, <1>2 DEF Requests, RequestsAt, RequestSteps, Pair, Pairs

(* The ways in which a step of a request leaves it.                        *)
LEMMA RequestMoves ==
  ASSUME WorkersOK, NEW w \in Workers, worker[w].pc \notin {"idle", "fail"},
         \/ \E step \in RequestSteps : Goto(w, step)
         \/ Ends(w)
         \/ \E code \in Failures : Fails(w, code)
         \/ \E already \in BOOLEAN :
              worker' = [worker EXCEPT ![w].pc = "consumed",
                                       ![w].already = already]
  PROVE  WorkersOK'
<1>1. worker[w] \in Requests
  BY ActiveRequest
<1>2. ASSUME NEW step \in RequestSteps, Goto(w, step)
      PROVE  WorkersOK'
  <2>1. [worker[w] EXCEPT !.pc = step] \in Requests
    BY <1>1 DEF Requests, RequestsAt, RequestSteps
  <2> QED
    BY <1>2, <2>1 DEF Goto, WorkersOK
<1>3. CASE Ends(w)
  BY <1>3 DEF Ends, WorkersOK
<1>4. ASSUME NEW code \in Failures, Fails(w, code)
      PROVE  WorkersOK'
  <2>1. [worker[w] EXCEPT !.pc = "fail", !.code = code] \in Requests
    BY <1>1 DEF Requests, RequestsAt, RequestSteps
  <2> QED
    BY <1>4, <2>1 DEF Fails, WorkersOK
<1>5. ASSUME NEW already \in BOOLEAN,
             worker' = [worker EXCEPT ![w].pc = "consumed",
                                      ![w].already = already]
      PROVE  WorkersOK'
  <2>1. [worker[w] EXCEPT !.pc = "consumed", !.already = already] \in Requests
    BY <1>1 DEF Requests, RequestsAt, RequestSteps
  <2>2. worker' = [worker EXCEPT ![w] =
                     [worker[w] EXCEPT !.pc = "consumed", !.already = already]]
    BY <1>5 DEF WorkersOK
  <2> QED
    BY <2>1, <2>2 DEF WorkersOK
<1> QED
  BY <1>2, <1>3, <1>4, <1>5

(* A new request has its parts.                                            *)
LEMMA NewRequestOK ==
  ASSUME WorkersOK, NEW w \in Workers, NEW e \in Escrows, NEW t \in SourceTxs,
         RequestCondition(w, e, t) \/ RequestDisputeEvidence(w, e, t)
  PROVE  WorkersOK' /\ UNCHANGED <<row, gatewayVars, txs>>
<1>1. ASSUME NEW step \in RequestSteps, NEW mode \in Modes
      PROVE  NewWorker(step, e, t, mode) \in Requests
  BY <1>1 DEF NewWorker, Requests, RequestsAt, RequestSteps
<1>2. \E step \in RequestSteps, mode \in Modes :
        worker' = [worker EXCEPT ![w] = NewWorker(step, e, t, mode)]
  BY DEF RequestCondition, RequestDisputeEvidence, ConditionMode, Modes, RequestSteps
<1>3. WorkersOK'
  BY <1>1, <1>2 DEF WorkersOK
<1> QED
  BY <1>3 DEF RequestCondition, RequestDisputeEvidence

(* The reads of the chain change the request only.                         *)
LEMMA ReadsOK ==
  ASSUME WorkersOK, NEW w \in Workers,
         \/ ReadBoundEscrow(w) \/ ReadConsumed(w) \/ ReadDisputeContext(w)
         \/ ReadSettlement(w)
  PROVE  WorkersOK' /\ UNCHANGED <<row, gatewayVars, txs>>
<1> USE DEF At
<1>1. CASE ReadBoundEscrow(w)
  <2>1. \/ \E already \in BOOLEAN :
             worker' = [worker EXCEPT ![w].pc = "consumed",
                                      ![w].already = already]
        \/ \E code \in Failures : Fails(w, code)
    BY <1>1 DEF ReadBoundEscrow, Failures
  <2> QED
    BY <1>1, <2>1, RequestMoves DEF ReadBoundEscrow
<1>2. CASE ReadConsumed(w)
  <2>1. \/ \E step \in RequestSteps : Goto(w, step)
        \/ \E code \in Failures : Fails(w, code)
    BY <1>2 DEF ReadConsumed, Failures, RequestSteps
  <2> QED
    BY <1>2, <2>1, RequestMoves DEF ReadConsumed
<1>3. CASE ReadDisputeContext(w)
  <2>1. \/ \E step \in RequestSteps : Goto(w, step)
        \/ \E code \in Failures : Fails(w, code)
    BY <1>3 DEF ReadDisputeContext, Failures, RequestSteps
  <2> QED
    BY <1>3, <2>1, RequestMoves DEF ReadDisputeContext
<1>4. CASE ReadSettlement(w)
  <2>1. \/ \E step \in RequestSteps : Goto(w, step)
        \/ Ends(w)
        \/ \E code \in Failures : Fails(w, code)
    BY <1>4 DEF ReadSettlement, Failures, RequestSteps
  <2> QED
    BY <1>4, <2>1, RequestMoves DEF ReadSettlement
<1> QED
  BY <1>1, <1>2, <1>3, <1>4

(* The steps of a request that write its attempt.                          *)
LEMMA RowStepsOK ==
  ASSUME WorkersOK, row \in [Pairs -> Attempts], NEW w \in Workers,
         StartVerification(w) \/ SaveVerified(w) \/ FinishFailure(w)
  PROVE  /\ WorkersOK'
         /\ row' \in [Pairs -> Attempts]
         /\ UNCHANGED <<gatewayVars, txs>>
<1> USE DEF At
<1>1. worker[w] \in Requests /\ Pair(w) \in Pairs
  BY ActiveRequest DEF StartVerification, SaveVerified, FinishFailure
<1>2. CASE StartVerification(w)
  <2>1. WorkersOK'
    <3>1. (\E step \in RequestSteps : Goto(w, step)) \/ Ends(w)
      BY <1>2 DEF StartVerification, RequestSteps
    <3> QED
      BY <1>2, <3>1, RequestMoves DEF StartVerification
  <2>2. [status |-> "verification_in_progress", fresh |-> TRUE] \in Attempts
    BY DEF Attempts
  <2> QED
    BY <1>1, <1>2, <2>1, <2>2 DEF StartVerification
<1>3. CASE SaveVerified(w)
  <2>1. WorkersOK'
    <3>1. Ends(w) \/ \E code \in Failures : Fails(w, code)
      BY <1>3 DEF SaveVerified, Failures
    <3> QED
      BY <1>3, <3>1, RequestMoves DEF SaveVerified
  <2>2. [status |-> "verified"] \in Attempts
    BY DEF Attempts
  <2> QED
    BY <1>1, <1>3, <2>1, <2>2 DEF SaveVerified
<1>4. CASE FinishFailure(w)
  <2>1. WorkersOK'
    BY <1>4 DEF FinishFailure, Ends, WorkersOK
  <2>2. [status |-> "verification_failed", code |-> worker[w].code] \in Attempts
    BY <1>1, <1>4 DEF FinishFailure, Attempts, Requests, RequestsAt, RequestSteps
  <2> QED
    BY <1>1, <1>4, <2>1, <2>2 DEF FinishFailure
<1> QED
  BY <1>2, <1>3, <1>4

GatewayTypeOK ==
  /\ pending \in [Pairs -> {<<>>} \cup Submissions]
  /\ queue \in Seq(Pairs)
  /\ sent \in BOOLEAN
  /\ txs \in Seq(RegistryTxs)
  /\ GatewayOK

LEMMA TypeParts ==
  BackendTypeOK <=> WorkersOK /\ row \in [Pairs -> Attempts] /\ GatewayTypeOK
BY DEF BackendTypeOK, WorkersOK, GatewayTypeOK

(* The first of the queue and what is left without it.                     *)
LEMMA QueueEnds ==
  ASSUME queue \in Seq(Pairs), queue # <<>>
  PROVE  /\ Running \in Pairs
         /\ Running = queue[1]
         /\ 1 \in 1..Len(queue)
         /\ Len(queue) \in Nat \ {0}
         /\ Tail(queue) \in Seq(Pairs)
         /\ Len(Tail(queue)) = Len(queue) - 1
         /\ \A i \in 1..Len(Tail(queue)) : Tail(queue)[i] = queue[i + 1]
BY DEF Running

(* Joining the queue keeps it free of repetitions.                         *)
LEMMA SubmitClaimGateway ==
  ASSUME WorkersOK, GatewayTypeOK, NEW w \in Workers, SubmitClaim(w)
  PROVE  WorkersOK' /\ GatewayTypeOK' /\ UNCHANGED row
<1> DEFINE p == Pair(w)
<1>1. worker[w].pc = "submit" /\ p \in Pairs /\ worker[w].mode \in Modes
  BY ActiveRequest DEF SubmitClaim, At, Requests, RequestsAt
<1>2. WorkersOK'
  <2>1. \/ \E step \in RequestSteps : Goto(w, step)
        \/ \E code \in Failures : Fails(w, code)
    BY DEF SubmitClaim, Failures, RequestSteps
  <2> QED
    BY <1>1, <2>1, RequestMoves
<1>3. CASE UNCHANGED <<pending, queue>>
  BY <1>2, <1>3 DEF SubmitClaim, GatewayTypeOK, GatewayOK, Running
<1>4. CASE /\ pending' = [pending EXCEPT ![p] =
                IF @ = <<>> THEN [mode |-> worker[w].mode, tx |-> NoTx] ELSE @]
           /\ queue' = IF Queued(p) THEN queue ELSE Append(queue, p)
  <2> HIDE DEF p
  <2>1. [mode |-> worker[w].mode, tx |-> NoTx] \in Submissions
    BY <1>1 DEF Submissions, NoTx
  <2>2. /\ pending' \in [Pairs -> {<<>>} \cup Submissions]
        /\ pending'[p] # <<>>
        /\ \A q \in Pairs : pending[q] # <<>> => pending'[q] = pending[q]
        /\ \A q \in Pairs : q # p => pending'[q] = pending[q]
        /\ pending[p] = <<>> => pending'[p].tx = NoTx
    BY <1>1, <1>4, <2>1 DEF GatewayTypeOK, Submissions
  <2>3. /\ UNCHANGED <<sent, txs>>
        /\ queue' \in Seq(Pairs)
    BY <1>1, <1>4 DEF SubmitClaim, GatewayTypeOK
  <2>4. \A i, j \in 1..Len(queue') : i # j => queue'[i] # queue'[j]
    <3>1. CASE Queued(p)
      BY <1>4, <3>1 DEF GatewayTypeOK, GatewayOK
    <3>2. CASE ~Queued(p)
      <4>1. \A i \in 1..Len(queue) : queue[i] # p
        BY <3>2 DEF Queued, GatewayTypeOK
      <4>2. /\ Len(queue') = Len(queue) + 1
            /\ queue'[Len(queue) + 1] = p
            /\ \A i \in 1..Len(queue) : queue'[i] = queue[i]
            /\ Len(queue) \in Nat
        BY <1>1, <1>4, <3>2 DEF GatewayTypeOK
      <4>3. \A i, j \in 1..Len(queue) : i # j => queue[i] # queue[j]
        BY DEF GatewayTypeOK, GatewayOK
      <4> QED
        BY <4>1, <4>2, <4>3
    <3> QED
      BY <3>1, <3>2
  <2>5. \A i \in 1..Len(queue') : pending'[queue'[i]] # <<>>
    <3>1. \A i \in 1..Len(queue) : queue[i] \in Pairs /\ pending[queue[i]] # <<>>
      BY DEF GatewayTypeOK, GatewayOK
    <3>2. \A i \in 1..Len(queue') :
            (i \in 1..Len(queue) /\ queue'[i] = queue[i]) \/ queue'[i] = p
      BY <1>1, <1>4 DEF GatewayTypeOK
    <3> QED
      BY <2>2, <3>1, <3>2
  <2>6. \A q \in Pairs : pending'[q] # <<>> /\ pending'[q].tx # NoTx =>
          /\ pending'[q].tx \in 1..Len(txs')
          /\ txs'[pending'[q].tx].pair = q
          /\ txs'[pending'[q].tx].mode = pending'[q].mode
    BY <1>1, <2>2, <2>3 DEF GatewayTypeOK, GatewayOK
  <2>7. sent' => queue' # <<>> /\ pending'[Head(queue')].tx # NoTx
    <3>1. CASE sent
      <4>1. queue # <<>> /\ pending[Running].tx # NoTx /\ pending[Running] # <<>>
        BY <3>1, QueueEnds DEF GatewayTypeOK, GatewayOK
      <4>2. Head(queue') = Running /\ queue' # <<>> /\ Running \in Pairs
        BY <1>1, <1>4, <4>1, QueueEnds DEF GatewayTypeOK, Running
      <4> QED
        BY <2>2, <4>1, <4>2
    <3> QED
      BY <2>3, <3>1
  <2> QED
    BY <1>2, <2>2, <2>3, <2>4, <2>5, <2>6, <2>7
       DEF GatewayTypeOK, GatewayOK, SubmitClaim, Running
<1> QED
  BY <1>3, <1>4 DEF SubmitClaim, p

(* The end of a run: its callers go on, the queue moves up.                *)
LEMMA RunEndsOK ==
  ASSUME WorkersOK, GatewayTypeOK, queue # <<>>, NEW success \in BOOLEAN,
         RunEnds(success)
  PROVE  /\ WorkersOK'
         /\ sent' = FALSE
         /\ queue' = Tail(queue)
         /\ queue' \in Seq(Pairs)
         /\ \A i, j \in 1..Len(queue') : i # j => queue'[i] # queue'[j]
         /\ \A i \in 1..Len(queue') : /\ pending[queue'[i]] # <<>>
                                      /\ queue'[i] # Running
                                      /\ queue'[i] \in Pairs
<1>1. queue \in Seq(Pairs)
  BY DEF GatewayTypeOK
<1>2. WorkersOK'
  <2>1. ASSUME NEW w \in Workers, Waiting(w, Head(queue))
        PROVE  /\ [worker[w] EXCEPT !.pc = "settlement"] \in Requests
               /\ [worker[w] EXCEPT !.pc = "fail", !.code = "NOT_SUBMITTED"] \in Requests
    <3>1. worker[w] \in Requests /\ worker[w].pc = "waiting"
      BY <2>1, ActiveRequest DEF Waiting, At
    <3> QED
      BY <3>1 DEF Requests, RequestsAt, RequestSteps, Failures
  <2> QED
    BY <2>1 DEF RunEnds, WorkersOK
<1>3. /\ \A i, j \in 1..Len(queue) : i # j => queue[i] # queue[j]
      /\ \A i \in 1..Len(queue) : pending[queue[i]] # <<>>
  BY DEF GatewayTypeOK, GatewayOK
<1>4. \A i \in 1..Len(Tail(queue)) : i + 1 \in 1..Len(queue) /\ i + 1 # 1
  BY <1>1, QueueEnds
<1>5. /\ \A i, j \in 1..Len(queue') : i # j => queue'[i] # queue'[j]
      /\ \A i \in 1..Len(queue') : /\ pending[queue'[i]] # <<>>
                                   /\ queue'[i] # Running
                                   /\ queue'[i] \in Pairs
  <2>1. queue' = Tail(queue) /\ Running = queue[1] /\ 1 \in 1..Len(queue)
    BY <1>1, QueueEnds DEF RunEnds
  <2>2. \A i \in 1..Len(queue') : queue'[i] = queue[i + 1]
    BY <1>1, <2>1, QueueEnds
  <2>3. \A i \in 1..Len(queue) : queue[i] \in Pairs
    BY <1>1, ElementOfSeq
  <2>4. ASSUME NEW i \in 1..Len(queue')
        PROVE  /\ pending[queue'[i]] # <<>>
               /\ queue'[i] # Running
               /\ queue'[i] \in Pairs
    <3>1. i + 1 \in 1..Len(queue) /\ i + 1 # 1
      BY <1>4, <2>1
    <3> QED
      BY <1>3, <2>1, <2>2, <2>3, <3>1
  <2>5. ASSUME NEW i \in 1..Len(queue'), NEW j \in 1..Len(queue'), i # j
        PROVE  queue'[i] # queue'[j]
    <3>1. i + 1 \in 1..Len(queue) /\ j + 1 \in 1..Len(queue) /\ i + 1 # j + 1
      BY <1>4, <2>1, <2>5
    <3> QED
      BY <1>3, <2>2, <3>1
  <2> QED
    BY <2>4, <2>5
<1> QED
  BY <1>1, <1>2, <1>5, QueueEnds DEF RunEnds

(* A submission that is sent, joined to a transaction, or not sent.        *)
LEMMA RunSendOK ==
  ASSUME WorkersOK, GatewayTypeOK, RunSend
  PROVE  WorkersOK' /\ GatewayTypeOK' /\ UNCHANGED row
<1> DEFINE p == Running
           broadcast == [pair |-> p, mode |-> pending[p].mode, status |-> "pending"]
<1>1. /\ queue # <<>> /\ queue \in Seq(Pairs) /\ txs \in Seq(RegistryTxs)
      /\ p \in Pairs
      /\ pending[p] # <<>>
      /\ pending[p] \in Submissions
      /\ broadcast \in RegistryTxs
  BY QueueEnds DEF RunSend, GatewayTypeOK, GatewayOK, Submissions, RegistryTxs
<1>2. UNCHANGED row
  BY DEF RunSend
<1>3. ASSUME RunFails
      PROVE  /\ WorkersOK'
             /\ txs' = txs => GatewayTypeOK'
             /\ txs' = Append(txs, broadcast) => GatewayTypeOK'
  <2>1. RunEnds(FALSE) /\ UNCHANGED pending
    BY <1>3 DEF RunFails
  <2>2. /\ WorkersOK'
        /\ sent' = FALSE
        /\ queue' \in Seq(Pairs)
        /\ \A i, j \in 1..Len(queue') : i # j => queue'[i] # queue'[j]
        /\ \A i \in 1..Len(queue') : pending[queue'[i]] # <<>>
    BY <1>1, <2>1, RunEndsOK
  <2>3. CASE txs' = txs
    BY <2>1, <2>2, <2>3 DEF GatewayTypeOK, GatewayOK
  <2>4. CASE txs' = Append(txs, broadcast)
    <3> HIDE DEF broadcast, p
    <3>1. /\ txs' \in Seq(RegistryTxs)
          /\ Len(txs') = Len(txs) + 1
          /\ Len(txs) \in Nat
          /\ \A i \in 1..Len(txs) : txs'[i] = txs[i]
      BY <1>1, <2>4
    <3>2. \A q \in Pairs : pending[q] # <<>> /\ pending[q].tx # NoTx =>
            /\ pending[q].tx \in 1..Len(txs')
            /\ txs'[pending[q].tx].pair = q
            /\ txs'[pending[q].tx].mode = pending[q].mode
      BY <3>1 DEF GatewayTypeOK, GatewayOK
    <3> QED
      BY <2>1, <2>2, <3>1, <3>2 DEF GatewayTypeOK, GatewayOK
  <2> QED
    BY <2>2, <2>3, <2>4
<1>4. CASE RunFails /\ UNCHANGED txs
  BY <1>2, <1>3, <1>4
<1>5. CASE /\ pending[p].tx # NoTx
           /\ sent' = TRUE
           /\ UNCHANGED <<worker, queue, pending, txs>>
  BY <1>1, <1>2, <1>5 DEF GatewayTypeOK, GatewayOK, WorkersOK, Running
<1>6. CASE txs' = Append(txs, broadcast) /\ RunFails
  BY <1>2, <1>3, <1>6
<1>7. CASE /\ txs' = Append(txs, broadcast)
           /\ pending[p].tx = NoTx
           /\ pending' = [pending EXCEPT ![p].tx = Len(Append(txs, broadcast))]
           /\ sent' = TRUE
           /\ UNCHANGED <<worker, queue>>
  <2> HIDE DEF p
  <2>1. /\ txs' \in Seq(RegistryTxs)
        /\ Len(txs') = Len(txs) + 1
        /\ Len(txs) \in Nat
        /\ \A i \in 1..Len(txs) : txs'[i] = txs[i]
        /\ txs'[Len(txs')] = broadcast
        /\ Len(txs') \in 1..Len(txs') /\ Len(txs') # NoTx
    BY <1>1, <1>7 DEF NoTx
  <2> DEFINE entry == [mode |-> pending[p].mode, tx |-> Len(txs')]
  <2>2. pending' = [pending EXCEPT ![p] = entry] /\ entry \in Submissions
    <3>1. [pending[p] EXCEPT !.tx = Len(txs')] = entry /\ entry \in Submissions
      BY <1>1, <2>1 DEF Submissions
    <3> QED
      BY <1>7, <3>1
  <2> HIDE DEF entry
  <2>3. /\ pending' \in [Pairs -> {<<>>} \cup Submissions]
        /\ pending'[p] = entry
        /\ entry # <<>>
        /\ \A q \in Pairs : q # p => pending'[q] = pending[q]
    <3>1. entry # <<>>
      BY DEF entry
    <3> QED
      BY <1>1, <2>2, <3>1 DEF GatewayTypeOK
  <2>4. \A q \in Pairs : pending'[q] # <<>> /\ pending'[q].tx # NoTx =>
          /\ pending'[q].tx \in 1..Len(txs')
          /\ txs'[pending'[q].tx].pair = q
          /\ txs'[pending'[q].tx].mode = pending'[q].mode
    <3>1. \A q \in Pairs \ {p} : pending'[q] # <<>> /\ pending'[q].tx # NoTx =>
            /\ pending'[q].tx \in 1..Len(txs')
            /\ txs'[pending'[q].tx].pair = q
            /\ txs'[pending'[q].tx].mode = pending'[q].mode
      BY <2>1, <2>3 DEF GatewayTypeOK, GatewayOK
    <3>2. /\ entry.tx \in 1..Len(txs')
          /\ txs'[entry.tx].pair = p
          /\ txs'[entry.tx].mode = entry.mode
      BY <2>1 DEF entry
    <3> QED
      BY <2>3, <3>1, <3>2
  <2>5. \A i \in 1..Len(queue') : pending'[queue'[i]] # <<>>
    <3>1. \A i \in 1..Len(queue) : queue[i] \in Pairs /\ pending[queue[i]] # <<>>
      BY <1>1, ElementOfSeq DEF GatewayTypeOK, GatewayOK
    <3> QED
      BY <1>7, <2>3, <3>1
  <2>6. pending'[p].tx # NoTx /\ queue' # <<>> /\ p' = p
    BY <1>1, <1>7, <2>1, <2>3 DEF entry, p, Running
  <2>7. pending'[Head(queue')].tx # NoTx
    BY <1>7, <2>6 DEF p, Running
  <2>8. WorkersOK'
    BY <1>7 DEF WorkersOK
  <2>9. queue' = queue /\ sent' \in BOOLEAN
    BY <1>7
  <2>10. \A i, j \in 1..Len(queue') : i # j => queue'[i] # queue'[j]
    BY <2>9 DEF GatewayTypeOK, GatewayOK
  <2>11. GatewayOK'
    BY <2>4, <2>5, <2>6, <2>7, <2>10 DEF GatewayOK, Running
  <2> QED
    BY <1>1, <1>2, <2>1, <2>3, <2>8, <2>9, <2>11 DEF GatewayTypeOK
<1> QED
  BY <1>4, <1>5, <1>6, <1>7 DEF RunSend

(* A receipt: the claim's entry is forgotten when it was mined.            *)
LEMMA RunReceiptOK ==
  ASSUME WorkersOK, GatewayTypeOK, RunReceipt
  PROVE  WorkersOK' /\ GatewayTypeOK' /\ UNCHANGED row
<1>1. queue # <<>> /\ queue \in Seq(Pairs) /\ Running \in Pairs /\ UNCHANGED <<row, txs>>
  BY QueueEnds DEF RunReceipt, GatewayTypeOK
<1>2. CASE RunFails
  <2>1. RunEnds(FALSE) /\ UNCHANGED pending
    BY <1>2 DEF RunFails
  <2> QED
    BY <1>1, <2>1, RunEndsOK DEF GatewayTypeOK, GatewayOK
<1>3. CASE RunEnds(TRUE) /\ pending' = [pending EXCEPT ![Running] = <<>>]
  <2>1. /\ WorkersOK'
        /\ sent' = FALSE
        /\ queue' \in Seq(Pairs)
        /\ \A i, j \in 1..Len(queue') : i # j => queue'[i] # queue'[j]
        /\ \A i \in 1..Len(queue') : /\ pending[queue'[i]] # <<>>
                                     /\ queue'[i] # Running
                                     /\ queue'[i] \in Pairs
    BY <1>1, <1>3, RunEndsOK
  <2>2. /\ pending' \in [Pairs -> {<<>>} \cup Submissions]
        /\ pending'[Running] = <<>>
        /\ \A q \in Pairs : q # Running => pending'[q] = pending[q]
    BY <1>1, <1>3 DEF GatewayTypeOK
  <2>3. \A i \in 1..Len(queue') : pending'[queue'[i]] # <<>>
    BY <2>1, <2>2
  <2>4. \A q \in Pairs : pending'[q] # <<>> /\ pending'[q].tx # NoTx =>
          /\ pending'[q].tx \in 1..Len(txs')
          /\ txs'[pending'[q].tx].pair = q
          /\ txs'[pending'[q].tx].mode = pending'[q].mode
    BY <1>1, <2>2 DEF GatewayTypeOK, GatewayOK
  <2> QED
    BY <1>1, <2>1, <2>2, <2>3, <2>4 DEF GatewayTypeOK, GatewayOK
<1> QED
  BY <1>2, <1>3 DEF RunReceipt

(* The chain changes the status of a transaction, nothing else of it.      *)
LEMMA MineGateway ==
  ASSUME GatewayTypeOK, NEW i \in DOMAIN txs, Mine(i)
  PROVE  /\ GatewayTypeOK'
         /\ UNCHANGED backendVars
         /\ \E status \in {"mined", "reverted"} : txs' = [txs EXCEPT ![i].status = status]
<1>1. UNCHANGED backendVars
  BY DEF Mine
<1>2. PICK status \in {"mined", "reverted"} : txs' = [txs EXCEPT ![i].status = status]
  BY DEF Mine
<1>3. txs \in Seq(RegistryTxs) /\ txs[i] \in RegistryTxs
  BY DEF GatewayTypeOK
<1> DEFINE mined == [txs[i] EXCEPT !.status = status]
<1>4. mined \in RegistryTxs /\ mined.pair = txs[i].pair /\ mined.mode = txs[i].mode
  BY <1>3 DEF RegistryTxs
<1> HIDE DEF mined
<1>5. txs' = [txs EXCEPT ![i] = mined]
  BY <1>2 DEF mined
<1>6. /\ txs' \in Seq(RegistryTxs)
      /\ Len(txs') = Len(txs)
      /\ \A j \in 1..Len(txs) : txs'[j].pair = txs[j].pair /\ txs'[j].mode = txs[j].mode
  BY <1>3, <1>4, <1>5
<1>7. GatewayOK'
  BY <1>1, <1>6 DEF GatewayTypeOK, GatewayOK, backendVars, Running
<1>8. GatewayTypeOK'
  BY <1>1, <1>6, <1>7 DEF GatewayTypeOK, backendVars
<1> QED
  BY <1>1, <1>2, <1>8

(***************************************************************************)
(* The type invariant, and with it the invariant of the contracts.         *)
(***************************************************************************)
VerificationInv == RInv /\ BackendTypeOK

(* A gateway that knows of no submission.                                  *)
LEMMA EmptyGateway ==
  ASSUME txs \in Seq(RegistryTxs), pending = [p \in Pairs |-> <<>>],
         queue = <<>>, sent = FALSE
  PROVE  GatewayTypeOK
<1>1. pending \in [Pairs -> {<<>>} \cup Submissions]
  OBVIOUS
<1>2. queue \in Seq(Pairs) /\ Len(queue) = 0
  OBVIOUS
<1>3. \A p \in Pairs : pending[p] = <<>>
  OBVIOUS
<1>4. GatewayOK
  BY <1>2, <1>3 DEF GatewayOK
<1> QED
  BY <1>1, <1>2, <1>4 DEF GatewayTypeOK

LEMMA InitVerificationInv == VerificationInit => VerificationInv
<1> SUFFICES ASSUME VerificationInit PROVE VerificationInv
  OBVIOUS
<1>1. RInv
  BY InitRInv DEF VerificationInit
<1>2. WorkersOK
  BY DEF VerificationInit, WorkersOK
<1>3. row \in [Pairs -> Attempts]
  BY DEF VerificationInit, NoRow, Attempts
<1>4. GatewayTypeOK
  <2>1. txs \in Seq(RegistryTxs)
    BY DEF VerificationInit
  <2> QED
    BY <2>1, EmptyGateway DEF VerificationInit
<1> QED
  BY <1>1, <1>2, <1>3, <1>4, TypeParts DEF VerificationInv

LEMMA NextBackendType ==
  ASSUME BackendTypeOK, [VerificationNext]_verificationVars
  PROVE  BackendTypeOK'
<1>1. WorkersOK /\ row \in [Pairs -> Attempts] /\ GatewayTypeOK
  BY TypeParts
<1> SUFFICES WorkersOK' /\ row' \in [Pairs -> Attempts] /\ GatewayTypeOK'
  BY DEF BackendTypeOK, WorkersOK, GatewayTypeOK
<1>2. ASSUME UNCHANGED <<gatewayVars, txs>>
      PROVE  GatewayTypeOK'
  BY <1>1, <1>2 DEF gatewayVars, GatewayTypeOK, GatewayOK, Running
<1>3. CASE UNCHANGED <<backendVars, txs>>
  BY <1>1, <1>2, <1>3 DEF backendVars, gatewayVars, WorkersOK
<1>4. ASSUME NEW w \in Workers, NEW e \in Escrows, NEW t \in SourceTxs,
             RequestCondition(w, e, t) \/ RequestDisputeEvidence(w, e, t)
      PROVE  WorkersOK' /\ row' \in [Pairs -> Attempts] /\ GatewayTypeOK'
  BY <1>1, <1>2, <1>4, NewRequestOK
<1>5. ASSUME NEW w \in Workers, WorkerStep(w)
      PROVE  WorkersOK' /\ row' \in [Pairs -> Attempts] /\ GatewayTypeOK'
  BY <1>1, <1>2, <1>5, ReadsOK, RowStepsOK, SubmitClaimGateway DEF WorkerStep
<1>6. CASE GatewayStep
  BY <1>1, <1>6, RunSendOK, RunReceiptOK DEF GatewayStep
<1>7. ASSUME NEW i \in DOMAIN txs, Mine(i)
      PROVE  WorkersOK' /\ row' \in [Pairs -> Attempts] /\ GatewayTypeOK'
  BY <1>1, <1>7, MineGateway DEF backendVars, WorkersOK
<1>8. ASSUME NEW p \in Pairs, FiveMinutesPass(p)
      PROVE  WorkersOK' /\ row' \in [Pairs -> Attempts] /\ GatewayTypeOK'
  <2>1. [row[p] EXCEPT !.fresh = FALSE] \in Attempts
    BY <1>1, <1>8 DEF FiveMinutesPass, Attempts
  <2> QED
    BY <1>1, <1>2, <1>8, <2>1 DEF FiveMinutesPass, WorkersOK
<1>9. CASE Crash
  <2>1. WorkersOK' /\ row' = row
    BY <1>9 DEF Crash, WorkersOK
  <2>2. GatewayTypeOK'
    <3>1. txs' \in Seq(RegistryTxs)
      BY <1>1, <1>9 DEF Crash, GatewayTypeOK
    <3>2. pending' = [p \in Pairs |-> <<>>] /\ queue' = <<>> /\ sent' = FALSE
      BY <1>9 DEF Crash
    <3>3. \A p \in Pairs : pending'[p] = <<>>
      BY <3>2
    <3>4. /\ pending' \in [Pairs -> {<<>>} \cup Submissions]
          /\ queue' \in Seq(Pairs) /\ Len(queue') = 0
          /\ sent' \in BOOLEAN
      <4>1. <<>> \in Seq(Pairs) /\ Len(<<>>) = 0
        OBVIOUS
      <4>2. pending' \in [Pairs -> {<<>>} \cup Submissions]
        BY <3>2
      <4>3. queue' \in Seq(Pairs) /\ Len(queue') = 0
        BY <3>2, <4>1
      <4> QED
        BY <3>2, <4>2, <4>3
    <3>5. GatewayOK'
      BY <3>2, <3>3, <3>4 DEF GatewayOK
    <3> QED
      BY <3>1, <3>4, <3>5 DEF GatewayTypeOK
  <2> QED
    BY <1>1, <2>1, <2>2
<1> QED
  BY <1>3, <1>4, <1>5, <1>6, <1>7, <1>8, <1>9
     DEF VerificationNext, verificationVars, PartiesStep

LEMMA NextVerificationInv ==
  VerificationInv /\ [VerificationNext]_verificationVars => VerificationInv'
BY StepIsSystemStep, NextBackendType, NextRInv DEF VerificationInv

LEMMA VerificationInvariance == VerificationSpec => []VerificationInv
BY InitVerificationInv, NextVerificationInv, PTL DEF VerificationSpec

(* Attempts, requests, gateway and transactions have their types; the      *)
(* gateway waits for a receipt only of a transaction of the claim it runs. *)
THEOREM VerificationTypeCorrect == VerificationSpec => []VerificationTypeOK
<1>1. VerificationInv => VerificationTypeOK
  BY DEF VerificationInv, RInv, VerificationTypeOK
<1> QED
  BY <1>1, VerificationInvariance, PTL

(* The backend uses the contracts as anyone does: what is proved of them   *)
(* holds under it.                                                         *)
THEOREM VerificationImplementsSystemSpec == VerificationSpec => SystemSpec
<1>1. VerificationInit => SystemInit
  BY DEF VerificationInit
<1>2. VerificationInv /\ [VerificationNext]_verificationVars
        => [SystemNext]_systemVars
  BY StepIsSystemStep DEF VerificationInv
<1> QED
  BY <1>1, <1>2, VerificationInvariance, PTL DEF VerificationSpec, SystemSpec

(***************************************************************************)
(* How a step changes a request.                                           *)
(***************************************************************************)
Begun(w) ==
  \E e \in Escrows, t \in SourceTxs :
    \/ worker'[w] = NewWorker("start", e, t, ConditionMode(e))
    \/ worker'[w] = NewWorker("bound", e, t, "DisputeEvidence")

\* It goes on with what it is about; a dispute submission has no attempt to
\* save or to mark as failed, and what is saved has been read from the escrow.
GoesOn(w) ==
  /\ worker[w].pc # "idle"
  /\ worker'[w].pc \notin {"idle", "start"}
  /\ worker'[w].escrow = worker[w].escrow
  /\ worker'[w].tx = worker[w].tx
  /\ worker'[w].mode = worker[w].mode
  /\ worker'[w].pc = "fail" => worker[w].mode # "DisputeEvidence"
  /\ worker'[w].pc = "save" => /\ SettlementConfirmed(w)
                               /\ worker[w].mode # "DisputeEvidence"
  /\ worker[w].pc = "start" =>
       /\ Claimable(row[Pair(w)])
       /\ \A v \in Workers \ {w} : worker'[v] = worker[v]
       /\ row' = [row EXCEPT ![Pair(w)] =
                    [status |-> "verification_in_progress", fresh |-> TRUE]]

Changes(w) == worker'[w] = worker[w] \/ worker'[w] = Idle \/ Begun(w) \/ GoesOn(w)

(* A step of a request changes that request in one of these ways.          *)
LEMMA RequestStepChanges ==
  ASSUME WorkersOK, NEW w \in Workers, WorkerStep(w)
  PROVE  /\ \A v \in Workers \ {w} : worker'[v] = worker[v]
         /\ worker'[w] = Idle \/ GoesOn(w)
<1> USE DEF At
<1>1. worker[w] \in Requests
  BY ActiveRequest DEF WorkerStep, StartVerification, ReadBoundEscrow,
     ReadConsumed, ReadDisputeContext, SubmitClaim, ReadSettlement,
     SaveVerified, FinishFailure
<1>2. ASSUME NEW step \in RequestSteps \ {"start", "save"}, Goto(w, step),
             worker[w].pc # "start"
      PROVE  /\ \A v \in Workers \ {w} : worker'[v] = worker[v]
             /\ GoesOn(w)
  <2>1. worker'[w] = [worker[w] EXCEPT !.pc = step]
    BY <1>2 DEF Goto, WorkersOK
  <2> QED
    BY <1>1, <1>2, <2>1 DEF Goto, WorkersOK, GoesOn, Requests, RequestsAt, RequestSteps
<1>3. ASSUME NEW code \in Failures, Fails(w, code), worker[w].pc # "start"
      PROVE  /\ \A v \in Workers \ {w} : worker'[v] = worker[v]
             /\ worker'[w] = Idle \/ GoesOn(w)
  <2>1. worker'[w] = IF worker[w].mode = "DisputeEvidence" THEN Idle
                     ELSE [worker[w] EXCEPT !.pc = "fail", !.code = code]
    BY <1>3 DEF Fails, WorkersOK
  <2> QED
    BY <1>1, <1>3, <2>1 DEF Fails, WorkersOK, GoesOn, Requests, RequestsAt, RequestSteps
<1>4. ASSUME Ends(w)
      PROVE  /\ \A v \in Workers \ {w} : worker'[v] = worker[v]
             /\ worker'[w] = Idle
  BY <1>4 DEF Ends, WorkersOK
<1>5. CASE StartVerification(w)
  <2>1. CASE Ends(w)
    BY <1>4, <2>1
  <2>2. CASE /\ Claimable(row[Pair(w)])
             /\ row' = [row EXCEPT ![Pair(w)] =
                          [status |-> "verification_in_progress", fresh |-> TRUE]]
             /\ Goto(w, "bound")
    <3>1. worker'[w] = [worker[w] EXCEPT !.pc = "bound"]
      BY <2>2 DEF Goto, WorkersOK
    <3> QED
      BY <1>1, <1>5, <2>2, <3>1
         DEF StartVerification, Goto, WorkersOK, GoesOn, Requests, RequestsAt
  <2> QED
    BY <1>5, <2>1, <2>2 DEF StartVerification
<1>6. CASE ReadBoundEscrow(w)
  <2>1. CASE \E already \in BOOLEAN :
               worker' = [worker EXCEPT ![w].pc = "consumed",
                                        ![w].already = already]
    <3>1. PICK already \in BOOLEAN :
               worker' = [worker EXCEPT ![w].pc = "consumed",
                                        ![w].already = already]
      BY <2>1
    <3>2. worker'[w] = [worker[w] EXCEPT !.pc = "consumed", !.already = already]
      BY <3>1 DEF WorkersOK
    <3> QED
      BY <1>1, <1>6, <3>1, <3>2
         DEF ReadBoundEscrow, WorkersOK, GoesOn, Requests, RequestsAt
  <2> QED
    BY <1>3, <1>6, <2>1 DEF ReadBoundEscrow, Failures
<1>7. CASE ReadConsumed(w)
  BY <1>2, <1>3, <1>7 DEF ReadConsumed, Failures, RequestSteps
<1>8. CASE ReadDisputeContext(w)
  BY <1>2, <1>3, <1>8 DEF ReadDisputeContext, Failures, RequestSteps
<1>9. CASE SubmitClaim(w)
  BY <1>2, <1>3, <1>9 DEF SubmitClaim, Failures, RequestSteps
<1>10. CASE ReadSettlement(w)
  <2>1. CASE /\ SettlementConfirmed(w) /\ worker[w].mode # "DisputeEvidence"
             /\ Goto(w, "save")
    <3>1. worker'[w] = [worker[w] EXCEPT !.pc = "save"]
      BY <2>1 DEF Goto, WorkersOK
    <3> QED
      BY <1>1, <1>10, <2>1, <3>1
         DEF ReadSettlement, Goto, WorkersOK, GoesOn, Requests, RequestsAt
  <2> QED
    BY <1>3, <1>4, <1>10, <2>1 DEF ReadSettlement, Failures
<1>11. CASE SaveVerified(w)
  BY <1>3, <1>4, <1>11 DEF SaveVerified, Failures
<1>12. CASE FinishFailure(w)
  BY <1>4, <1>12 DEF FinishFailure
<1> QED
  BY <1>5, <1>6, <1>7, <1>8, <1>9, <1>10, <1>11, <1>12 DEF WorkerStep

(* The end of a run lets its callers go on.                                *)
LEMMA RunEndsChanges ==
  ASSUME WorkersOK, NEW success \in BOOLEAN, RunEnds(success), NEW w \in Workers
  PROVE  worker'[w] = worker[w] \/ worker'[w] = Idle \/ GoesOn(w)
<1>1. CASE ~Waiting(w, Head(queue))
  BY <1>1 DEF RunEnds
<1>2. CASE Waiting(w, Head(queue))
  <2>1. worker[w] \in Requests /\ worker[w].pc = "waiting"
    BY <1>2, ActiveRequest DEF Waiting, At
  <2>2. worker'[w] = IF success THEN [worker[w] EXCEPT !.pc = "settlement"]
                     ELSE IF worker[w].mode = "DisputeEvidence" THEN Idle
                     ELSE [worker[w] EXCEPT !.pc = "fail", !.code = "NOT_SUBMITTED"]
    BY <1>2 DEF RunEnds
  <2> QED
    BY <2>1, <2>2 DEF GoesOn, Requests, RequestsAt
<1> QED
  BY <1>1, <1>2

LEMMA RequestChanges ==
  ASSUME WorkersOK, [VerificationNext]_verificationVars, NEW w \in Workers
  PROVE  Changes(w)
<1>1. CASE UNCHANGED worker
  BY <1>1 DEF Changes
<1>2. ASSUME NEW v \in Workers, NEW e \in Escrows, NEW t \in SourceTxs,
             RequestCondition(v, e, t) \/ RequestDisputeEvidence(v, e, t)
      PROVE  Changes(w)
  BY <1>2 DEF RequestCondition, RequestDisputeEvidence, Changes, Begun, WorkersOK
<1>3. ASSUME NEW v \in Workers, WorkerStep(v)
      PROVE  Changes(w)
  BY <1>3, RequestStepChanges DEF Changes
<1>4. CASE GatewayStep
  <2>1. UNCHANGED worker \/ \E success \in BOOLEAN : RunEnds(success)
    BY <1>4 DEF GatewayStep, RunSend, RunReceipt, RunFails
  <2> QED
    BY <2>1, RunEndsChanges DEF Changes
<1>5. CASE Crash
  BY <1>5 DEF Crash, Changes
<1>6. ASSUME NEW i \in DOMAIN txs, Mine(i)
      PROVE  UNCHANGED worker
  BY <1>6 DEF Mine, backendVars
<1>7. ASSUME NEW p \in Pairs, FiveMinutesPass(p)
      PROVE  UNCHANGED worker
  BY <1>7 DEF FiveMinutesPass
<1>8. CASE PartiesStep
  BY <1>1, <1>8 DEF PartiesStep, backendVars
<1> QED
  BY <1>1, <1>2, <1>3, <1>4, <1>5, <1>6, <1>7, <1>8
     DEF VerificationNext, verificationVars, backendVars

(* How a step changes an attempt.                                          *)
LEMMA AttemptChanges ==
  ASSUME WorkersOK, row \in [Pairs -> Attempts],
         [VerificationNext]_verificationVars, NEW p \in Pairs
  PROVE  \/ row'[p] = row[p]
         \/ /\ Claimable(row[p])
            /\ row'[p] = [status |-> "verification_in_progress", fresh |-> TRUE]
         \/ FiveMinutesPass(p)
         \/ \E w \in Workers :
              /\ At(w, "save") /\ Pair(w) = p /\ Ends(w)
              /\ row'[p] = [status |-> "verified"]
         \/ \E w \in Workers :
              /\ At(w, "fail") /\ Pair(w) = p /\ Ends(w)
              /\ row'[p].status = "verification_failed"
<1>1. CASE UNCHANGED row
  BY <1>1
<1>2. ASSUME NEW w \in Workers, WorkerStep(w)
      PROVE  \/ UNCHANGED row
             \/ StartVerification(w) \/ SaveVerified(w) \/ FinishFailure(w)
  BY <1>2 DEF WorkerStep, ReadBoundEscrow, ReadConsumed, ReadDisputeContext,
              SubmitClaim, ReadSettlement
<1>3. ASSUME NEW w \in Workers, StartVerification(w), row'[p] # row[p]
      PROVE  /\ Claimable(row[p])
             /\ row'[p] = [status |-> "verification_in_progress", fresh |-> TRUE]
  BY <1>3 DEF StartVerification
<1>4. ASSUME NEW w \in Workers, SaveVerified(w), row'[p] # row[p]
      PROVE  /\ At(w, "save") /\ Pair(w) = p /\ Ends(w)
             /\ row'[p] = [status |-> "verified"]
  BY <1>4 DEF SaveVerified
<1>5. ASSUME NEW w \in Workers, FinishFailure(w), row'[p] # row[p]
      PROVE  /\ At(w, "fail") /\ Pair(w) = p /\ Ends(w)
             /\ row'[p].status = "verification_failed"
  BY <1>5 DEF FinishFailure
<1>6. ASSUME NEW q \in Pairs, FiveMinutesPass(q), row'[p] # row[p]
      PROVE  FiveMinutesPass(p)
  BY <1>6 DEF FiveMinutesPass
<1>7. ASSUME NEW w \in Workers, NEW e \in Escrows, NEW t \in SourceTxs,
             RequestCondition(w, e, t) \/ RequestDisputeEvidence(w, e, t)
      PROVE  UNCHANGED row
  BY <1>7 DEF RequestCondition, RequestDisputeEvidence
<1>8. ASSUME NEW i \in DOMAIN txs, Mine(i)
      PROVE  UNCHANGED row
  BY <1>8 DEF Mine, backendVars
<1>9. GatewayStep \/ PartiesStep \/ Crash => UNCHANGED row
  BY DEF GatewayStep, RunSend, RunReceipt, PartiesStep, backendVars, Crash
<1> QED
  BY <1>1, <1>2, <1>3, <1>4, <1>5, <1>6, <1>7, <1>8, <1>9
     DEF VerificationNext, verificationVars, backendVars

(***************************************************************************)
(* Verified is on the chain, whatever fails.                               *)
(***************************************************************************)
\* A request with an attempt submits in the mode of its agreement; one with
\* dispute evidence has no attempt to save or to mark.
RequestsFit ==
  \A w \in Workers : worker[w].pc # "idle" =>
    /\ worker[w].mode \in {"DisputeEvidence", ConditionMode(worker[w].escrow)}
    /\ worker[w].pc \in {"start", "save", "fail"} =>
         worker[w].mode # "DisputeEvidence"

OnChain(p) ==
  /\ committed[p[1]].verifiedClaimId = IdOf(p)
  /\ directConditionSettlement[p[1]] => committed[p[1]].state = "Complete"

SavedIsOnChain == \A w \in Workers : At(w, "save") => OnChain(Pair(w))

ChainInv == RequestsFit /\ SavedIsOnChain /\ VerifiedIsOnChain

(* What was once on the chain stays there.                                 *)
LEMMA OnChainStays ==
  ASSUME RInv, [SystemNext]_systemVars, NEW p \in Pairs, OnChain(p)
  PROVE  OnChain(p)'
<1>1. p[1] \in Escrows /\ IdOf(p) # Zero
  BY ClaimOfPairFacts
<1>2. IInv /\ [Next]_vars
  BY SystemStepIsEscrowStep DEF RInv, IInv
<1>3. Evolves(p[1], committed[p[1]], committed'[p[1]])
  BY <1>1, <1>2, CommittedEvolves
<1> QED
  BY <1>1, <1>3 DEF OnChain, Evolves, Final

LEMMA NextRequestsFit ==
  ASSUME WorkersOK, RequestsFit, [VerificationNext]_verificationVars
  PROVE  RequestsFit'
<1> SUFFICES ASSUME NEW w \in Workers, worker'[w].pc # "idle"
             PROVE  /\ worker'[w].mode \in
                          {"DisputeEvidence", ConditionMode(worker'[w].escrow)}
                    /\ worker'[w].pc \in {"start", "save", "fail"} =>
                         worker'[w].mode # "DisputeEvidence"
  BY DEF RequestsFit, ConditionMode
<1>1. Changes(w)
  BY RequestChanges
<1>2. CASE worker'[w] = worker[w]
  BY <1>2 DEF RequestsFit
<1>3. worker'[w] # Idle
  BY DEF Idle
<1>4. CASE Begun(w)
  BY <1>4 DEF Begun, NewWorker, ConditionMode
<1>5. CASE GoesOn(w)
  BY <1>5 DEF GoesOn, RequestsFit
<1> QED
  BY <1>1, <1>2, <1>3, <1>4, <1>5 DEF Changes

(* A settlement that was confirmed is on the chain.                        *)
LEMMA ConfirmedIsOnChain ==
  ASSUME RequestsFit, NEW w \in Workers, worker[w].pc # "idle",
         SettlementConfirmed(w), worker[w].mode # "DisputeEvidence"
  PROVE  OnChain(Pair(w))
BY DEF RequestsFit, SettlementConfirmed, Recorded, ConditionMode, OnChain, Pair

LEMMA NextChainInv ==
  ASSUME VerificationInv, ChainInv, [VerificationNext]_verificationVars
  PROVE  ChainInv'
<1>1. WorkersOK /\ row \in [Pairs -> Attempts] /\ RInv
  BY TypeParts DEF VerificationInv
<1>2. [SystemNext]_systemVars
  BY StepIsSystemStep DEF VerificationInv
<1>3. RequestsFit'
  BY <1>1, NextRequestsFit DEF ChainInv
<1>4. ASSUME NEW w \in Workers, At(w, "save")'
      PROVE  OnChain(Pair(w))'
  <2>1. /\ worker[w].pc # "idle"
        /\ Pair(w)' = Pair(w)
        /\ OnChain(Pair(w))
    <3>1. Changes(w) /\ worker'[w].pc = "save"
      BY <1>1, <1>4, RequestChanges DEF At
    <3>2. CASE worker'[w] = worker[w]
      BY <3>1, <3>2 DEF ChainInv, SavedIsOnChain, At, Pair
    <3>3. worker'[w] # Idle
      BY <3>1 DEF Idle
    <3>5. ~Begun(w)
      <4>1. \A step, e, t, mode : NewWorker(step, e, t, mode).pc = step
        BY DEF NewWorker
      <4> QED
        BY <3>1, <4>1 DEF Begun
    <3>4. CASE GoesOn(w)
      BY <3>1, <3>4, ConfirmedIsOnChain DEF GoesOn, ChainInv, Pair
    <3> QED
      BY <3>1, <3>2, <3>3, <3>4, <3>5 DEF Changes
  <2>2. PICK p \in Pairs : p = Pair(w)
    BY <1>1, <2>1, ActiveRequest
  <2>3. OnChain(p) /\ p = Pair(w)'
    BY <2>1, <2>2
  <2>4. OnChain(p)'
    BY <1>1, <1>2, <2>3, OnChainStays
  <2> QED
    BY <2>3, <2>4 DEF OnChain
<1>5. ASSUME NEW p \in Pairs, row'[p].status = "verified"
      PROVE  OnChain(p)'
  <2>1. OnChain(p)
    <3>1. CASE row'[p] = row[p]
      BY <1>5, <3>1 DEF ChainInv, VerifiedIsOnChain, OnChain
    <3>2. ASSUME NEW w \in Workers, At(w, "save"), Pair(w) = p
          PROVE  OnChain(p)
      BY <3>2 DEF ChainInv, SavedIsOnChain
    <3>3. ~FiveMinutesPass(p)
      BY <1>1, <1>5 DEF FiveMinutesPass, Attempts
    <3> QED
      BY <1>1, <1>5, <3>1, <3>2, <3>3, AttemptChanges
  <2> QED
    BY <1>1, <1>2, <2>1, OnChainStays
<1> QED
  BY <1>3, <1>4, <1>5 DEF ChainInv, SavedIsOnChain, VerifiedIsOnChain, OnChain

(* What the table calls verified is on the chain, and stays there.         *)
THEOREM VerifiedAlwaysOnChain == VerificationSpec => []VerifiedIsOnChain
<1>1. VerificationInit => ChainInv
  BY DEF VerificationInit, Idle, NoRow, ChainInv, RequestsFit, SavedIsOnChain, At,
         VerifiedIsOnChain
<1>2. VerificationInv /\ ChainInv /\ [VerificationNext]_verificationVars => ChainInv'
  BY NextChainInv
<1>3. ChainInv => VerifiedIsOnChain
  BY DEF ChainInv
<1> QED
  BY <1>1, <1>2, <1>3, VerificationInvariance, PTL DEF VerificationSpec

(***************************************************************************)
(* One request at a time on an attempt, as long as none outlives the five  *)
(* minutes after which its attempt may be taken over.                      *)
(***************************************************************************)
InProgress(p) == row[p].status = "verification_in_progress" /\ row[p].fresh

AttemptsOwned ==
  \A p \in Pairs, w \in Workers : OnAttempt(w, p) => InProgress(p)

AttemptInv == RequestsFit /\ AttemptsOwned /\ OneWorkerPerAttempt

(* A request on an attempt after a step was on it before, or has started   *)
(* it in this very step.                                                   *)
LEMMA OnAttemptBefore ==
  ASSUME WorkersOK, [VerificationNext]_verificationVars,
         NEW p \in Pairs, NEW w \in Workers, OnAttempt(w, p)'
  PROVE  \/ OnAttempt(w, p)
         \/ /\ At(w, "start")
            /\ Pair(w) = p
            /\ Claimable(row[p])
            /\ row' = [row EXCEPT ![p] =
                         [status |-> "verification_in_progress", fresh |-> TRUE]]
            /\ \A v \in Workers \ {w} : worker'[v] = worker[v]
<1>1. /\ worker'[w].pc \notin {"idle", "start"}
      /\ worker'[w].mode # "DisputeEvidence"
      /\ <<worker'[w].escrow, worker'[w].tx>> = p
  BY DEF OnAttempt, Pair
<1>2. Changes(w)
  BY RequestChanges
<1>3. CASE worker'[w] = worker[w]
  BY <1>1, <1>3 DEF OnAttempt, Pair
<1>4. worker'[w] # Idle
  BY <1>1 DEF Idle
<1>5. ~Begun(w)
  <2>1. \A step, e, t, mode : /\ NewWorker(step, e, t, mode).pc = step
                              /\ NewWorker(step, e, t, mode).mode = mode
    BY DEF NewWorker
  <2> QED
    BY <1>1, <2>1 DEF Begun
<1>6. CASE GoesOn(w)
  BY <1>1, <1>6 DEF GoesOn, OnAttempt, Pair, At
<1> QED
  BY <1>2, <1>3, <1>4, <1>5, <1>6 DEF Changes

LEMMA NextAttemptInv ==
  ASSUME "slow" \notin Faults, WorkersOK, row \in [Pairs -> Attempts],
         AttemptInv, [VerificationNext]_verificationVars
  PROVE  AttemptInv'
<1>1. RequestsFit'
  BY NextRequestsFit DEF AttemptInv
<1>2. ASSUME NEW p \in Pairs, NEW w \in Workers, OnAttempt(w, p)', OnAttempt(w, p)
      PROVE  InProgress(p)'
  <2>1. InProgress(p)
    BY <1>2 DEF AttemptInv, AttemptsOwned
  <2>2. ~FiveMinutesPass(p)
    BY <1>2 DEF FiveMinutesPass, Fault
  <2>3. ASSUME NEW v \in Workers, At(v, "save") \/ At(v, "fail"), Pair(v) = p
        PROVE  ~Ends(v)
    <3>1. OnAttempt(v, p)
      BY <2>3 DEF OnAttempt, At, AttemptInv, RequestsFit
    <3>2. v = w
      BY <1>2, <3>1 DEF AttemptInv, OneWorkerPerAttempt
    <3>3. worker'[w].pc # "idle"
      BY <1>2 DEF OnAttempt
    <3> QED
      BY <3>2, <3>3 DEF Ends, WorkersOK, Idle
  <2>4. ~Claimable(row[p])
    BY <2>1 DEF InProgress, Claimable
  <2>5. row'[p] = row[p]
    BY <2>2, <2>3, <2>4, AttemptChanges
  <2> QED
    BY <2>1, <2>5 DEF InProgress
<1>3. AttemptsOwned'
  <2>1. ASSUME NEW p \in Pairs, NEW w \in Workers, OnAttempt(w, p)'
        PROVE  InProgress(p)'
    BY <1>2, <2>1, OnAttemptBefore DEF InProgress
  <2> QED
    BY <2>1 DEF AttemptsOwned, OnAttempt, InProgress, Pair
<1>4. OneWorkerPerAttempt'
  <2>1. ASSUME NEW p \in Pairs, NEW v \in Workers, NEW w \in Workers,
               OnAttempt(v, p)', OnAttempt(w, p)', ~OnAttempt(w, p)
        PROVE  v = w
    <3>1. /\ At(w, "start")
          /\ Claimable(row[p])
          /\ \A u \in Workers \ {w} : worker'[u] = worker[u]
      BY <2>1, OnAttemptBefore
    <3>2. ~InProgress(p)
      BY <3>1 DEF InProgress, Claimable
    <3>3. ~OnAttempt(v, p)
      BY <3>2 DEF AttemptInv, AttemptsOwned
    <3>4. ASSUME v # w PROVE FALSE
      <4>1. worker'[v] = worker[v]
        BY <3>1, <3>4
      <4> QED
        BY <2>1, <3>3, <4>1 DEF OnAttempt, Pair
    <3> QED
      BY <3>4
  <2>2. ASSUME NEW p \in Pairs, NEW v \in Workers, NEW w \in Workers,
               OnAttempt(v, p)', OnAttempt(w, p)'
        PROVE  v = w
    BY <2>1, <2>2 DEF AttemptInv, OneWorkerPerAttempt
  <2> QED
    BY <2>2 DEF OneWorkerPerAttempt, OnAttempt, Pair
<1> QED
  BY <1>1, <1>3, <1>4 DEF AttemptInv

LEMMA AttemptInvariance ==
  ASSUME "slow" \notin Faults
  PROVE  VerificationSpec => []AttemptInv
<1>1. VerificationInit => AttemptInv
  BY DEF VerificationInit, Idle, AttemptInv, RequestsFit, AttemptsOwned, OnAttempt,
         OneWorkerPerAttempt
<1>2. VerificationInv /\ AttemptInv /\ [VerificationNext]_verificationVars
        => AttemptInv'
  BY NextAttemptInv, TypeParts DEF VerificationInv
<1> QED
  BY <1>1, <1>2, VerificationInvariance, PTL DEF VerificationSpec

(* Unless requests are slow an attempt is worked on by one of them.        *)
THEOREM OneWorkerUnlessSlow ==
  ASSUME "slow" \notin Faults
  PROVE  VerificationSpec => []OneWorkerPerAttempt
<1>1. AttemptInv => OneWorkerPerAttempt
  BY DEF AttemptInv
<1> QED
  BY <1>1, AttemptInvariance, PTL

(* Unless requests are slow a verified attempt stays verified.             *)
THEOREM VerifiedStandsUnlessSlow ==
  ASSUME "slow" \notin Faults
  PROVE  VerificationSpec => VerifiedStands
<1>1. ASSUME VerificationInv, AttemptInv, [VerificationNext]_verificationVars
      PROVE  [\A p \in Pairs : row[p].status = "verified" =>
                row'[p].status = "verified"]_verificationVars
  <2>1. WorkersOK /\ row \in [Pairs -> Attempts]
    BY <1>1, TypeParts DEF VerificationInv
  <2>2. ASSUME NEW p \in Pairs, row[p].status = "verified"
        PROVE  row'[p].status = "verified"
    <3>1. ~Claimable(row[p]) /\ ~FiveMinutesPass(p)
      BY <2>2 DEF Claimable, FiveMinutesPass
    <3>2. ASSUME NEW w \in Workers, At(w, "fail"), Pair(w) = p
          PROVE  FALSE
      <4>1. OnAttempt(w, p)
        BY <1>1, <3>2 DEF OnAttempt, At, AttemptInv, RequestsFit
      <4> QED
        BY <1>1, <2>2, <4>1 DEF AttemptInv, AttemptsOwned, InProgress
    <3> QED
      BY <1>1, <2>1, <2>2, <3>1, <3>2, AttemptChanges
  <2> QED
    BY <2>2
<1> QED
  BY <1>1, VerificationInvariance, AttemptInvariance, PTL
     DEF VerificationSpec, VerifiedStands

(***************************************************************************)
(* One broadcast of a claim, while the process lives and a node that has   *)
(* taken a transaction says so.                                            *)
(***************************************************************************)
\* A claim whose transaction was not executed with success is remembered with
\* it; one whose was is consumed, so that no static call accepts it again.
Remembered ==
  \A i \in 1..Len(txs) :
    IF txs[i].status = "mined" THEN IdOf(txs[i].pair) \in consumedClaims
    ELSE pending[txs[i].pair] # <<>> /\ pending[txs[i].pair].tx = i

Distinct == \A i, j \in 1..Len(txs) : txs[i].pair = txs[j].pair => i = j

BroadcastInv == Remembered /\ Distinct

(* The registry forgets no claim.                                          *)
LEMMA ConsumedGrows ==
  ASSUME [SystemNext]_systemVars
  PROVE  consumedClaims \subseteq consumedClaims'
BY DEF SystemNext, systemVars, Submit, EscrowStep, registryVars,
       SubmitVerifiedClaim, SubmitVerifiedConditionClaim,
       SubmitVerifiedPrerequisiteClaim, AcceptVerifiedClaim

(* A step that sends nothing and forgets no submission.                    *)
LEMMA NothingSent ==
  ASSUME BroadcastInv, txs \in Seq(RegistryTxs), txs' = txs,
         consumedClaims \subseteq consumedClaims',
         \A p \in Pairs : pending[p] # <<>> => pending'[p] = pending[p]
  PROVE  BroadcastInv'
<1>1. \A i \in 1..Len(txs) : txs[i].pair \in Pairs
  <2>1. \A i \in 1..Len(txs) : txs[i] \in RegistryTxs
    BY ElementOfSeq
  <2> QED
    BY <2>1 DEF RegistryTxs
<1> QED
  BY <1>1 DEF BroadcastInv, Remembered, Distinct, IdOf, ClaimOfPair

(* What is sent is new: its claim is not consumed and has no transaction.  *)
LEMMA SendBroadcasts ==
  ASSUME "lostSend" \notin Faults, GatewayTypeOK, BroadcastInv, RunSend
  PROVE  BroadcastInv'
<1> DEFINE p == Running
           broadcast == [pair |-> p, mode |-> pending[p].mode, status |-> "pending"]
<1>1. /\ queue # <<>> /\ p \in Pairs /\ pending[p] # <<>> /\ pending[p] \in Submissions
      /\ txs \in Seq(RegistryTxs) /\ broadcast \in RegistryTxs
      /\ consumedClaims' = consumedClaims
  BY QueueEnds DEF RunSend, GatewayTypeOK, GatewayOK, Submissions, RegistryTxs, systemVars
<1>2. CASE UNCHANGED <<pending, txs>>
  BY <1>1, <1>2, NothingSent
<1>3. CASE /\ Accepts(ClaimOfPair(p), pending[p].mode)
           /\ pending[p].tx = NoTx
           /\ txs' = Append(txs, broadcast)
           /\ pending' = [pending EXCEPT ![p].tx = Len(Append(txs, broadcast))]
  <2> HIDE DEF p
  <2>1. /\ Len(txs') = Len(txs) + 1
        /\ Len(txs) \in Nat
        /\ \A i \in 1..Len(txs) : txs'[i] = txs[i] /\ txs[i].pair \in Pairs
        /\ txs'[Len(txs')] = broadcast
    <3>1. \A i \in 1..Len(txs) : txs[i] \in RegistryTxs
      BY <1>1, ElementOfSeq
    <3> HIDE DEF broadcast
    <3> QED
      BY <1>1, <1>3, <3>1 DEF RegistryTxs
  <2>2. \A i \in 1..Len(txs) : txs[i].pair # p
    <3>1. IdOf(p) \notin consumedClaims
      BY <1>3 DEF Accepts, Unused, IdOf
    <3>2. \A i \in 1..Len(txs) : i # NoTx
      BY DEF NoTx
    <3> QED
      BY <1>3, <3>1, <3>2 DEF BroadcastInv, Remembered
  <2>3. /\ \A q \in Pairs : q # p => pending'[q] = pending[q]
        /\ pending'[p].tx = Len(txs')
        /\ pending'[p] # <<>>
    <3>1. pending' = [pending EXCEPT ![p] = [pending[p] EXCEPT !.tx = Len(txs')]]
      BY <1>3
    <3>2. /\ [pending[p] EXCEPT !.tx = Len(txs')].tx = Len(txs')
          /\ [pending[p] EXCEPT !.tx = Len(txs')] # <<>>
      BY <1>1, <2>1 DEF Submissions
    <3> QED
      BY <1>1, <3>1, <3>2 DEF GatewayTypeOK
  <2>4. Distinct'
    <3>1. \A i \in 1..Len(txs') : i \in 1..Len(txs) \/ i = Len(txs')
      BY <2>1
    <3>2. broadcast.pair = p
      OBVIOUS
    <3> HIDE DEF broadcast
    <3> QED
      BY <2>1, <2>2, <3>1, <3>2 DEF BroadcastInv, Distinct
  <2>5. Remembered'
    <3> SUFFICES ASSUME NEW i \in 1..Len(txs')
                 PROVE  IF txs'[i].status = "mined"
                        THEN IdOf(txs'[i].pair) \in consumedClaims'
                        ELSE /\ pending'[txs'[i].pair] # <<>>
                             /\ pending'[txs'[i].pair].tx = i
      BY DEF Remembered, IdOf, ClaimOfPair
    <3>1. CASE i \in 1..Len(txs)
      BY <1>1, <2>1, <2>2, <2>3, <3>1 DEF BroadcastInv, Remembered
    <3>2. CASE i = Len(txs')
      <4>1. broadcast.pair = p /\ broadcast.status = "pending"
        OBVIOUS
      <4> HIDE DEF broadcast
      <4> QED
        BY <2>1, <2>3, <3>2, <4>1
    <3> QED
      BY <2>1, <3>1, <3>2
  <2> QED
    BY <2>4, <2>5 DEF BroadcastInv
<1> QED
  BY <1>2, <1>3 DEF RunSend, RunFails, Fault

LEMMA NextBroadcastInv ==
  ASSUME Faults \cap {"crash", "lostSend"} = {}, VerificationInv, BroadcastInv,
         [VerificationNext]_verificationVars
  PROVE  BroadcastInv'
<1>1. /\ WorkersOK /\ GatewayTypeOK /\ BackendTypeOK
      /\ txs \in Seq(RegistryTxs)
      /\ pending \in [Pairs -> {<<>>} \cup Submissions]
  BY TypeParts DEF VerificationInv, GatewayTypeOK
<1>2. consumedClaims \subseteq consumedClaims'
  BY StepIsSystemStep, ConsumedGrows DEF VerificationInv
<1>3. ASSUME UNCHANGED <<pending, txs>>
      PROVE  BroadcastInv'
  BY <1>1, <1>2, <1>3, NothingSent
<1>4. ASSUME NEW w \in Workers, SubmitClaim(w)
      PROVE  BroadcastInv'
  <2>1. txs' = txs
    BY <1>4 DEF SubmitClaim
  <2>2. \A p \in Pairs : pending[p] # <<>> => pending'[p] = pending[p]
    BY <1>1, <1>4 DEF SubmitClaim
  <2> QED
    BY <1>1, <1>2, <2>1, <2>2, NothingSent
<1>5. CASE RunSend
  BY <1>1, <1>5, SendBroadcasts
<1>6. CASE RunReceipt
  <2>1. CASE RunFails
    BY <1>3, <1>6, <2>1 DEF RunFails, RunReceipt
  <2>2. CASE /\ txs[pending[Running].tx].status = "mined"
             /\ pending' = [pending EXCEPT ![Running] = <<>>]
    <3>1. /\ queue # <<>> /\ Running \in Pairs
          /\ \A i \in 1..Len(txs) : txs[i].pair \in Pairs
      <4>1. \A i \in 1..Len(txs) : txs[i] \in RegistryTxs
        BY <1>1, ElementOfSeq
      <4> QED
        BY <1>1, <1>6, <4>1, QueueEnds DEF RunReceipt, GatewayTypeOK, RegistryTxs
    <3>2. \A i \in 1..Len(txs) : txs[i].status # "mined" => txs[i].pair # Running
      BY <2>2 DEF BroadcastInv, Remembered
    <3>3. \A i \in 1..Len(txs) : txs[i].status # "mined" =>
            pending'[txs[i].pair] = pending[txs[i].pair]
      BY <1>1, <2>2, <3>1, <3>2
    <3>4. UNCHANGED txs
      BY <1>6 DEF RunReceipt
    <3> QED
      BY <1>2, <3>3, <3>4 DEF BroadcastInv, Remembered, Distinct, IdOf, ClaimOfPair
  <2> QED
    BY <1>6, <2>1, <2>2 DEF RunReceipt
<1>7. ASSUME NEW i \in DOMAIN txs, Mine(i)
      PROVE  BroadcastInv'
  <2>1. PICK status \in {"mined", "reverted"} :
          txs' = [txs EXCEPT ![i].status = status]
    BY <1>1, <1>7, MineGateway
  <2>2. UNCHANGED pending
    BY <1>7 DEF Mine, backendVars
  <2>3. txs[i] \in RegistryTxs /\ i \in 1..Len(txs) /\ txs[i].status = "pending"
    BY <1>1, <1>7 DEF Mine
  <2>4. status = "mined" => IdOf(txs[i].pair) \in consumedClaims'
    <3>1. status = "mined" => txs'[i].status = "mined"
      BY <2>1, <2>3 DEF RegistryTxs
    <3>2. txs' = [txs EXCEPT ![i].status = "reverted"] => txs'[i].status = "reverted"
      BY <2>3 DEF RegistryTxs
    <3>3. CASE txs'[i].status = "mined"
      <4>1. \/ SubmitVerifiedClaim(authorizedVerifier, ClaimOfPair(txs[i].pair))
            \/ SubmitVerifiedConditionClaim(authorizedVerifier, ClaimOfPair(txs[i].pair))
            \/ SubmitVerifiedPrerequisiteClaim(authorizedVerifier, ClaimOfPair(txs[i].pair))
        BY <1>7, <3>2, <3>3 DEF Mine
      <4> QED
        BY <4>1 DEF SubmitVerifiedClaim, SubmitVerifiedConditionClaim,
                    SubmitVerifiedPrerequisiteClaim, AcceptVerifiedClaim, IdOf
    <3> QED
      BY <3>1, <3>3
  <2>5. /\ Len(txs') = Len(txs)
        /\ \A j \in 1..Len(txs) : txs'[j].pair = txs[j].pair
        /\ \A j \in 1..Len(txs) : j # i => txs'[j] = txs[j]
        /\ txs'[i].status = status
    BY <1>1, <2>1, <2>3 DEF RegistryTxs
  <2>6. Distinct'
    BY <2>5 DEF BroadcastInv, Distinct
  <2>7. Remembered'
    <3> SUFFICES ASSUME NEW j \in 1..Len(txs)
                 PROVE  IF txs'[j].status = "mined"
                        THEN IdOf(txs'[j].pair) \in consumedClaims'
                        ELSE /\ pending'[txs'[j].pair] # <<>>
                             /\ pending'[txs'[j].pair].tx = j
      BY <2>5 DEF Remembered, IdOf, ClaimOfPair
    <3>1. CASE j = i
      BY <2>2, <2>3, <2>4, <2>5, <3>1 DEF BroadcastInv, Remembered
    <3>2. CASE j # i
      BY <1>2, <2>2, <2>5, <3>2 DEF BroadcastInv, Remembered
    <3> QED
      BY <3>1, <3>2
  <2> QED
    BY <2>6, <2>7 DEF BroadcastInv
<1>8. ~Crash
  BY DEF Crash, Fault
<1>9. ASSUME NEW w \in Workers, WorkerStep(w), ~SubmitClaim(w)
      PROVE  UNCHANGED <<pending, txs>>
  BY <1>9 DEF WorkerStep, StartVerification, ReadBoundEscrow, ReadConsumed,
              ReadDisputeContext, ReadSettlement, SaveVerified, FinishFailure, gatewayVars
<1>10. ASSUME NEW w \in Workers, NEW e \in Escrows, NEW t \in SourceTxs,
              RequestCondition(w, e, t) \/ RequestDisputeEvidence(w, e, t)
       PROVE  UNCHANGED <<pending, txs>>
  BY <1>10 DEF RequestCondition, RequestDisputeEvidence, gatewayVars
<1>11. ASSUME NEW p \in Pairs, FiveMinutesPass(p)
       PROVE  UNCHANGED <<pending, txs>>
  BY <1>11 DEF FiveMinutesPass, gatewayVars
<1>12. PartiesStep \/ UNCHANGED verificationVars => UNCHANGED <<pending, txs>>
  BY DEF PartiesStep, verificationVars, backendVars
<1> QED
  BY <1>3, <1>4, <1>5, <1>6, <1>7, <1>8, <1>9, <1>10, <1>11, <1>12
     DEF VerificationNext, GatewayStep

(* While the process lives and no broadcast is lost, no claim is sent      *)
(* twice, however slow requests are and however often a node fails.        *)
THEOREM OneBroadcastWhileAlive ==
  ASSUME Faults \cap {"crash", "lostSend"} = {}
  PROVE  VerificationSpec => []OneBroadcastPerClaim
<1>1. VerificationInit => BroadcastInv
  BY DEF VerificationInit, BroadcastInv, Remembered, Distinct
<1>2. VerificationInv /\ BroadcastInv /\ [VerificationNext]_verificationVars
        => BroadcastInv'
  BY NextBroadcastInv
<1>3. VerificationInv /\ BroadcastInv => OneBroadcastPerClaim
  <2>1. VerificationInv => txs \in Seq(RegistryTxs)
    BY DEF VerificationInv, BackendTypeOK
  <2> QED
    BY <2>1 DEF BroadcastInv, Distinct, OneBroadcastPerClaim
<1> QED
  BY <1>1, <1>2, <1>3, VerificationInvariance, PTL DEF VerificationSpec

(***************************************************************************)
(* From the proof to the money: what an escrow records was proved, and a   *)
(* directly settling escrow is completed for nothing else.                 *)
(***************************************************************************)
\* Past the checks of policy and proof.
ProvedSteps == {"consumed", "context", "submit", "waiting", "settlement", "save"}

RequestsQualified ==
  \A w \in Workers : worker[w].pc \in ProvedSteps => Pair(w) \in Qualifies

GatewayQualified ==
  /\ \A p \in Pairs : pending[p] # <<>> => p \in Qualifies
  /\ \A i \in 1..Len(txs) : txs[i].pair \in Qualifies

RecordedQualified ==
  \A e \in Escrows : esc[e].verifiedClaimId # Zero => RestsOn(e, esc[e].verifiedClaimId)

QualifiedInv == RequestsQualified /\ GatewayQualified /\ RecordedQualified

(* A request past the checks has passed them before, or in this step.      *)
LEMMA ProvedBefore ==
  ASSUME WorkersOK, RequestsQualified, [VerificationNext]_verificationVars,
         NEW w \in Workers, worker'[w].pc \in ProvedSteps
  PROVE  Pair(w)' = Pair(w) /\ Pair(w) \in Qualifies
<1>1. worker'[w] # Idle /\ worker'[w].pc \notin {"idle", "start", "bound", "fail"}
  BY DEF Idle, ProvedSteps
<1>2. ~Begun(w)
  <2>1. \A step, e, t, mode : NewWorker(step, e, t, mode).pc = step
    BY DEF NewWorker
  <2> QED
    BY <1>1, <2>1 DEF Begun
<1>3. worker'[w] = worker[w] \/ GoesOn(w)
  BY <1>1, <1>2, RequestChanges DEF Changes
<1>4. Pair(w)' = Pair(w)
  BY <1>3 DEF GoesOn, Pair
<1>5. CASE worker[w].pc \in ProvedSteps
  BY <1>4, <1>5 DEF RequestsQualified
<1>6. ASSUME worker[w].pc \notin ProvedSteps
      PROVE  Pair(w) \in Qualifies
  <2>1. worker'[w] # worker[w]
    BY <1>6
  <2>2. ASSUME NEW v \in Workers, NEW e \in Escrows, NEW t \in SourceTxs,
               RequestCondition(v, e, t) \/ RequestDisputeEvidence(v, e, t)
        PROVE  FALSE
    <3>1. v = w
      BY <2>1, <2>2 DEF RequestCondition, RequestDisputeEvidence, WorkersOK
    <3>2. worker[w].pc = "idle"
      BY <2>2, <3>1 DEF RequestCondition, RequestDisputeEvidence, At
    <3> QED
      BY <1>3, <2>1, <3>2 DEF GoesOn
  <2>3. ASSUME NEW v \in Workers, WorkerStep(v)
        PROVE  Pair(w) \in Qualifies
    <3>1. v = w
      BY <2>1, <2>3, RequestStepChanges
    <3>2. StartVerification(w) \/ ReadBoundEscrow(w) \/ FinishFailure(w)
      BY <1>6, <2>3, <3>1 DEF WorkerStep, ReadConsumed, ReadDisputeContext,
         SubmitClaim, ReadSettlement, SaveVerified, At, ProvedSteps
    <3>3. ASSUME NEW step, Goto(w, step)
          PROVE  worker'[w].pc = step
      <4>1. worker[w] \in Requests
        BY <2>3, <3>1, <3>2, ActiveRequest
           DEF StartVerification, ReadBoundEscrow, FinishFailure, At
      <4> QED
        BY <3>3, <4>1 DEF Goto, WorkersOK, Requests, RequestsAt
    <3>4. Ends(w) => worker'[w] = Idle
      BY DEF Ends, WorkersOK
    <3>5. ~StartVerification(w)
      BY <1>1, <3>3, <3>4 DEF StartVerification
    <3>6. ~FinishFailure(w)
      BY <1>1, <3>4 DEF FinishFailure
    <3>7. ASSUME NEW code, Fails(w, code), ReadBoundEscrow(w)
          PROVE  FALSE
      <4>1. worker[w] \in Requests
        BY <3>7, ActiveRequest DEF ReadBoundEscrow, At
      <4>2. worker'[w] = Idle \/ worker'[w].pc = "fail"
        BY <3>7, <4>1 DEF Fails, WorkersOK, Requests, RequestsAt
      <4> QED
        BY <1>1, <4>2
    <3> QED
      BY <3>2, <3>5, <3>6, <3>7 DEF ReadBoundEscrow
  <2>4. ~GatewayStep
    <3>1. ASSUME NEW success \in BOOLEAN, RunEnds(success)
          PROVE  FALSE
      <4>1. ~Waiting(w, Head(queue))
        BY <1>6 DEF Waiting, At, ProvedSteps
      <4> QED
        BY <2>1, <3>1, <4>1 DEF RunEnds
    <3> QED
      BY <2>1, <3>1 DEF GatewayStep, RunSend, RunReceipt, RunFails
  <2>5. ~Crash
    BY <1>1 DEF Crash
  <2>6. ASSUME NEW i \in DOMAIN txs, Mine(i)
        PROVE  FALSE
    BY <2>1, <2>6 DEF Mine, backendVars
  <2>7. ASSUME NEW p \in Pairs, FiveMinutesPass(p)
        PROVE  FALSE
    BY <2>1, <2>7 DEF FiveMinutesPass
  <2>8. ~PartiesStep /\ ~UNCHANGED verificationVars
    BY <2>1 DEF PartiesStep, verificationVars, backendVars
  <2> QED
    BY <2>2, <2>3, <2>4, <2>5, <2>6, <2>7, <2>8 DEF VerificationNext
<1> QED
  BY <1>4, <1>5, <1>6

(* The gateway learns of a claim from a request that is past the checks,   *)
(* and sends what it knows.                                                *)
LEMMA NextGatewayQualified ==
  ASSUME WorkersOK, GatewayTypeOK, RequestsQualified, GatewayQualified,
         [VerificationNext]_verificationVars
  PROVE  GatewayQualified'
<1>1. /\ txs \in Seq(RegistryTxs)
      /\ pending \in [Pairs -> {<<>>} \cup Submissions]
  BY DEF GatewayTypeOK
<1>2. ASSUME txs' = txs,
             \A p \in Pairs : pending'[p] # <<>> => pending[p] # <<>> \/ p \in Qualifies
      PROVE  GatewayQualified'
  BY <1>2 DEF GatewayQualified
<1>3. ASSUME UNCHANGED <<pending, txs>>
      PROVE  GatewayQualified'
  BY <1>3 DEF GatewayQualified
<1>4. ASSUME NEW w \in Workers, SubmitClaim(w)
      PROVE  GatewayQualified'
  <2>1. Pair(w) \in Qualifies /\ txs' = txs
    BY <1>4 DEF SubmitClaim, At, RequestsQualified, ProvedSteps
  <2>2. \A p \in Pairs : p # Pair(w) => pending'[p] = pending[p]
    BY <1>1, <1>4 DEF SubmitClaim
  <2> QED
    BY <1>2, <2>1, <2>2
<1>5. CASE RunSend
  <2> DEFINE p == Running
             broadcast == [pair |-> p, mode |-> pending[p].mode, status |-> "pending"]
  <2>1. /\ p \in Pairs /\ pending[p] # <<>> /\ p \in Qualifies
        /\ broadcast \in RegistryTxs /\ broadcast.pair = p
    <3>1. p \in Pairs /\ pending[p] # <<>> /\ pending[p] \in Submissions
      BY <1>1, <1>5, QueueEnds DEF RunSend, GatewayTypeOK, GatewayOK
    <3> QED
      BY <3>1 DEF GatewayQualified, Submissions, RegistryTxs
  <2>2. \A q \in Pairs : q # p => pending'[q] = pending[q]
    BY <1>1, <1>5 DEF RunSend, RunFails
  <2>3. CASE txs' = txs
    BY <1>2, <2>1, <2>2, <2>3
  <2>4. CASE txs' = Append(txs, broadcast)
    <3> HIDE DEF broadcast
    <3>1. \A i \in 1..Len(txs') : (i \in 1..Len(txs) /\ txs'[i] = txs[i])
                                    \/ txs'[i] = broadcast
      BY <1>1, <2>1, <2>4
    <3>2. \A i \in 1..Len(txs') : txs'[i].pair \in Qualifies
      BY <2>1, <3>1 DEF GatewayQualified
    <3>3. \A q \in Pairs : pending'[q] # <<>> => q \in Qualifies
      BY <2>1, <2>2 DEF GatewayQualified
    <3> QED
      BY <3>2, <3>3 DEF GatewayQualified
  <2> QED
    BY <1>5, <2>3, <2>4 DEF RunSend
<1>6. CASE RunReceipt
  <2>1. Running \in Pairs /\ txs' = txs
    BY <1>6, QueueEnds DEF RunReceipt, GatewayTypeOK
  <2>2. \A q \in Pairs : pending'[q] # <<>> => pending[q] # <<>>
    BY <1>1, <1>6, <2>1 DEF RunReceipt, RunFails
  <2> QED
    BY <1>2, <2>1, <2>2
<1>7. ASSUME NEW i \in DOMAIN txs, Mine(i)
      PROVE  GatewayQualified'
  <2>1. PICK status \in {"mined", "reverted"} :
          txs' = [txs EXCEPT ![i].status = status]
    BY <1>7, MineGateway
  <2>2. pending' = pending
    BY <1>7 DEF Mine, backendVars
  <2>3. txs[i] \in RegistryTxs /\ i \in 1..Len(txs)
    BY <1>1
  <2>4. Len(txs') = Len(txs) /\ \A j \in 1..Len(txs) : txs'[j].pair = txs[j].pair
    BY <1>1, <2>1, <2>3 DEF RegistryTxs
  <2> QED
    BY <2>2, <2>4 DEF GatewayQualified
<1>8. CASE Crash
  <2>1. txs' = txs /\ \A p \in Pairs : pending'[p] = <<>>
    BY <1>8 DEF Crash
  <2> QED
    BY <1>2, <2>1
<1>9. ASSUME NEW w \in Workers, WorkerStep(w), ~SubmitClaim(w)
      PROVE  UNCHANGED <<pending, txs>>
  BY <1>9 DEF WorkerStep, StartVerification, ReadBoundEscrow, ReadConsumed,
              ReadDisputeContext, ReadSettlement, SaveVerified, FinishFailure, gatewayVars
<1>10. ASSUME NEW w \in Workers, NEW e \in Escrows, NEW t \in SourceTxs,
              RequestCondition(w, e, t) \/ RequestDisputeEvidence(w, e, t)
       PROVE  UNCHANGED <<pending, txs>>
  BY <1>10 DEF RequestCondition, RequestDisputeEvidence, gatewayVars
<1>11. ASSUME NEW p \in Pairs, FiveMinutesPass(p)
       PROVE  UNCHANGED <<pending, txs>>
  BY <1>11 DEF FiveMinutesPass, gatewayVars
<1>12. PartiesStep \/ UNCHANGED verificationVars => UNCHANGED <<pending, txs>>
  BY DEF PartiesStep, verificationVars, backendVars
<1> QED
  BY <1>3, <1>4, <1>5, <1>6, <1>7, <1>8, <1>9, <1>10, <1>11, <1>12
     DEF VerificationNext, GatewayStep

(* Participants, and payments that end or fail, leave the recorded claims  *)
(* as they are: a failure restores a state that shows the same ones.       *)
LEMMA ParticipantsKeepClaims ==
  ASSUME RInv, EscrowStep, NEW e \in Escrows
  PROVE  esc'[e].verifiedClaimId = esc[e].verifiedClaimId
<1>1. TypeOK /\ esc \in [Escrows -> EscrowRecord] /\ frames \in Seq(SavedState)
  BY DEF RInv, IInv, TypeOK
<1>2. ASSUME NEW d \in Escrows, PartyCall(d)
      PROVE  esc'[e].verifiedClaimId = esc[e].verifiedClaimId
  BY <1>1, <1>2, PartyCallQuiet DEF Quiet
<1>3. CASE WithdrawReturn
  BY <1>1, <1>3 DEF WithdrawReturn, EscrowRecord
<1>4. CASE WithdrawRevert
  <2>1. Len(frames) \in 1..Len(frames) /\ esc' = frames[Len(frames)].saved
    BY <1>1, <1>4 DEF WithdrawRevert, Top
  <2> QED
    BY <2>1 DEF RInv, SavedAgree
<1> QED
  BY <1>2, <1>3, <1>4 DEF EscrowStep, PaymentEnds

(* A step records no claim, or that of one of the verifier's transactions. *)
LEMMA RecordedBy ==
  ASSUME RInv, BackendTypeOK, [VerificationNext]_verificationVars, NEW e \in Escrows
  PROVE  \/ esc'[e].verifiedClaimId = esc[e].verifiedClaimId
         \/ \E i \in 1..Len(txs) :
              txs[i].pair[1] = e /\ esc'[e].verifiedClaimId = IdOf(txs[i].pair)
<1>1. CASE UNCHANGED systemVars
  BY <1>1 DEF systemVars
<1>2. CASE PartiesStep
  BY <1>2, ParticipantsKeepClaims DEF PartiesStep
<1>3. ASSUME NEW i \in DOMAIN txs, Mine(i), ~UNCHANGED systemVars
      PROVE  \/ esc'[e].verifiedClaimId = esc[e].verifiedClaimId
             \/ txs[i].pair[1] = e /\ esc'[e].verifiedClaimId = IdOf(txs[i].pair)
  <2> DEFINE claim == ClaimOfPair(txs[i].pair)
  <2>1. txs[i].pair \in Pairs
    <3>1. txs[i] \in RegistryTxs
      BY DEF BackendTypeOK
    <3> QED
      BY <3>1 DEF RegistryTxs
  <2>2. claim \in Claims /\ claim.escrow = txs[i].pair[1]
    BY <2>1, ClaimOfPairFacts
  <2>3. \/ SubmitVerifiedClaim(authorizedVerifier, claim)
        \/ SubmitVerifiedConditionClaim(authorizedVerifier, claim)
        \/ SubmitVerifiedPrerequisiteClaim(authorizedVerifier, claim)
    BY <1>3 DEF Mine
  <2>4. IdOf(txs[i].pair) = ComputeClaimId(claim)
    BY DEF IdOf
  <2> HIDE DEF claim
  <2>5. TypeOK
    BY DEF RInv, IInv
  <2>6. /\ \A d \in Escrows \ {claim.escrow} : esc'[d] = esc[d]
        /\ esc'[claim.escrow].verifiedClaimId = ComputeClaimId(claim)
    BY <2>2, <2>3, <2>5, SubmitIsRegistryCall
  <2> QED
    BY <2>2, <2>4, <2>6
<1>4. ASSUME NEW w \in Workers, WorkerStep(w)
      PROVE  UNCHANGED systemVars
  BY <1>4 DEF WorkerStep, StartVerification, ReadBoundEscrow, ReadConsumed,
              ReadDisputeContext, SubmitClaim, ReadSettlement, SaveVerified,
              FinishFailure
<1>5. ASSUME NEW w \in Workers, NEW d \in Escrows, NEW t \in SourceTxs,
             RequestCondition(w, d, t) \/ RequestDisputeEvidence(w, d, t)
      PROVE  UNCHANGED systemVars
  BY <1>5 DEF RequestCondition, RequestDisputeEvidence
<1>6. ASSUME NEW p \in Pairs, FiveMinutesPass(p)
      PROVE  UNCHANGED systemVars
  BY <1>6 DEF FiveMinutesPass
<1>7. GatewayStep \/ Crash \/ UNCHANGED verificationVars => UNCHANGED systemVars
  BY DEF GatewayStep, RunSend, RunReceipt, Crash, verificationVars
<1>8. DOMAIN txs = 1..Len(txs)
  BY DEF BackendTypeOK
<1> QED
  BY <1>1, <1>2, <1>3, <1>4, <1>5, <1>6, <1>7, <1>8 DEF VerificationNext

LEMMA NextQualifiedInv ==
  ASSUME VerificationInv, QualifiedInv, [VerificationNext]_verificationVars
  PROVE  QualifiedInv'
<1>1. WorkersOK /\ GatewayTypeOK /\ RInv /\ BackendTypeOK
  BY TypeParts DEF VerificationInv
<1>2. RequestsQualified'
  <2>1. ASSUME NEW w \in Workers, worker'[w].pc \in ProvedSteps
        PROVE  Pair(w)' \in Qualifies
    BY <1>1, <2>1, ProvedBefore DEF QualifiedInv
  <2> QED
    BY <2>1 DEF RequestsQualified, ProvedSteps
<1>3. GatewayQualified'
  BY <1>1, NextGatewayQualified DEF QualifiedInv
<1>4. RecordedQualified'
  <2>1. ASSUME NEW e \in Escrows, esc'[e].verifiedClaimId # Zero
        PROVE  RestsOn(e, esc'[e].verifiedClaimId)
    <3>1. CASE esc'[e].verifiedClaimId = esc[e].verifiedClaimId
      BY <2>1, <3>1 DEF QualifiedInv, RecordedQualified
    <3>2. ASSUME NEW i \in 1..Len(txs), txs[i].pair[1] = e,
                 esc'[e].verifiedClaimId = IdOf(txs[i].pair)
          PROVE  RestsOn(e, esc'[e].verifiedClaimId)
      <4>1. txs[i].pair \in Qualifies /\ txs[i].pair \in Pairs
        BY VerificationAssumption DEF QualifiedInv, GatewayQualified
      <4>2. txs[i].pair = <<e, txs[i].pair[2]>> /\ txs[i].pair[2] \in SourceTxs
        BY <3>2, <4>1 DEF Pairs
      <4> QED
        BY <3>2, <4>1, <4>2 DEF RestsOn
    <3> QED
      BY <1>1, <3>1, <3>2, RecordedBy
  <2> QED
    BY <2>1 DEF RecordedQualified, RestsOn, IdOf, ClaimOfPair
<1> QED
  BY <1>2, <1>3, <1>4 DEF QualifiedInv

LEMMA QualifiedInvariance == VerificationSpec => []QualifiedInv
<1>1. VerificationInit => QualifiedInv
  <2> SUFFICES ASSUME VerificationInit PROVE QualifiedInv
    OBVIOUS
  <2>1. RequestsQualified
    BY DEF VerificationInit, Idle, RequestsQualified, ProvedSteps
  <2>2. GatewayQualified
    BY DEF VerificationInit, GatewayQualified
  <2>3. RecordedQualified
    BY DEF VerificationInit, SystemInit, Init, Blank, RecordedQualified
  <2> QED
    BY <2>1, <2>2, <2>3 DEF QualifiedInv
<1>2. VerificationInv /\ QualifiedInv /\ [VerificationNext]_verificationVars
        => QualifiedInv'
  BY NextQualifiedInv
<1> QED
  BY <1>1, <1>2, VerificationInvariance, PTL DEF VerificationSpec

(* Between two transactions the recorded claims are those of esc.          *)
LEMMA CommittedClaims ==
  ASSUME RInv, NEW e \in Escrows
  PROVE  committed[e].verifiedClaimId = esc[e].verifiedClaimId
<1>1. CASE frames = <<>>
  BY <1>1 DEF committed
<1>2. CASE frames # <<>>
  <2>1. 1 \in 1..Len(frames)
    BY <1>2 DEF RInv, RegistryTypeOK, TypeOK
  <2> QED
    BY <1>2, <2>1 DEF RInv, SavedAgree, committed
<1> QED
  BY <1>1, <1>2

(* Every claim an escrow records was proved and meets the policy of its    *)
(* agreement, under every fault and with recipients that run code.         *)
THEOREM ClaimsAlwaysQualified == VerificationSpec => []ClaimsAreQualified
<1>1. VerificationInv /\ QualifiedInv => ClaimsAreQualified
  BY CommittedClaims
     DEF VerificationInv, QualifiedInv, RecordedQualified, ClaimsAreQualified
<1> QED
  BY <1>1, VerificationInvariance, QualifiedInvariance, PTL

(* What the table calls verified was proved, and meets the policy.         *)
THEOREM VerifiedIsQualified ==
  VerificationSpec =>
    [](\A p \in Pairs : row[p].status = "verified" => p \in Qualifies)
<1>1. ASSUME VerificationInv, QualifiedInv, VerifiedIsOnChain
      PROVE  \A p \in Pairs : row[p].status = "verified" => p \in Qualifies
  <2>1. ASSUME NEW p \in Pairs, row[p].status = "verified"
        PROVE  p \in Qualifies
    <3>1. p[1] \in Escrows /\ IdOf(p) # Zero
      BY ClaimOfPairFacts
    <3>2. esc[p[1]].verifiedClaimId = IdOf(p)
      BY <1>1, <2>1, <3>1, CommittedClaims DEF VerificationInv, VerifiedIsOnChain
    <3>3. PICK t \in SourceTxs :
            <<p[1], t>> \in Qualifies /\ IdOf(p) = IdOf(<<p[1], t>>)
      BY <1>1, <3>1, <3>2 DEF QualifiedInv, RecordedQualified, RestsOn
    <3>4. <<p[1], t>> \in Pairs
      BY <3>1 DEF Pairs
    <3> QED
      BY <3>3, <3>4, IdsAreDistinct
  <2> QED
    BY <2>1
<1> QED
  BY <1>1, VerificationInvariance, QualifiedInvariance, VerifiedAlwaysOnChain, PTL

(* Of the calls of a participant only the arbitrator's completes an escrow *)
(* that settles directly; a saved state that a failure restores is no more *)
(* complete than the one it replaces.                                      *)
LEMMA CompletedByArbitrator ==
  ASSUME IInv, EscrowStep, NEW e \in Escrows, directConditionSettlement[e],
         esc[e].state # "Complete", esc'[e].state = "Complete"
  PROVE  esc[e].state = "Disputed"
<1>1. esc \in [Escrows -> EscrowRecord] /\ frames \in Seq(SavedState)
  BY DEF IInv, TypeOK
<1>2. ASSUME NEW d \in Escrows, PartyCall(d)
      PROVE  esc[e].state = "Disputed"
  <2>1. CASE Constructor(d)
    BY <1>1, <2>1 DEF Constructor, EscrowRecord
  <2>2. ASSUME NEW sender \in Accounts,
               \/ \E value \in Values : Deposit(d, sender, value)
               \/ Cancel(d, sender)
               \/ \E evidence \in Evidence : RequestRefund(d, sender, evidence)
               \/ \E evidence \in Evidence : OpenDispute(d, sender, evidence)
        PROVE  FALSE
    <3>1. ASSUME NEW value \in Values, Deposit(d, sender, value)
          PROVE  FALSE
      BY <1>1, <3>1 DEF Deposit, EscrowRecord
    <3>2. CASE Cancel(d, sender)
      BY <1>1, <3>2 DEF Cancel, EscrowRecord
    <3>3. ASSUME NEW evidence \in Evidence, RequestRefund(d, sender, evidence)
          PROVE  FALSE
      BY <1>1, <3>3 DEF RequestRefund, EscrowRecord
    <3>4. ASSUME NEW evidence \in Evidence, OpenDispute(d, sender, evidence)
          PROVE  FALSE
      BY <1>1, <3>4 DEF OpenDispute, EscrowRecord
    <3> QED
      BY <2>2, <3>1, <3>2, <3>3, <3>4
  <2>3. ASSUME NEW final \in {"Complete", "Refunded"}, NEW recipient,
               Settle(d, final, recipient)
        PROVE  d = e /\ final = "Complete"
    <3>1. esc' = [esc EXCEPT ![d] = Credit([esc[d] EXCEPT !.state = final], recipient)]
      BY <2>3 DEF Settle
    <3>2. Credit([esc[d] EXCEPT !.state = final], recipient).state = final
      BY <1>1 DEF Credit, EscrowRecord
    <3> QED
      BY <1>1, <3>1, <3>2
  <2>4. ASSUME NEW sender \in Accounts,
               ConfirmDelivery(d, sender) \/ ApproveRefund(d, sender)
        PROVE  FALSE
    BY <2>3, <2>4 DEF ConfirmDelivery, ApproveRefund
  <2>5. ASSUME NEW sender \in Accounts, NEW resolution,
               ResolveDispute(d, sender, resolution)
        PROVE  esc[e].state = "Disputed"
    BY <2>3, <2>5 DEF ResolveDispute
  <2>6. ASSUME NEW sender \in Accounts,
               WithdrawToWallet(d, sender) \/ WithdrawCall(d, sender)
        PROVE  FALSE
    <3>1. CASE WithdrawToWallet(d, sender)
      BY <1>1, <3>1 DEF WithdrawToWallet, PaidOut, EscrowRecord
    <3>2. CASE WithdrawCall(d, sender)
      BY <1>1, <3>2 DEF WithdrawCall, PaidOut, EscrowRecord
    <3> QED
      BY <2>6, <3>1, <3>2
  <2> QED
    BY <1>2, <2>1, <2>2, <2>4, <2>5, <2>6 DEF PartyCall
<1>3. CASE WithdrawReturn
  BY <1>1, <1>3 DEF WithdrawReturn, EscrowRecord
<1>4. CASE WithdrawRevert
  <2>1. Len(frames) \in 1..Len(frames) /\ esc' = frames[Len(frames)].saved
    BY <1>1, <1>4 DEF WithdrawRevert, Top
  <2> QED
    BY <2>1 DEF IInv, StackOK, Evolves, Final
<1> QED
  BY <1>2, <1>3, <1>4 DEF EscrowStep, PaymentEnds

(* The seller of a directly settling agreement is credited for a payment   *)
(* that was proved and meets the policy, or by the arbitrator: no call of  *)
(* another participant, no failing payment and no fault of the backend     *)
(* releases the money.                                                     *)
THEOREM DirectReleasesAreEarned == VerificationSpec => DirectReleaseIsEarned
<1>1. ASSUME VerificationInv, QualifiedInv, QualifiedInv',
             [VerificationNext]_verificationVars, NEW e \in Escrows,
             directConditionSettlement[e],
             esc[e].state \notin {"Disputed", "Complete"},
             esc'[e].state = "Complete"
      PROVE  RestsOn(e, esc'[e].verifiedClaimId)
  <2>1. RInv /\ BackendTypeOK /\ IInv
    BY <1>1 DEF VerificationInv, RInv
  <2>2. [SystemNext]_systemVars /\ ~UNCHANGED systemVars
    BY <1>1, <2>1, StepIsSystemStep DEF systemVars
  <2>3. ~EscrowStep
    BY <1>1, <2>1, CompletedByArbitrator
  <2>4. Submit
    BY <2>2, <2>3 DEF SystemNext
  <2>5. esc'[e].verifiedClaimId # Zero
    <3>1. PICK sender \in Accounts, claim \in Claims :
            \/ SubmitVerifiedClaim(sender, claim)
            \/ SubmitVerifiedConditionClaim(sender, claim)
            \/ SubmitVerifiedPrerequisiteClaim(sender, claim)
      BY <2>4 DEF Submit
    <3>2. /\ \A d \in Escrows \ {claim.escrow} : esc'[d] = esc[d]
          /\ esc'[claim.escrow].verifiedClaimId = ComputeClaimId(claim)
          /\ ComputeClaimId(claim) # Zero
      BY <2>1, <3>1, SubmitIsRegistryCall DEF IInv
    <3> QED
      BY <1>1, <3>2
  <2> QED
    BY <1>1, <2>5 DEF QualifiedInv, RecordedQualified, RestsOn, IdOf, ClaimOfPair
<1>2. ASSUME VerificationInv, QualifiedInv, QualifiedInv',
             [VerificationNext]_verificationVars
      PROVE  [\A e \in Escrows :
                /\ directConditionSettlement[e]
                /\ esc[e].state \notin {"Disputed", "Complete"}
                /\ esc'[e].state = "Complete"
                => RestsOn(e, esc'[e].verifiedClaimId)]_verificationVars
  BY <1>1, <1>2
<1> QED
  BY <1>2, VerificationInvariance, QualifiedInvariance, PTL
     DEF VerificationSpec, DirectReleaseIsEarned

(* The backend drives the contracts and can break none of their promises:  *)
(* whatever its requests, its gateway, its database and the node do, every *)
(* escrow is the custodian of the abstract specification, holds what it    *)
(* owes, owes what its outcome says and never leaves that outcome; a       *)
(* source event is accepted once, and registry and escrows agree.          *)
THEOREM BackendKeepsContractPromises ==
  VerificationSpec =>
    /\ CustodySpec
    /\ []Solvent
    /\ []CreditMatchesOutcome
    /\ OutcomeIsFinal
    /\ []SourceEvidenceUsedOnce
    /\ []RegistryAgreesWithEscrows
<1>1. VerificationSpec => Spec
  BY VerificationImplementsSystemSpec, RegistryImplementsEscrowSpec, PTL DEF EscrowSpec
<1>2. VerificationSpec => []SourceEvidenceUsedOnce /\ []RegistryAgreesWithEscrows
  BY VerificationImplementsSystemSpec, SourceEvidenceIsUsedOnce, RegistryAndEscrowsAgree, PTL
<1> QED
  BY <1>1, <1>2, EscrowImplementsCustody, EscrowsAreSolvent, CreditsMatchOutcomes,
     OutcomesAreFinal, PTL

=============================================================================
