-------------------------- MODULE AttestationProofs --------------------------
(***************************************************************************)
(* Theorems of Attestation, for any policies and transactions, any length  *)
(* of the source chain and any number of reorganisations.                  *)
(***************************************************************************)
EXTENDS Attestation, TLAPS

(***************************************************************************)
(* Checks in order.                                                        *)
(***************************************************************************)
\* A sequence of at most eight checks, none of which has the code of success.
Checks(checks, n) ==
  /\ n \in 1..8 /\ DOMAIN checks = 1..n
  /\ \A i \in 1..n : checks[i][2] # "ok"

LEMMA FirstIsIn ==
  ASSUME NEW S, S \subseteq 1..8, S # {}
  PROVE  First(S) \in S
<1>1. \E m \in S : \A k \in S : m <= k
  <2>1. S \subseteq {1, 2, 3, 4, 5, 6, 7, 8}
    OBVIOUS
  <2>2. CASE 1 \in S
    BY <2>1, <2>2
  <2>3. CASE 1 \notin S /\ 2 \in S
    BY <2>1, <2>3
  <2>4. CASE 1 \notin S /\ 2 \notin S /\ 3 \in S
    BY <2>1, <2>4
  <2>5. CASE 1 \notin S /\ 2 \notin S /\ 3 \notin S /\ 4 \in S
    BY <2>1, <2>5
  <2>6. CASE 1 \notin S /\ 2 \notin S /\ 3 \notin S /\ 4 \notin S /\ 5 \in S
    BY <2>1, <2>6
  <2>7. CASE 1 \notin S /\ 2 \notin S /\ 3 \notin S /\ 4 \notin S /\ 5 \notin S /\ 6 \in S
    BY <2>1, <2>7
  <2>8. CASE 1 \notin S /\ 2 \notin S /\ 3 \notin S /\ 4 \notin S /\ 5 \notin S /\ 6 \notin S /\ 7 \in S
    BY <2>1, <2>8
  <2>9. CASE 1 \notin S /\ 2 \notin S /\ 3 \notin S /\ 4 \notin S /\ 5 \notin S /\ 6 \notin S /\ 7 \notin S /\ 8 \in S
    BY <2>1, <2>9
  <2> QED
    BY <2>1, <2>2, <2>3, <2>4, <2>5, <2>6, <2>7, <2>8, <2>9
<1> QED
  BY <1>1 DEF First

(* The outcome of ordered checks is success only when none of them fails.  *)
LEMMA NoCheckFails ==
  ASSUME NEW checks, NEW n, Checks(checks, n), NEW otherwise,
         FirstFailure(checks, otherwise) = "ok"
  PROVE  otherwise = "ok" /\ \A i \in 1..n : ~checks[i][1]
<1> DEFINE failing == {i \in DOMAIN checks : checks[i][1]}
<1>1. failing \subseteq 1..8 /\ failing \subseteq 1..n
  BY DEF Checks
<1>2. CASE failing # {}
  <2>1. First(failing) \in 1..n
    BY <1>1, <1>2, FirstIsIn
  <2>2. FirstFailure(checks, otherwise) = checks[First(failing)][2]
    BY <1>2 DEF FirstFailure
  <2> QED
    BY <2>1, <2>2 DEF Checks
<1>3. CASE failing = {}
  <2>1. FirstFailure(checks, otherwise) = otherwise
    BY <1>3 DEF FirstFailure
  <2> QED
    BY <1>3, <2>1 DEF Checks
<1> QED
  BY <1>2, <1>3

LEMMA AllChecksPass ==
  ASSUME NEW checks, NEW n, Checks(checks, n), NEW otherwise,
         \A i \in 1..n : ~checks[i][1]
  PROVE  FirstFailure(checks, otherwise) = otherwise
BY DEF FirstFailure, Checks

LEMMA NativeAccepted ==
  ASSUME NEW tx, NEW policy, EvaluateNative(tx, policy) = "ok"
  PROVE  tx.to = policy.expectedRecipient /\ AmountFits(tx.value, policy)
<1> DEFINE checks == << <<tx.to # policy.expectedRecipient, "WRONG_RECIPIENT">>,
                        <<~AmountFits(tx.value, policy), "WRONG_AMOUNT">> >>
<1>1. Checks(checks, 2)
  BY DEF Checks
<1>2. \A i \in 1..2 : ~checks[i][1]
  BY <1>1, NoCheckFails DEF EvaluateNative
<1>3. ~checks[1][1] /\ ~checks[2][1]
  BY <1>2
<1> QED
  BY <1>3

LEMMA NativePays ==
  ASSUME NEW tx, NEW policy,
         tx.to = policy.expectedRecipient, AmountFits(tx.value, policy)
  PROVE  EvaluateNative(tx, policy) = "ok"
<1> DEFINE checks == << <<tx.to # policy.expectedRecipient, "WRONG_RECIPIENT">>,
                        <<~AmountFits(tx.value, policy), "WRONG_AMOUNT">> >>
<1>1. Checks(checks, 2)
  BY DEF Checks
<1>2. ~checks[1][1] /\ ~checks[2][1]
  OBVIOUS
<1>3. \A i \in 1..2 : ~checks[i][1]
  BY <1>2
<1> QED
  BY <1>1, <1>3, AllChecksPass DEF EvaluateNative

LEMMA Erc20Accepted ==
  ASSUME NEW tx, NEW policy, EvaluateErc20(tx, policy) = "ok"
  PROVE  FirstFits(tx, MatchingLogs(tx, policy), policy)
<1> DEFINE checks == <<
             <<tx.value # 0, "WRONG_ASSET">>,
             <<~CalldataFits(tx.data, policy), "WRONG_CALLDATA">>,
             <<\A i \in DOMAIN tx.logs : tx.logs[i].event # "Transfer", "WRONG_EVENT">>,
             <<AssetLogs(tx, policy) = {}, "WRONG_ASSET">>,
             <<MatchingLogs(tx, policy) = {}, "WRONG_EVENT">>,
             <<~FirstFits(tx, MatchingLogs(tx, policy), policy), "WRONG_AMOUNT">> >>
<1>1. Checks(checks, 6)
  BY DEF Checks
<1>2. \A i \in 1..6 : ~checks[i][1]
  BY <1>1, NoCheckFails DEF EvaluateErc20
<1>3. ~checks[6][1]
  BY <1>2
<1> QED
  BY <1>3

LEMMA Erc20Pays ==
  ASSUME NEW tx, NEW policy, tx.value = 0, CalldataFits(tx.data, policy),
         FirstFits(tx, MatchingLogs(tx, policy), policy)
  PROVE  EvaluateErc20(tx, policy) = "ok"
<1> DEFINE checks == <<
             <<tx.value # 0, "WRONG_ASSET">>,
             <<~CalldataFits(tx.data, policy), "WRONG_CALLDATA">>,
             <<\A i \in DOMAIN tx.logs : tx.logs[i].event # "Transfer", "WRONG_EVENT">>,
             <<AssetLogs(tx, policy) = {}, "WRONG_ASSET">>,
             <<MatchingLogs(tx, policy) = {}, "WRONG_EVENT">>,
             <<~FirstFits(tx, MatchingLogs(tx, policy), policy), "WRONG_AMOUNT">> >>
<1>1. Checks(checks, 6)
  BY DEF Checks
<1>2. PICK i \in MatchingLogs(tx, policy) : TRUE
  BY DEF FirstFits
<1>3. i \in AssetLogs(tx, policy) /\ i \in DOMAIN tx.logs /\ tx.logs[i].event = "Transfer"
  BY <1>2 DEF MatchingLogs, AssetLogs
<1>4. ~checks[1][1] /\ ~checks[2][1] /\ ~checks[6][1]
  OBVIOUS
<1>5. ~checks[3][1] /\ ~checks[4][1] /\ ~checks[5][1]
  BY <1>2, <1>3
<1>6. EvaluateErc20(tx, policy) = FirstFailure(checks, "ok")
  BY DEF EvaluateErc20
<1> HIDE DEF checks
<1>7. \A k \in 1..6 : ~checks[k][1]
  BY <1>4, <1>5
<1> QED
  BY <1>1, <1>6, <1>7, AllChecksPass

(***************************************************************************)
(* The evaluation and what the agreement means.                            *)
(***************************************************************************)
\* The verdict of the rules of the kind of asset.
OfAsset(tx, policy) ==
  IF policy.assetKind = "native" THEN EvaluateNative(tx, policy) ELSE EvaluateErc20(tx, policy)

LEMMA EvaluationChecks ==
  ASSUME NEW tx, NEW policy, Evaluate(tx, policy) = "ok"
  PROVE  /\ tx.receiptStatus = 1 /\ tx.sourceChainKey = policy.sourceChainKey
         /\ tx.from = policy.expectedSender
         /\ ~(policy.minSourceBlock > tx.sourceBlockNumber)
         /\ ~(policy.maxSourceBlock # 0 /\ tx.sourceBlockNumber > policy.maxSourceBlock)
         /\ OfAsset(tx, policy) = "ok"
<1> DEFINE checks == <<
             <<~ValidPolicy(policy), "INVALID_POLICY">>,
             <<tx.receiptStatus # 1, "WRONG_EVENT">>,
             <<tx.sourceChainKey # policy.sourceChainKey, "UNSUPPORTED_SOURCE_CHAIN">>,
             <<tx.from # policy.expectedSender, "SUBJECT_MISMATCH">>,
             <<policy.expectedSourceContract \notin {ZeroAddress, tx.to}, "WRONG_SOURCE_CONTRACT">>,
             <<policy.minSourceBlock > tx.sourceBlockNumber, "STALE_EVIDENCE">>,
             <<policy.maxSourceBlock # 0 /\ tx.sourceBlockNumber > policy.maxSourceBlock,
               "STALE_EVIDENCE">> >>
<1>1. Checks(checks, 7)
  BY DEF Checks
<1>2. FirstFailure(checks, OfAsset(tx, policy)) = "ok"
  BY DEF Evaluate, OfAsset
<1>3. OfAsset(tx, policy) = "ok" /\ \A i \in 1..7 : ~checks[i][1]
  BY <1>1, <1>2, NoCheckFails
<1>4. /\ ~checks[2][1] /\ ~checks[3][1] /\ ~checks[4][1] /\ ~checks[6][1] /\ ~checks[7][1]
  BY <1>3
<1> QED
  BY <1>3, <1>4

LEMMA EvaluationPasses ==
  ASSUME NEW tx, NEW policy, ValidPolicy(policy),
         tx.receiptStatus = 1, tx.sourceChainKey = policy.sourceChainKey,
         tx.from = policy.expectedSender,
         policy.expectedSourceContract \in {ZeroAddress, tx.to},
         ~(policy.minSourceBlock > tx.sourceBlockNumber),
         ~(policy.maxSourceBlock # 0 /\ tx.sourceBlockNumber > policy.maxSourceBlock)
  PROVE  Evaluate(tx, policy) = OfAsset(tx, policy)
<1> DEFINE checks == <<
             <<~ValidPolicy(policy), "INVALID_POLICY">>,
             <<tx.receiptStatus # 1, "WRONG_EVENT">>,
             <<tx.sourceChainKey # policy.sourceChainKey, "UNSUPPORTED_SOURCE_CHAIN">>,
             <<tx.from # policy.expectedSender, "SUBJECT_MISMATCH">>,
             <<policy.expectedSourceContract \notin {ZeroAddress, tx.to}, "WRONG_SOURCE_CONTRACT">>,
             <<policy.minSourceBlock > tx.sourceBlockNumber, "STALE_EVIDENCE">>,
             <<policy.maxSourceBlock # 0 /\ tx.sourceBlockNumber > policy.maxSourceBlock,
               "STALE_EVIDENCE">> >>
<1>1. Checks(checks, 7)
  BY DEF Checks
<1>2. Evaluate(tx, policy) = FirstFailure(checks, OfAsset(tx, policy))
  BY DEF Evaluate, OfAsset
<1>3. /\ ~checks[1][1] /\ ~checks[2][1] /\ ~checks[3][1] /\ ~checks[4][1]
      /\ ~checks[5][1] /\ ~checks[6][1] /\ ~checks[7][1]
  OBVIOUS
<1> HIDE DEF checks
<1>4. \A k \in 1..7 : ~checks[k][1]
  BY <1>3
<1> QED
  BY <1>1, <1>2, <1>4, AllChecksPass

\* The numbers that a policy and a transaction compare.
HasNumbers(tx, policy) ==
  policy.minSourceBlock \in Nat /\ policy.maxSourceBlock \in Nat /\ tx.sourceBlockNumber \in Nat

(* What the evaluator accepts meets the agreement: source-transaction-     *)
(* interpreter.ts calls no other transaction a payment.                    *)
THEOREM AcceptedMeetsPolicy ==
  ASSUME NEW tx, NEW policy, HasNumbers(tx, policy), Evaluate(tx, policy) = "ok"
  PROVE  Meets(tx, policy)
<1>1. /\ tx.receiptStatus = 1 /\ tx.sourceChainKey = policy.sourceChainKey
      /\ tx.from = policy.expectedSender
      /\ policy.minSourceBlock <= tx.sourceBlockNumber
      /\ tx.sourceBlockNumber <= policy.maxSourceBlock \/ policy.maxSourceBlock = 0
      /\ OfAsset(tx, policy) = "ok"
  BY EvaluationChecks DEF HasNumbers
<1>2. Moves(tx, policy)
  <2>1. CASE policy.assetKind = "native"
    BY <1>1, <2>1, NativeAccepted DEF OfAsset, Moves
  <2>2. CASE policy.assetKind # "native"
    <3>1. FirstFits(tx, MatchingLogs(tx, policy), policy)
      BY <1>1, <2>2, Erc20Accepted DEF OfAsset
    <3> QED
      BY <2>2, <3>1 DEF FirstFits, MatchingLogs, AssetLogs, Moves
  <2> QED
    BY <2>1, <2>2
<1> QED
  BY <1>1, <1>2 DEF Meets

(* And a plain transaction that meets the agreement is accepted.           *)
THEOREM PlainPaymentIsAccepted ==
  ASSUME NEW tx, NEW policy, ValidPolicy(policy), HasNumbers(tx, policy),
         policy.assetKind \in {"native", "erc20"}, DOMAIN tx.logs \subseteq Nat,
         Meets(tx, policy), IsPlain(tx, policy)
  PROVE  Evaluate(tx, policy) = "ok"
<1>1. Evaluate(tx, policy) = OfAsset(tx, policy)
  BY EvaluationPasses DEF Meets, IsPlain, HasNumbers
<1>2. CASE policy.assetKind = "native"
  BY <1>1, <1>2, NativePays DEF OfAsset, Meets, Moves
<1>3. CASE policy.assetKind = "erc20"
  <2>1. PICK i \in MatchingLogs(tx, policy) : AmountFits(tx.logs[i].amount, policy)
    BY <1>3 DEF Meets, Moves, MatchingLogs, AssetLogs
  <2>2. \A j \in MatchingLogs(tx, policy) : i = j
    BY <1>3, <2>1 DEF IsPlain
  <2>3. i \in Nat
    BY <2>1 DEF MatchingLogs, AssetLogs
  <2>4. FirstFits(tx, MatchingLogs(tx, policy), policy)
    BY <2>1, <2>2, <2>3 DEF FirstFits
  <2> QED
    BY <1>1, <1>3, <2>4, Erc20Pays DEF OfAsset, IsPlain
<1> QED
  BY <1>2, <1>3

(***************************************************************************)
(* The invariant.  What a verification has read is kept with the call it   *)
(* waits for; what it ended with is kept with what was attested, which     *)
(* only grows.                                                             *)
(***************************************************************************)
\* The calls after the receipt was seen to be of success.
Successful == Calls \ {"getTransaction", "getTransactionReceipt", "getBlock"}
OfCreditcoin == Successful \ {"getNetwork"}
Waits == {"SOURCE_BLOCK_NOT_ATTESTED", "PROOF_BUILDER_UNAVAILABLE", "PROOF_NOT_FOUND"}

WorldOK ==
  /\ case \in Cases /\ creditcoin \in {"live", "otherChain", "otherMapping"} /\ honest \in BOOLEAN

SourceOK == head \in 0..MaxBlock /\ at \in {Gone, Pending} \cup Blocks /\ status \in {0, 1}

AttestedOK == attested \in Seq(SUBSET {0, 1}) /\ Len(attested) <= MaxBlock

\* What the next call relies on.
RunOK ==
  /\ run.pc \in {"idle"} \cup Calls
  /\ run.pc \notin {"idle", "getTransaction"} => run.block \in Blocks
  /\ run.pc \in Successful => run.status = 1
  /\ run.pc \in OfCreditcoin => creditcoin = "live"
  /\ run.pc # "idle" => case.policy.sourceChainKey = SourceKey
  /\ run.pc = "prove" =>
       /\ run.proof \in Proofs /\ run.proof.header = run.block /\ run.proof.key = SourceKey
       /\ honest => run.proof.ours

\* The run is a record with the fields that are assigned to it.
RunShape == {"pc", "block", "status"} \subseteq DOMAIN run

VerdictOK == AcceptedIsAttested /\ WaitingIsNotFailed /\ RefusalIsDeserved

AttestationInv ==
  WorldOK /\ SourceOK /\ AttestedOK /\ RunOK /\ RunShape /\ VerdictOK

\* What a verdict without a proof has to be true of.
Deserved(code) ==
  /\ code # "ok"
  /\ code \in Waits => run.block \in Blocks /\ run.status = 1
  /\ code \notin Transient /\ honest /\ creditcoin = "live" /\ case.transactionType <= 2 =>
       LET tx == AsIn(run.block, run.status) IN
       ~(IsPlain(tx, case.policy) /\ Meets(tx, case.policy))

\* What the actions of a verification leave alone.
Kept == UNCHANGED <<case, creditcoin, honest, head, at, status, reorgs, attested>>

LEMMA QuietKeeps ==
  ASSUME Quiet
  PROVE  Kept
BY DEF Quiet, world, sourceChain, Kept

LEMMA EndsWell ==
  ASSUME AttestationInv, Kept, NEW code, Deserved(code), Answers(code)
  PROVE  AttestationInv'
<1>1. verdict' = [code |-> code, block |-> run.block, status |-> run.status] /\ run' = Idle
  BY DEF Answers
<1>2. WorldOK' /\ SourceOK' /\ AttestedOK'
  BY DEF AttestationInv, WorldOK, SourceOK, AttestedOK, Kept, Blocks
<1>3. RunOK' /\ RunShape'
  BY <1>1 DEF RunOK, RunShape, Idle, Successful, OfCreditcoin, Calls
<1>4. AcceptedIsAttested'
  BY <1>1 DEF AcceptedIsAttested, Deserved
<1>5. WaitingIsNotFailed'
  BY <1>1 DEF WaitingIsNotFailed, Deserved, Waits, Blocks
<1>6. RefusalIsDeserved'
  BY <1>1 DEF RefusalIsDeserved, Deserved, Kept, AsIn
<1> QED
  BY <1>2, <1>3, <1>4, <1>5, <1>6 DEF AttestationInv, VerdictOK

LEMMA VerdictKept ==
  ASSUME AttestationInv, Kept, UNCHANGED verdict
  PROVE  WorldOK' /\ SourceOK' /\ AttestedOK' /\ VerdictOK'
<1>1. WorldOK' /\ SourceOK' /\ AttestedOK'
  BY DEF AttestationInv, WorldOK, SourceOK, AttestedOK, Kept, Blocks
<1>2. AcceptedIsAttested' /\ WaitingIsNotFailed' /\ RefusalIsDeserved'
  BY DEF AttestationInv, VerdictOK, AcceptedIsAttested, WaitingIsNotFailed, RefusalIsDeserved,
         Kept, Blocks, AsIn
<1> QED
  BY <1>1, <1>2 DEF VerdictOK

\* A code that offers a retry, from a call that may end with it.
LEMMA TransientDeserved ==
  ASSUME RunOK, NEW code \in Transient \ {"none", "ok"},
         code \in Waits => run.pc \in Successful
  PROVE  Deserved(code)
BY DEF Deserved, RunOK, Successful, Calls, Transient, Waits

LEMMA GoesOnWell ==
  ASSUME AttestationInv, Kept, NEW pc \in Successful, GoesOn(pc), pc # "prove",
         run.pc # "idle", run.pc # "getTransaction", run.status = 1,
         pc \in OfCreditcoin => creditcoin = "live"
  PROVE  AttestationInv'
<1>1. run' = [run EXCEPT !.pc = pc] /\ UNCHANGED verdict
  BY DEF GoesOn
<1>2. run'.pc = pc /\ run'.block = run.block /\ run'.status = run.status /\ DOMAIN run' = DOMAIN run
  BY <1>1 DEF AttestationInv, RunShape
<1>3. RunOK' /\ RunShape'
  BY <1>2 DEF AttestationInv, RunOK, RunShape, Kept, Successful, OfCreditcoin, Calls, Blocks
<1> QED
  BY <1>1, <1>3, VerdictKept DEF AttestationInv

LEMMA InitEstablishes ==
  ASSUME AttestationInit
  PROVE  AttestationInv
<1>1. WorldOK /\ SourceOK /\ AttestedOK
  BY AttestationAssumption DEF AttestationInit, WorldOK, SourceOK, AttestedOK
<1>2. RunOK /\ RunShape
  BY DEF AttestationInit, RunOK, RunShape, Idle, Successful, OfCreditcoin, Calls
<1>3. VerdictOK
  BY DEF AttestationInit, NoVerdict, VerdictOK, AcceptedIsAttested, WaitingIsNotFailed,
         RefusalIsDeserved, Transient
<1> QED
  BY <1>1, <1>2, <1>3 DEF AttestationInv

(***************************************************************************)
(* The chains.                                                             *)
(***************************************************************************)
\* A step of the chains leaves the verification alone.
LEMMA ChainsKeep ==
  ASSUME AttestationInv, UNCHANGED <<world, run, verdict>>, SourceOK', AttestedOK',
         \A h \in DOMAIN attested : h \in DOMAIN attested' /\ attested'[h] = attested[h]
  PROVE  AttestationInv'
<1>1. WorldOK' /\ RunOK' /\ RunShape'
  BY DEF AttestationInv, WorldOK, RunOK, RunShape, world, Blocks, Proofs
<1>2. AcceptedIsAttested'
  BY DEF AttestationInv, VerdictOK, AcceptedIsAttested, world, AsIn
<1>3. WaitingIsNotFailed' /\ RefusalIsDeserved'
  BY DEF AttestationInv, VerdictOK, WaitingIsNotFailed, RefusalIsDeserved, world, AsIn, Blocks
<1> QED
  BY <1>1, <1>2, <1>3 DEF AttestationInv, VerdictOK

LEMMA ChainStep ==
  ASSUME AttestationInv, MineBlock \/ Reorganise \/ Attest
  PROVE  AttestationInv'
<1> USE AttestationAssumption
<1>1. CASE MineBlock
  <2>1. SourceOK'
    BY <1>1 DEF MineBlock, AttestationInv, SourceOK, Blocks, Pending, Gone
  <2>2. AttestedOK' /\ attested' = attested
    BY <1>1 DEF MineBlock, AttestationInv, AttestedOK
  <2> QED
    BY <1>1, <2>1, <2>2, ChainsKeep DEF MineBlock
<1>2. CASE Reorganise
  <2>1. SourceOK'
    BY <1>2 DEF Reorganise, AttestationInv, SourceOK, Blocks, Pending, Gone
  <2>2. AttestedOK' /\ attested' = attested
    BY <1>2 DEF Reorganise, AttestationInv, AttestedOK
  <2> QED
    BY <1>2, <2>1, <2>2, ChainsKeep DEF Reorganise
<1>3. CASE Attest
  <2>1. SourceOK'
    BY <1>3 DEF Attest, sourceChain, AttestationInv, SourceOK
  <2>2. PICK s \in SUBSET {0, 1} : attested' = Append(attested, s)
    BY <1>3 DEF Attest, AttestationInv, SourceOK
  <2>3. /\ attested' \in Seq(SUBSET {0, 1}) /\ Len(attested') = Len(attested) + 1
        /\ \A h \in DOMAIN attested : h \in DOMAIN attested' /\ attested'[h] = attested[h]
    BY <2>2 DEF AttestationInv, AttestedOK
  <2>4. AttestedOK'
    BY <1>3, <2>3 DEF Attest, AttestationInv, AttestedOK, SourceOK
  <2> QED
    BY <1>3, <2>1, <2>3, <2>4, ChainsKeep DEF Attest
<1> QED
  BY <1>1, <1>2, <1>3

(***************************************************************************)
(* The calls before the receipt is known to be of success.                 *)
(***************************************************************************)
LEMMA CaseFields ==
  ASSUME WorldOK
  PROVE  /\ ValidPolicy(case.policy) /\ case.policy.assetKind \in {"native", "erc20"}
         /\ case.policy.minSourceBlock \in Nat /\ case.policy.maxSourceBlock \in Nat
         /\ {"sourceChainKey", "sourceBlockNumber", "receiptStatus"} \subseteq DOMAIN case.tx
         /\ DOMAIN case.tx.logs \subseteq Nat /\ case.transactionType \in Nat
BY AttestationAssumption DEF WorldOK

LEMMA AsInFields ==
  ASSUME WorldOK, NEW block, NEW receiptStatus
  PROVE  /\ AsIn(block, receiptStatus).sourceChainKey = SourceKey
         /\ AsIn(block, receiptStatus).sourceBlockNumber = block
         /\ AsIn(block, receiptStatus).receiptStatus = receiptStatus
         /\ AsIn(block, receiptStatus).logs = case.tx.logs
<1>1. {"sourceChainKey", "sourceBlockNumber", "receiptStatus"} \subseteq DOMAIN case.tx
  BY CaseFields
<1> DEFINE one == [case.tx EXCEPT !.sourceChainKey = SourceKey]
           two == [one EXCEPT !.sourceBlockNumber = block]
           three == [two EXCEPT !.receiptStatus = receiptStatus]
<1>2. DOMAIN one = DOMAIN case.tx /\ one.sourceChainKey = SourceKey
  BY <1>1
<1>3. DOMAIN two = DOMAIN case.tx /\ two.sourceChainKey = SourceKey /\ two.sourceBlockNumber = block
  BY <1>1, <1>2
<1>4. /\ three.sourceChainKey = SourceKey /\ three.sourceBlockNumber = block
      /\ three.receiptStatus = receiptStatus
  BY <1>1, <1>3
<1>5. three.logs = case.tx.logs
  OBVIOUS
<1> QED
  BY <1>4, <1>5 DEF AsIn

LEMMA VerifyStep ==
  ASSUME AttestationInv, Verify
  PROVE  AttestationInv'
<1>1. Kept /\ run.pc = "idle"
  BY QuietKeeps DEF Verify, Calling
<1>2. CASE case.policy.sourceChainKey # SourceKey
  <2>1. ~Meets(AsIn(run.block, run.status), case.policy)
    BY <1>2, AsInFields DEF AttestationInv, Meets
  <2>2. Deserved("UNSUPPORTED_SOURCE_CHAIN")
    BY <2>1 DEF Deserved, Waits
  <2> QED
    BY <1>1, <1>2, <2>2, EndsWell DEF Verify
<1>3. CASE case.policy.sourceChainKey = SourceKey
  <2>1. run' = [run EXCEPT !.pc = "getTransaction"] /\ verdict' = NoVerdict
    BY <1>3 DEF Verify
  <2>2. WorldOK' /\ SourceOK' /\ AttestedOK'
    BY <1>1 DEF AttestationInv, WorldOK, SourceOK, AttestedOK, Kept, Blocks
  <2>3. RunOK' /\ RunShape'
    BY <1>1, <1>3, <2>1 DEF AttestationInv, RunOK, RunShape, Kept, Successful, OfCreditcoin, Calls
  <2>4. VerdictOK'
    BY <2>1 DEF NoVerdict, VerdictOK, AcceptedIsAttested, WaitingIsNotFailed, RefusalIsDeserved,
            Transient
  <2> QED
    BY <2>2, <2>3, <2>4 DEF AttestationInv
<1> QED
  BY <1>2, <1>3

LEMMA GetTransactionStep ==
  ASSUME AttestationInv, GetTransaction
  PROVE  AttestationInv'
<1>1. Kept /\ run.pc = "getTransaction"
  BY QuietKeeps DEF GetTransaction, Calling
<1>2. CASE Answers("SOURCE_TRANSACTION_NOT_FOUND") \/ Answers("SOURCE_TRANSACTION_NOT_MINED")
  <2>1. Deserved("SOURCE_TRANSACTION_NOT_FOUND") /\ Deserved("SOURCE_TRANSACTION_NOT_MINED")
    BY TransientDeserved DEF AttestationInv, Transient, Waits
  <2> QED
    BY <1>1, <1>2, <2>1, EndsWell
<1>3. CASE /\ at # Gone /\ at # Pending /\ UNCHANGED verdict
           /\ run' = [run EXCEPT !.pc = "getTransactionReceipt", !.block = at]
  <2>1. at \in Blocks
    BY <1>3 DEF AttestationInv, SourceOK
  <2>2. RunOK' /\ RunShape'
    BY <1>1, <1>3, <2>1
    DEF AttestationInv, RunOK, RunShape, Kept, Successful, OfCreditcoin, Calls, Blocks
  <2> QED
    BY <1>1, <1>3, <2>2, VerdictKept DEF AttestationInv
<1> QED
  BY <1>2, <1>3 DEF GetTransaction, Pending, Gone

LEMMA GetTransactionReceiptStep ==
  ASSUME AttestationInv, GetTransactionReceipt
  PROVE  AttestationInv'
<1>1. Kept /\ run.pc = "getTransactionReceipt"
  BY QuietKeeps DEF GetTransactionReceipt, Calling
<1>2. CASE Answers("SOURCE_TRANSACTION_NOT_MINED") \/ Answers("INVALID_PROOF")
  <2>1. Deserved("SOURCE_TRANSACTION_NOT_MINED") /\ Deserved("INVALID_PROOF")
    BY TransientDeserved DEF AttestationInv, Transient, Waits
  <2> QED
    BY <1>1, <1>2, <2>1, EndsWell
<1>3. CASE run' = [run EXCEPT !.pc = "getBlock", !.status = status] /\ UNCHANGED verdict
  <2>1. RunOK' /\ RunShape'
    BY <1>1, <1>3
    DEF AttestationInv, RunOK, RunShape, Kept, Successful, OfCreditcoin, Calls, Blocks
  <2> QED
    BY <1>1, <1>3, <2>1, VerdictKept DEF AttestationInv
<1> QED
  BY <1>2, <1>3 DEF GetTransactionReceipt

LEMMA GetBlockStep ==
  ASSUME AttestationInv, GetBlock
  PROVE  AttestationInv'
<1>1. Kept /\ run.pc = "getBlock"
  BY QuietKeeps DEF GetBlock, Calling
<1>2. CASE Answers("SOURCE_TRANSACTION_NOT_MINED")
  <2>1. Deserved("SOURCE_TRANSACTION_NOT_MINED")
    BY TransientDeserved DEF AttestationInv, Transient, Waits
  <2> QED
    BY <1>1, <1>2, <2>1, EndsWell
<1>3. CASE run.status # 1 /\ Answers("POLICY_MISMATCH")
  <2>1. ~Meets(AsIn(run.block, run.status), case.policy)
    BY <1>3, AsInFields DEF AttestationInv, Meets
  <2>2. Deserved("POLICY_MISMATCH")
    BY <2>1 DEF Deserved, Waits
  <2> QED
    BY <1>1, <1>3, <2>2, EndsWell
<1>4. CASE run.status = 1 /\ GoesOn("getNetwork")
  BY <1>1, <1>4, GoesOnWell DEF Successful, OfCreditcoin, Calls
<1>5. run.block <= head \/ run.block > head
  BY <1>1, AttestationAssumption DEF AttestationInv, RunOK, SourceOK, Blocks
<1> QED
  BY <1>2, <1>3, <1>4, <1>5 DEF GetBlock

(***************************************************************************)
(* The calls to Creditcoin and to the Proof Builder.                       *)
(***************************************************************************)
LEMMA CheckCreditcoinStep ==
  ASSUME AttestationInv, CheckCreditcoin
  PROVE  AttestationInv'
<1>1. Kept /\ run.pc = "getNetwork" /\ run.status = 1
  BY QuietKeeps DEF CheckCreditcoin, Calling, AttestationInv, RunOK, Successful, Calls
<1>2. CASE creditcoin = "otherChain" /\ Answers("CONFIGURATION_MISSING")
  <2>1. Deserved("CONFIGURATION_MISSING")
    BY <1>2 DEF Deserved, Waits
  <2> QED
    BY <1>1, <1>2, <2>1, EndsWell
<1>3. CASE creditcoin = "otherMapping" /\ Answers("UNSUPPORTED_SOURCE_CHAIN")
  <2>1. Deserved("UNSUPPORTED_SOURCE_CHAIN")
    BY <1>3 DEF Deserved, Waits
  <2> QED
    BY <1>1, <1>3, <2>1, EndsWell
<1>4. CASE creditcoin = "live" /\ GoesOn("getLatestAttested")
  BY <1>1, <1>4, GoesOnWell DEF Successful, Calls
<1> QED
  BY <1>2, <1>3, <1>4 DEF CheckCreditcoin, AttestationInv, WorldOK

LEMMA AttestedCalls ==
  ASSUME AttestationInv, GetLatestAttested \/ WaitUntilHeightAttested \/ GetLatestAttestedAgain
  PROVE  AttestationInv'
<1>1. /\ Kept /\ run.pc \in {"getLatestAttested", "waitUntilHeightAttested", "getLatestAttestedAgain"}
      /\ run.status = 1 /\ creditcoin = "live"
  BY QuietKeeps
  DEF GetLatestAttested, WaitUntilHeightAttested, GetLatestAttestedAgain, Calling,
      AttestationInv, RunOK, Successful, OfCreditcoin, Calls
<1>2. CASE \E pc \in {"waitForBuilder", "waitUntilHeightAttested", "getLatestAttestedAgain"} : GoesOn(pc)
  BY <1>1, <1>2, GoesOnWell DEF Successful, Calls
<1>3. CASE Answers("SOURCE_BLOCK_NOT_ATTESTED")
  <2>1. Deserved("SOURCE_BLOCK_NOT_ATTESTED")
    BY <1>1, TransientDeserved DEF AttestationInv, Transient, Successful, Calls
  <2> QED
    BY <1>1, <1>3, <2>1, EndsWell
<1> QED
  BY <1>2, <1>3 DEF GetLatestAttested, WaitUntilHeightAttested, GetLatestAttestedAgain

LEMMA WaitForBuilderStep ==
  ASSUME AttestationInv, WaitForBuilder
  PROVE  AttestationInv'
<1>1. Kept /\ run.pc = "waitForBuilder" /\ run.status = 1 /\ creditcoin = "live"
  BY QuietKeeps
  DEF WaitForBuilder, Calling, AttestationInv, RunOK, Successful, OfCreditcoin, Calls
<1>2. CASE GoesOn("getProof")
  BY <1>1, <1>2, GoesOnWell DEF Successful, Calls
<1>3. CASE Answers("PROOF_BUILDER_UNAVAILABLE")
  <2>1. Deserved("PROOF_BUILDER_UNAVAILABLE")
    BY <1>1, TransientDeserved DEF AttestationInv, Transient, Successful, Calls
  <2> QED
    BY <1>1, <1>3, <2>1, EndsWell
<1> QED
  BY <1>2, <1>3 DEF WaitForBuilder

(* The metadata of a proof that the service goes on with.                  *)
LEMMA MetadataOK ==
  ASSUME NEW proof, Metadata(proof) = "ok"
  PROVE  proof.key = SourceKey /\ proof.header = run.block
<1> DEFINE checks == <<
    <<proof.key # SourceKey, "UNSUPPORTED_SOURCE_CHAIN">>,
    <<proof.header # run.block, "INVALID_PROOF">>,
    <<~proof.claimsOurs, "TRANSACTION_HASH_MISMATCH">>,
    <<~proof.indexMatches, "INVALID_PROOF">> >>
<1>1. Checks(checks, 4)
  BY DEF Checks
<1>2. \A i \in 1..4 : ~checks[i][1]
  BY <1>1, NoCheckFails DEF Metadata
<1>3. ~checks[1][1] /\ ~checks[2][1]
  BY <1>2
<1> QED
  BY <1>3

\* What a refusal is of: a check that fails, or what comes after all of them.
LEMMA SomeCheckFails ==
  ASSUME NEW checks, NEW n, Checks(checks, n), NEW otherwise
  PROVE  \/ FirstFailure(checks, otherwise) = otherwise /\ \A i \in 1..n : ~checks[i][1]
         \/ \E i \in 1..n : checks[i][1] /\ FirstFailure(checks, otherwise) = checks[i][2]
<1> DEFINE failing == {i \in DOMAIN checks : checks[i][1]}
<1>1. CASE failing # {}
  <2>1. First(failing) \in failing
    <3>1. failing \subseteq 1..8
      BY DEF Checks
    <3> HIDE DEF failing
    <3> QED
      BY <1>1, <3>1, FirstIsIn
  <2>2. FirstFailure(checks, otherwise) = checks[First(failing)][2]
    BY <1>1 DEF FirstFailure
  <2> QED
    BY <2>1, <2>2 DEF Checks
<1>2. CASE failing = {}
  BY <1>2 DEF FirstFailure, Checks
<1> QED
  BY <1>1, <1>2

(* An honest builder's proof is refused with a code that offers a retry.   *)
LEMMA MetadataRefused ==
  ASSUME NEW proof, Metadata(proof) # "ok"
  PROVE  /\ Metadata(proof) \in {"UNSUPPORTED_SOURCE_CHAIN", "INVALID_PROOF", "TRANSACTION_HASH_MISMATCH"}
         /\ IsHonest(proof) => Metadata(proof) = "INVALID_PROOF"
<1> DEFINE checks == <<
    <<proof.key # SourceKey, "UNSUPPORTED_SOURCE_CHAIN">>,
    <<proof.header # run.block, "INVALID_PROOF">>,
    <<~proof.claimsOurs, "TRANSACTION_HASH_MISMATCH">>,
    <<~proof.indexMatches, "INVALID_PROOF">> >>
<1>1. Checks(checks, 4)
  BY DEF Checks
<1>2. \E i \in 1..4 : checks[i][1] /\ Metadata(proof) = checks[i][2]
  <2>1. Metadata(proof) = FirstFailure(checks, "ok")
    BY DEF Metadata
  <2> HIDE DEF checks
  <2> QED
    BY <1>1, <2>1, SomeCheckFails
<1>. PICK i \in 1..4 : checks[i][1] /\ Metadata(proof) = checks[i][2]
  BY <1>2
<1>3. i \in {1, 2, 3, 4}
  OBVIOUS
<1>4. CASE i = 1
  BY <1>4 DEF IsHonest
<1>5. CASE i = 2
  BY <1>5
<1>6. CASE i = 3
  BY <1>6 DEF IsHonest
<1>7. CASE i = 4
  BY <1>7
<1> QED
  BY <1>3, <1>4, <1>5, <1>6, <1>7

LEMMA GetProofStep ==
  ASSUME AttestationInv, GetProof
  PROVE  AttestationInv'
<1>1. /\ Kept /\ run.pc = "getProof" /\ run.status = 1 /\ run.block \in Blocks
      /\ creditcoin = "live" /\ case.policy.sourceChainKey = SourceKey
  BY QuietKeeps
  DEF GetProof, Calling, AttestationInv, RunOK, Successful, OfCreditcoin, Calls
<1>2. CASE \E statusCode \in {400, 404, 503} : Answers(Refusal(statusCode))
  <2>1. PICK statusCode \in {400, 404, 503} : Answers(Refusal(statusCode))
    BY <1>2
  <2>2. Refusal(statusCode) \in {"PROOF_NOT_FOUND", "PROOF_BUILDER_UNAVAILABLE", "INVALID_PROOF"}
    BY DEF Refusal
  <2>3. Deserved(Refusal(statusCode))
    BY <1>1, <2>2, TransientDeserved DEF AttestationInv, Transient, Successful, Calls
  <2> QED
    BY <1>1, <2>1, <2>3, EndsWell
<1>3. ASSUME NEW proof \in Proofs, honest => IsHonest(proof),
             Metadata(proof) # "ok", Answers(Metadata(proof))
      PROVE  AttestationInv'
  <2>1. Deserved(Metadata(proof))
    BY <1>1, <1>3, MetadataRefused DEF Deserved, Waits, Transient
  <2> QED
    BY <1>1, <1>3, <2>1, EndsWell
<1>4. ASSUME NEW proof \in Proofs, honest => IsHonest(proof), Metadata(proof) = "ok",
             run' = [pc |-> "prove", block |-> run.block, status |-> run.status, proof |-> proof],
             UNCHANGED verdict
      PROVE  AttestationInv'
  <2>1. proof.key = SourceKey /\ proof.header = run.block
    BY <1>4, MetadataOK
  <2>2. run'.pc = "prove" /\ run'.block = run.block /\ run'.status = 1 /\ run'.proof = proof
    BY <1>1, <1>4
  <2>3. RunOK' /\ RunShape'
    BY <1>1, <1>4, <2>1, <2>2
    DEF RunOK, RunShape, Kept, Successful, OfCreditcoin, Calls, Blocks, Proofs, IsHonest
  <2> QED
    BY <1>1, <1>4, <2>3, VerdictKept DEF AttestationInv
<1> QED
  BY <1>2, <1>3, <1>4 DEF GetProof

(***************************************************************************)
(* The proof itself.                                                       *)
(***************************************************************************)
LEMMA OutcomeOK ==
  ASSUME NEW proof, Outcome(proof) = "ok"
  PROVE  /\ Included(proof) /\ proof.ours /\ proof.status = run.status
         /\ Evaluate(AttestedTransaction(proof), case.policy) = "ok"
<1> DEFINE checks == <<
    <<~Included(proof), "CREDITCOIN_VERIFICATION_FAILED">>,
    <<case.transactionType > 2, "MISSING_TRANSACTION_CONTEXT">>,
    <<~proof.ours, "TRANSACTION_HASH_MISMATCH">>,
    <<proof.status # run.status, "INVALID_PROOF">> >>
<1> DEFINE evaluated == Evaluate(AttestedTransaction(proof), case.policy)
<1>1. Checks(checks, 4)
  BY DEF Checks
<1>2. FirstFailure(checks, evaluated) = "ok"
  BY DEF Outcome
<1>3. evaluated = "ok" /\ \A i \in 1..4 : ~checks[i][1]
  <2> HIDE DEF checks, evaluated
  <2> QED
    BY <1>1, <1>2, NoCheckFails
<1>4. ~checks[1][1] /\ ~checks[3][1] /\ ~checks[4][1]
  BY <1>3
<1> QED
  BY <1>3, <1>4

LEMMA OutcomeRefused ==
  ASSUME NEW proof, Outcome(proof) # "ok"
  PROVE  \/ Outcome(proof) \in {"CREDITCOIN_VERIFICATION_FAILED", "INVALID_PROOF"}
         \/ case.transactionType > 2
         \/ ~proof.ours
         \/ /\ proof.status = run.status
            /\ Evaluate(AttestedTransaction(proof), case.policy) # "ok"
<1> DEFINE checks == <<
    <<~Included(proof), "CREDITCOIN_VERIFICATION_FAILED">>,
    <<case.transactionType > 2, "MISSING_TRANSACTION_CONTEXT">>,
    <<~proof.ours, "TRANSACTION_HASH_MISMATCH">>,
    <<proof.status # run.status, "INVALID_PROOF">> >>
<1> DEFINE evaluated == Evaluate(AttestedTransaction(proof), case.policy)
<1>1. Checks(checks, 4)
  BY DEF Checks
<1>2. Outcome(proof) = FirstFailure(checks, evaluated)
  BY DEF Outcome
<1>3. \/ Outcome(proof) = evaluated /\ \A i \in 1..4 : ~checks[i][1]
      \/ \E i \in 1..4 : checks[i][1] /\ Outcome(proof) = checks[i][2]
  <2> HIDE DEF checks, evaluated
  <2> QED
    BY <1>1, <1>2, SomeCheckFails
<1>4. CASE Outcome(proof) = evaluated /\ \A i \in 1..4 : ~checks[i][1]
  <2>1. ~checks[4][1]
    BY <1>4
  <2> QED
    BY <1>4, <2>1
<1>5. ASSUME NEW i \in 1..4, checks[i][1], Outcome(proof) = checks[i][2]
      PROVE  \/ Outcome(proof) \in {"CREDITCOIN_VERIFICATION_FAILED", "INVALID_PROOF"}
             \/ case.transactionType > 2
             \/ ~proof.ours
  <2>1. i \in {1, 2, 3, 4}
    OBVIOUS
  <2>2. CASE i = 1
    BY <1>5, <2>2
  <2>3. CASE i = 2
    BY <1>5, <2>3
  <2>4. CASE i = 3
    BY <1>5, <2>4
  <2>5. CASE i = 4
    BY <1>5, <2>5
  <2> QED
    BY <2>1, <2>2, <2>3, <2>4, <2>5
<1> QED
  BY <1>3, <1>4, <1>5

\* What is decoded is what the source chain had in the attested block.
LEMMA DecodedIs ==
  ASSUME NEW proof, proof.key = SourceKey, proof.header = run.block, proof.status = run.status
  PROVE  AttestedTransaction(proof) = AsIn(run.block, run.status)
BY DEF AttestedTransaction, AsIn

LEMMA NumbersAsIn ==
  ASSUME WorldOK, NEW block \in Blocks, NEW receiptStatus
  PROVE  HasNumbers(AsIn(block, receiptStatus), case.policy)
BY CaseFields, AsInFields, AttestationAssumption DEF HasNumbers, Blocks

LEMMA ProveStep ==
  ASSUME AttestationInv, Prove
  PROVE  AttestationInv'
<1>1. /\ Kept /\ run.pc = "prove" /\ run.status = 1 /\ run.block \in Blocks
      /\ creditcoin = "live" /\ run.proof \in Proofs
      /\ run.proof.header = run.block /\ run.proof.key = SourceKey /\ (honest => run.proof.ours)
      /\ WorldOK
  BY QuietKeeps
  DEF Prove, Calling, AttestationInv, RunOK, Successful, OfCreditcoin, Calls
<1> DEFINE tx == AsIn(run.block, run.status)
<1>2. HasNumbers(tx, case.policy)
  BY <1>1, NumbersAsIn
<1>3. CASE Outcome(run.proof) = "ok"
  <2>1. /\ Included(run.proof) /\ run.proof.ours /\ run.proof.status = run.status
        /\ Evaluate(AttestedTransaction(run.proof), case.policy) = "ok"
    BY <1>3, OutcomeOK
  <2>2. Evaluate(tx, case.policy) = "ok"
    BY <1>1, <2>1, DecodedIs
  <2>3. Meets(tx, case.policy)
    BY <1>2, <2>2, AcceptedMeetsPolicy
  <2>4. run.block \in DOMAIN attested /\ run.status \in attested[run.block]
    BY <1>1, <2>1 DEF Included
  <2>5. /\ verdict' = [code |-> "ok", block |-> run.block, status |-> run.status, proof |-> run.proof]
        /\ run' = Idle
    BY <1>3 DEF Prove
  <2>6. AcceptedIsAttested'
    BY <1>1, <2>1, <2>3, <2>4, <2>5 DEF AcceptedIsAttested, Kept, AsIn
  <2>7. WaitingIsNotFailed' /\ RefusalIsDeserved'
    BY <2>5 DEF WaitingIsNotFailed, RefusalIsDeserved, Transient
  <2>8. RunOK' /\ RunShape'
    BY <2>5 DEF RunOK, RunShape, Idle, Successful, OfCreditcoin, Calls
  <2>9. WorldOK' /\ SourceOK' /\ AttestedOK'
    BY <1>1 DEF AttestationInv, WorldOK, SourceOK, AttestedOK, Kept, Blocks
  <2> QED
    BY <2>6, <2>7, <2>8, <2>9 DEF AttestationInv, VerdictOK
<1>4. CASE Outcome(run.proof) # "ok"
  <2>1. Answers(Outcome(run.proof))
    BY <1>4 DEF Prove
  <2>2. ASSUME Outcome(run.proof) \notin Transient, honest, case.transactionType <= 2,
               Meets(tx, case.policy), IsPlain(tx, case.policy)
        PROVE  FALSE
    <3>1. Evaluate(tx, case.policy) = "ok"
      <4>1. DOMAIN tx.logs \subseteq Nat
        BY <1>1, CaseFields, AsInFields
      <4> QED
        BY <1>1, <1>2, <2>2, <4>1, CaseFields, PlainPaymentIsAccepted
    <3>2. ~(case.transactionType > 2)
      BY <1>1, <2>2, CaseFields
    <3>3. Outcome(run.proof) \notin {"CREDITCOIN_VERIFICATION_FAILED", "INVALID_PROOF"}
      BY <2>2 DEF Transient
    <3>4. run.proof.ours
      BY <1>1, <2>2
    <3>5. /\ run.proof.status = run.status
          /\ Evaluate(AttestedTransaction(run.proof), case.policy) # "ok"
      BY <1>4, <3>2, <3>3, <3>4, OutcomeRefused
    <3> QED
      BY <1>1, <3>1, <3>5, DecodedIs
  <2>3. Deserved(Outcome(run.proof))
    BY <1>1, <1>4, <2>2 DEF Deserved
  <2> QED
    BY <1>1, <2>1, <2>3, EndsWell
<1> QED
  BY <1>3, <1>4

LEMMA CallFailsStep ==
  ASSUME AttestationInv, CallFails
  PROVE  AttestationInv'
<1>1. Kept /\ run.pc \in Calls
  BY QuietKeeps DEF CallFails, AttestationInv, RunOK
<1>2. PICK code \in FailureOf(run.pc) : Answers(code)
  BY DEF CallFails
<1>3. code \in Transient \ {"none", "ok"} /\ (code \in Waits => run.pc \in Successful)
  BY <1>1 DEF FailureOf, Transient, Waits, Successful, Calls
<1>4. Deserved(code)
  BY <1>3, TransientDeserved DEF AttestationInv
<1> QED
  BY <1>1, <1>2, <1>4, EndsWell

LEMMA StutterKeeps ==
  ASSUME AttestationInv, UNCHANGED attestationVars
  PROVE  AttestationInv'
<1>1. Kept /\ UNCHANGED <<run, verdict>>
  BY DEF attestationVars, Kept
<1>2. RunOK' /\ RunShape'
  BY <1>1 DEF AttestationInv, RunOK, RunShape, Kept, Blocks, Proofs
<1> QED
  BY <1>1, <1>2, VerdictKept DEF AttestationInv

LEMMA AttestationInductive ==
  AttestationInv /\ [AttestationNext]_attestationVars => AttestationInv'
<1> SUFFICES ASSUME AttestationInv, [AttestationNext]_attestationVars
             PROVE  AttestationInv'
  OBVIOUS
<1>1. CASE MineBlock \/ Reorganise \/ Attest
  BY <1>1, ChainStep
<1>2. CASE Verify
  BY <1>2, VerifyStep
<1>3. CASE GetTransaction
  BY <1>3, GetTransactionStep
<1>4. CASE GetTransactionReceipt
  BY <1>4, GetTransactionReceiptStep
<1>5. CASE GetBlock
  BY <1>5, GetBlockStep
<1>6. CASE CheckCreditcoin
  BY <1>6, CheckCreditcoinStep
<1>7. CASE GetLatestAttested \/ WaitUntilHeightAttested \/ GetLatestAttestedAgain
  BY <1>7, AttestedCalls
<1>8. CASE WaitForBuilder
  BY <1>8, WaitForBuilderStep
<1>9. CASE GetProof
  BY <1>9, GetProofStep
<1>10. CASE Prove
  BY <1>10, ProveStep
<1>11. CASE CallFails
  BY <1>11, CallFailsStep
<1>12. CASE UNCHANGED attestationVars
  BY <1>12, StutterKeeps
<1> QED
  BY <1>1, <1>2, <1>3, <1>4, <1>5, <1>6, <1>7, <1>8, <1>9, <1>10, <1>11, <1>12
  DEF AttestationNext, RunStep

LEMMA AttestationAlways ==
  AttestationSpec => []AttestationInv
<1>1. AttestationInit => AttestationInv
  BY InitEstablishes
<1> QED
  BY <1>1, AttestationInductive, PTL DEF AttestationSpec

(***************************************************************************)
(* Theorems.                                                               *)
(***************************************************************************)
(* Every call of a verification is made with what it needs, and the answer *)
(* that is kept is one the service gives.                                  *)
THEOREM AttestationTypeCorrect ==
  AttestationSpec => []AttestationTypeOK
<1>1. AttestationInv => AttestationTypeOK
  BY DEF AttestationInv, SourceOK, AttestedOK, RunOK, AttestationTypeOK
<1> QED
  BY <1>1, AttestationAlways, PTL

(* No answer of the Proof Builder and no reorganisation makes the service  *)
(* accept what Creditcoin has not attested or what misses the policy.      *)
THEOREM AcceptedAlwaysAttested ==
  AttestationSpec => []AcceptedIsAttested
<1>1. AttestationInv => AcceptedIsAttested
  BY DEF AttestationInv, VerdictOK
<1> QED
  BY <1>1, AttestationAlways, PTL

(* With an honest builder, a plain payment that meets its agreement is     *)
(* never refused for good.                                                 *)
THEOREM RefusalsAlwaysDeserved ==
  AttestationSpec => []RefusalIsDeserved
<1>1. AttestationInv => RefusalIsDeserved
  BY DEF AttestationInv, VerdictOK
<1> QED
  BY <1>1, AttestationAlways, PTL

(* What waits for attestation or proof was mined with success.             *)
THEOREM WaitingNeverFailed ==
  AttestationSpec => []WaitingIsNotFailed
<1>1. AttestationInv => WaitingIsNotFailed
  BY DEF AttestationInv, VerdictOK
<1> QED
  BY <1>1, AttestationAlways, PTL
=============================================================================
