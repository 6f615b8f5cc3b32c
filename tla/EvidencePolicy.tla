--------------------------- MODULE EvidencePolicy ---------------------------
(***************************************************************************)
(* The evidence policy of an agreement and what it makes of a transaction: *)
(* evidencePolicySchema (shared/src/index.ts) and                          *)
(* SourceTransactionPolicyEvaluator (source-transaction-interpreter.ts).   *)
(* A policy is a record with the fields of the schema, addresses are       *)
(* values of any kind, and a transaction has the fields of                 *)
(* VerifiedSourceTransaction; its data is a record that says which         *)
(* function it calls, and a log one that says whether it is a Transfer     *)
(* with three topics and an amount (wellFormed).                           *)
(***************************************************************************)
EXTENDS Integers

CONSTANT ZeroAddress

\* The first of some positions.
First(positions) == CHOOSE i \in positions : \A j \in positions : i <= j

\* The outcome of checks that are made in order: the code of the first that
\* fails.  Each check is a pair, whether it fails and its code.
FirstFailure(checks, otherwise) ==
  LET failing == {i \in DOMAIN checks : checks[i][1]} IN
  IF failing = {} THEN otherwise ELSE checks[First(failing)][2]

ValidPolicy(policy) ==
  /\ policy.expectedRecipient # ZeroAddress
  /\ policy.expectedSender # ZeroAddress
  /\ policy.amount > 0
  /\ policy.maxSourceBlock # 0 => policy.minSourceBlock <= policy.maxSourceBlock
  /\ IF policy.assetKind = "native"
     THEN policy.expectedAsset = ZeroAddress /\ ~policy.requireTransferEvent
     ELSE /\ policy.expectedAsset # ZeroAddress
          /\ policy.expectedSourceContract # ZeroAddress
          /\ policy.requireTransferEvent
  /\ policy.calldataSelector \in {"none", "transfer"}

AmountFits(amount, policy) ==
  IF policy.amountRule = "exact" THEN amount = policy.amount ELSE amount >= policy.amount

EvaluateNative(tx, policy) ==
  FirstFailure(<< <<tx.to # policy.expectedRecipient, "WRONG_RECIPIENT">>,
                  <<~AmountFits(tx.value, policy), "WRONG_AMOUNT">> >>, "ok")

\* The calldata, when the policy commits to it, decodes as a transfer.
CalldataFits(data, policy) ==
  policy.calldataSelector = "none" \/
    /\ data.selector = policy.calldataSelector
    /\ data.decodes
    /\ data.recipient = policy.expectedRecipient
    /\ AmountFits(data.amount, policy)

AssetLogs(tx, policy) ==
  {i \in DOMAIN tx.logs : tx.logs[i].event = "Transfer" /\ tx.logs[i].address = policy.expectedAsset}

\* Between the committed participants.
MatchingLogs(tx, policy) ==
  {i \in AssetLogs(tx, policy) :
     /\ tx.logs[i].wellFormed
     /\ tx.logs[i].sender = policy.expectedSender
     /\ tx.logs[i].recipient = policy.expectedRecipient}

\* The first of some logs is of the agreed amount.
FirstFits(tx, positions, policy) ==
  \E i \in positions :
    (\A j \in positions : i <= j) /\ AmountFits(tx.logs[i].amount, policy)

\* Mutant: the amount of the first transfer of the asset decides.
EvaluateErc20FirstTransfer(tx, policy) ==
  FirstFailure(<<
    <<tx.value # 0, "WRONG_ASSET">>,
    <<~CalldataFits(tx.data, policy), "WRONG_CALLDATA">>,
    <<AssetLogs(tx, policy) = {}, "WRONG_ASSET">>,
    <<MatchingLogs(tx, policy) = {}, "WRONG_EVENT">>,
    <<~FirstFits(tx, AssetLogs(tx, policy), policy), "WRONG_AMOUNT">> >>, "ok")

\* The first matching log decides, whatever the later ones are.
EvaluateErc20(tx, policy) ==
  FirstFailure(<<
    <<tx.value # 0, "WRONG_ASSET">>,
    <<~CalldataFits(tx.data, policy), "WRONG_CALLDATA">>,
    <<\A i \in DOMAIN tx.logs : tx.logs[i].event # "Transfer", "WRONG_EVENT">>,
    <<AssetLogs(tx, policy) = {}, "WRONG_ASSET">>,
    <<MatchingLogs(tx, policy) = {}, "WRONG_EVENT">>,
    <<~FirstFits(tx, MatchingLogs(tx, policy), policy), "WRONG_AMOUNT">> >>, "ok")

Evaluate(tx, policy) ==
  FirstFailure(<<
    <<~ValidPolicy(policy), "INVALID_POLICY">>,
    <<tx.receiptStatus # 1, "WRONG_EVENT">>,
    <<tx.sourceChainKey # policy.sourceChainKey, "UNSUPPORTED_SOURCE_CHAIN">>,
    <<tx.from # policy.expectedSender, "SUBJECT_MISMATCH">>,
    <<policy.expectedSourceContract \notin {ZeroAddress, tx.to}, "WRONG_SOURCE_CONTRACT">>,
    <<policy.minSourceBlock > tx.sourceBlockNumber, "STALE_EVIDENCE">>,
    <<policy.maxSourceBlock # 0 /\ tx.sourceBlockNumber > policy.maxSourceBlock,
      "STALE_EVIDENCE">> >>,
    IF policy.assetKind = "native" THEN EvaluateNative(tx, policy) ELSE EvaluateErc20(tx, policy))

(***************************************************************************)
(* What the agreement means, without an order of checks: the transaction   *)
(* moved the agreed amount from the sender to the recipient in the window. *)
(***************************************************************************)
Moves(tx, policy) ==
  IF policy.assetKind = "native"
  THEN tx.to = policy.expectedRecipient /\ AmountFits(tx.value, policy)
  ELSE \E i \in DOMAIN tx.logs :
         /\ tx.logs[i].event = "Transfer" /\ tx.logs[i].wellFormed
         /\ tx.logs[i].address = policy.expectedAsset
         /\ tx.logs[i].sender = policy.expectedSender
         /\ tx.logs[i].recipient = policy.expectedRecipient
         /\ AmountFits(tx.logs[i].amount, policy)

Meets(tx, policy) ==
  /\ tx.receiptStatus = 1 /\ tx.from = policy.expectedSender
  /\ tx.sourceChainKey = policy.sourceChainKey
  /\ policy.minSourceBlock <= tx.sourceBlockNumber
  /\ tx.sourceBlockNumber <= policy.maxSourceBlock \/ policy.maxSourceBlock = 0
  /\ Moves(tx, policy)

\* One call of the committed contract, with a single transfer in it.
IsPlain(tx, policy) ==
  /\ policy.expectedSourceContract \in {ZeroAddress, tx.to}
  /\ policy.assetKind = "erc20" =>
       /\ tx.value = 0 /\ CalldataFits(tx.data, policy)
       /\ \A i, j \in MatchingLogs(tx, policy) : i = j
=============================================================================
