---------------------------- MODULE Attestation ----------------------------
(***************************************************************************)
(* One proof of a source transaction at a time: AttestcoinService.verify   *)
(* (attestcoin-service.ts) with the decoder of what was attested           *)
(* (attested-transaction-decoder.ts), up to the verdict of the policy.     *)
(*                                                                         *)
(* The run asks four parties that do not wait for each other.  The source  *)
(* chain mines the transaction and may reorganise.  Creditcoin attests the *)
(* blocks of the source chain as they are at that time, and its prover     *)
(* accepts what is included in an attested block, and nothing else.  The   *)
(* Proof Builder is a web service: it answers with any proof when it is    *)
(* not honest.  Every call may fail.                                       *)
(***************************************************************************)
EXTENDS EvidencePolicy, Sequences

CONSTANTS
  Cases,       \* policies, and transactions whose hash is submitted under them
  SourceKey,   \* SEPOLIA_CHAIN_KEY
  MaxBlock,    \* blocks of the source chain
  MaxReorgs    \* reorganisations of the source chain

ASSUME AttestationAssumption ==
  /\ MaxBlock \in Nat /\ MaxReorgs \in Nat
  /\ \A c \in Cases :
       /\ DOMAIN c = {"policy", "tx", "transactionType"}
       /\ ValidPolicy(c.policy) /\ c.policy.assetKind \in {"native", "erc20"}
       /\ c.policy.minSourceBlock \in Nat /\ c.policy.maxSourceBlock \in Nat
       /\ {"sourceChainKey", "sourceBlockNumber", "receiptStatus"} \subseteq DOMAIN c.tx
       /\ DOMAIN c.tx.logs \subseteq Nat /\ c.transactionType \in Nat

VARIABLES
  case,       \* the policy and the transaction that was submitted
  creditcoin, \* what the configured Creditcoin RPC is connected to
  honest,     \* the Proof Builder returns what it has, or nothing
  head,       \* the number of source blocks
  at,         \* the block of the transaction, Pending or Gone
  status,     \* its receipt status there
  reorgs,
  attested,   \* the statuses of the transaction in each attested block
  run,        \* the verification: its next call and what it has read
  verdict     \* its outcome, and the source block that it reports

attestationVars == <<case, creditcoin, honest, head, at, status, reorgs, attested, run, verdict>>

world == <<case, creditcoin, honest>>
sourceChain == <<head, at, status, reorgs>>

Blocks == 1..MaxBlock
Pending == 0
Gone == -1
Idle == [pc |-> "idle", block |-> 0, status |-> 0]
Calls == {"getTransaction", "getTransactionReceipt", "getBlock", "getNetwork",
          "getLatestAttested", "waitUntilHeightAttested", "getLatestAttestedAgain",
          "waitForBuilder", "getProof", "prove"}
Proofs == [ours : BOOLEAN, claimsOurs : BOOLEAN, key : {SourceKey, SourceKey + 1},
           header : Blocks, status : {0, 1}, indexMatches : BOOLEAN]
NoVerdict == [code |-> "none"]

AttestationInit ==
  /\ case \in Cases /\ creditcoin \in {"live", "otherChain", "otherMapping"} /\ honest \in BOOLEAN
  /\ head = 0 /\ at = Pending /\ status \in {0, 1} /\ reorgs = 0
  /\ attested = <<>>
  /\ run = Idle /\ verdict = NoVerdict

(***************************************************************************)
(* The chains.                                                             *)
(***************************************************************************)
MineBlock ==
  /\ head < MaxBlock /\ head' = head + 1
  /\ at' \in IF at = Pending THEN {Pending, head'} ELSE {at}
  /\ UNCHANGED <<world, status, reorgs, attested, run, verdict>>

\* Another branch has it in another block, with another outcome, or not.
Reorganise ==
  /\ reorgs < MaxReorgs /\ reorgs' = reorgs + 1
  /\ head' \in {h \in Blocks : h <= head}
  /\ at' \in {Gone, Pending} \cup 1..head'
  /\ status' \in {0, 1}
  /\ UNCHANGED <<world, attested, run, verdict>>

Attest ==
  /\ Len(attested) < head
  /\ attested' = Append(attested, IF at = Len(attested) + 1 THEN {status} ELSE {})
  /\ UNCHANGED <<world, sourceChain, run, verdict>>

(***************************************************************************)
(* The verification.                                                       *)
(***************************************************************************)
Quiet == UNCHANGED <<world, sourceChain, attested>>

GoesOn(pc) == run' = [run EXCEPT !.pc = pc] /\ UNCHANGED verdict

Answers(code) ==
  /\ verdict' = [code |-> code, block |-> run.block, status |-> run.status]
  /\ run' = Idle

Calling(pc) == run.pc = pc /\ Quiet

\* The caller has refused an invalid policy, and another chain key than its.
Verify ==
  /\ Calling("idle")
  /\ IF case.policy.sourceChainKey # SourceKey
     THEN Answers("UNSUPPORTED_SOURCE_CHAIN")
     ELSE run' = [run EXCEPT !.pc = "getTransaction"] /\ verdict' = NoVerdict

GetTransaction ==
  /\ Calling("getTransaction")
  /\ CASE at = Gone -> Answers("SOURCE_TRANSACTION_NOT_FOUND")
       [] at = Pending -> Answers("SOURCE_TRANSACTION_NOT_MINED")
       [] OTHER -> run' = [run EXCEPT !.pc = "getTransactionReceipt", !.block = at]
                   /\ UNCHANGED verdict

GetTransactionReceipt ==
  /\ Calling("getTransactionReceipt")
  /\ CASE at \notin Blocks -> Answers("SOURCE_TRANSACTION_NOT_MINED")
       [] at \in Blocks /\ at # run.block -> Answers("INVALID_PROOF")
       [] OTHER -> run' = [run EXCEPT !.pc = "getBlock", !.status = status] /\ UNCHANGED verdict

GetBlock ==
  /\ Calling("getBlock")
  /\ CASE run.block > head -> Answers("SOURCE_TRANSACTION_NOT_MINED")
       [] run.block <= head /\ run.status # 1 -> Answers("POLICY_MISMATCH")
       [] OTHER -> GoesOn("getNetwork")

\* getNetwork and getSupportedChains of Creditcoin.
CheckCreditcoin ==
  /\ Calling("getNetwork")
  /\ CASE creditcoin = "otherChain" -> Answers("CONFIGURATION_MISSING")
       [] creditcoin = "otherMapping" -> Answers("UNSUPPORTED_SOURCE_CHAIN")
       [] OTHER -> GoesOn("getLatestAttested")

GetLatestAttested ==
  /\ Calling("getLatestAttested")
  /\ GoesOn(IF Len(attested) >= run.block THEN "waitForBuilder" ELSE "waitUntilHeightAttested")

\* Mutant: the wait has no timeout.
WaitUntilHeightAttestedForever ==
  /\ Calling("waitUntilHeightAttested")
  /\ Len(attested) >= run.block /\ GoesOn("getLatestAttestedAgain")

WaitUntilHeightAttested ==
  /\ Calling("waitUntilHeightAttested")
  /\ \/ Len(attested) >= run.block /\ GoesOn("getLatestAttestedAgain")
     \/ Answers("SOURCE_BLOCK_NOT_ATTESTED")

GetLatestAttestedAgain ==
  /\ Calling("getLatestAttestedAgain")
  /\ IF Len(attested) >= run.block THEN GoesOn("waitForBuilder")
     ELSE Answers("SOURCE_BLOCK_NOT_ATTESTED")

WaitForBuilder ==
  /\ Calling("waitForBuilder")
  /\ GoesOn("getProof") \/ Answers("PROOF_BUILDER_UNAVAILABLE")

\* The status code in the text of the builder's error decides.
Refusal(statusCode) ==
  CASE statusCode = 404 -> "PROOF_NOT_FOUND"
    [] statusCode >= 500 -> "PROOF_BUILDER_UNAVAILABLE"
    [] OTHER -> "INVALID_PROOF"

\* An honest builder has the proof of the block that was attested last.
IsHonest(proof) ==
  /\ proof.ours /\ proof.claimsOurs /\ proof.key = SourceKey /\ proof.indexMatches
  /\ proof.header \in DOMAIN attested /\ proof.status \in attested[proof.header]
  /\ \A h \in DOMAIN attested : attested[h] # {} => h <= proof.header

Metadata(proof) ==
  FirstFailure(<<
    <<proof.key # SourceKey, "UNSUPPORTED_SOURCE_CHAIN">>,
    <<proof.header # run.block, "INVALID_PROOF">>,
    <<~proof.claimsOurs, "TRANSACTION_HASH_MISMATCH">>,
    <<~proof.indexMatches, "INVALID_PROOF">> >>, "ok")

GetProof ==
  /\ Calling("getProof")
  /\ \/ \E statusCode \in {400, 404, 503} : Answers(Refusal(statusCode))
     \/ \E proof \in Proofs :
          /\ honest => IsHonest(proof)
          /\ IF Metadata(proof) # "ok" THEN Answers(Metadata(proof))
             ELSE run' = [pc |-> "prove", block |-> run.block, status |-> run.status, proof |-> proof]
                  /\ UNCHANGED verdict

\* verifySingle: the bytes are those of a transaction of an attested block.
\* Those that are not ours are of an equal payment that every block has.
Included(proof) ==
  /\ proof.header \in DOMAIN attested
  /\ IF proof.ours THEN proof.status \in attested[proof.header] ELSE proof.status = 1

AttestedTransaction(proof) ==
  [case.tx EXCEPT !.sourceChainKey = proof.key, !.sourceBlockNumber = proof.header,
                  !.receiptStatus = proof.status]

\* Mutant: the hash that the builder claims is enough.
OutcomeUnhashed(proof) ==
  FirstFailure(<<
    <<~Included(proof), "CREDITCOIN_VERIFICATION_FAILED">>,
    <<case.transactionType > 2, "MISSING_TRANSACTION_CONTEXT">>,
    <<proof.status # run.status, "INVALID_PROOF">> >>,
    Evaluate(AttestedTransaction(proof), case.policy))

Outcome(proof) ==
  FirstFailure(<<
    <<~Included(proof), "CREDITCOIN_VERIFICATION_FAILED">>,
    <<case.transactionType > 2, "MISSING_TRANSACTION_CONTEXT">>,
    <<~proof.ours, "TRANSACTION_HASH_MISMATCH">>,
    <<proof.status # run.status, "INVALID_PROOF">> >>,
    Evaluate(AttestedTransaction(proof), case.policy))

\* computeTransactionIndex, verifySingle, the decoder and the evaluator.
Prove ==
  /\ Calling("prove")
  /\ IF Outcome(run.proof) = "ok"
     THEN verdict' = [code |-> "ok", block |-> run.block, status |-> run.status,
                      proof |-> run.proof] /\ run' = Idle
     ELSE Answers(Outcome(run.proof))

\* What is made of a call that throws.
FailureOf(pc) ==
  CASE pc \in {"waitUntilHeightAttested", "getLatestAttestedAgain"} -> {"SOURCE_BLOCK_NOT_ATTESTED"}
    [] pc \in {"waitForBuilder", "getProof"} -> {"PROOF_BUILDER_UNAVAILABLE"}
    [] pc = "prove" -> {"INVALID_PROOF", "CREDITCOIN_VERIFICATION_FAILED"}
    [] OTHER -> {"PROVIDER_FAILURE"}

CallFails ==
  /\ run.pc # "idle" /\ Quiet
  /\ \E code \in FailureOf(run.pc) : Answers(code)

RunStep ==
  \/ GetTransaction \/ GetTransactionReceipt \/ GetBlock \/ CheckCreditcoin
  \/ GetLatestAttested \/ WaitUntilHeightAttested \/ GetLatestAttestedAgain
  \/ WaitForBuilder \/ GetProof \/ Prove

AttestationNext == MineBlock \/ Reorganise \/ Attest \/ Verify \/ RunStep \/ CallFails

\* Every call answers, fails or times out.
AttestationSpec ==
  AttestationInit /\ [][AttestationNext]_attestationVars /\ WF_attestationVars(RunStep)

(***************************************************************************)
(* Properties.                                                             *)
(***************************************************************************)
(* A verification that waits for receipts, attestations or proofs has read *)
(* what its next call needs, and ends with a code that it may end with.    *)
AttestationTypeOK ==
  /\ head \in 0..MaxBlock /\ at \in {Gone, Pending} \cup Blocks /\ status \in {0, 1}
  /\ Len(attested) <= MaxBlock /\ \A h \in DOMAIN attested : attested[h] \in SUBSET {0, 1}
  /\ run.pc \in {"idle"} \cup Calls
  /\ run.pc \notin {"idle", "getTransaction"} => run.block \in Blocks
  /\ run.pc = "prove" => run.proof \in Proofs /\ run.proof.header = run.block

\* The transaction, as the source chain had it in a block.
AsIn(block, receiptStatus) ==
  [case.tx EXCEPT !.sourceChainKey = SourceKey, !.sourceBlockNumber = block,
                  !.receiptStatus = receiptStatus]

(* Whatever the Proof Builder answers, and however the source chain is     *)
(* reorganised meanwhile, a verification that succeeds is of the           *)
(* transaction that was submitted, in the block in which the source chain  *)
(* had it, which Creditcoin attested with that transaction in it, and what *)
(* was attested there meets the policy of the agreement.                   *)
AcceptedIsAttested ==
  verdict.code = "ok" =>
    /\ verdict.proof.ours /\ verdict.proof.header = verdict.block
    /\ verdict.block \in DOMAIN attested /\ verdict.status \in attested[verdict.block]
    /\ creditcoin = "live"
    /\ Meets(AsIn(verdict.block, verdict.status), case.policy)

\* What does not refuse for good: no result or success, the codes of
\* isRetryableVerificationFailure that verify gives, and, which that function
\* does not name, the two of a transaction that is not in a block yet.
Transient ==
  {"none", "ok", "SOURCE_BLOCK_NOT_ATTESTED", "PROOF_BUILDER_UNAVAILABLE", "PROOF_NOT_FOUND",
   "INVALID_PROOF", "CREDITCOIN_VERIFICATION_FAILED", "PROVIDER_FAILURE"}
  \cup {"SOURCE_TRANSACTION_NOT_FOUND", "SOURCE_TRANSACTION_NOT_MINED"}

(* With an honest Proof Builder and the right Creditcoin, a refusal for    *)
(* good (a failure that is neither offered to retry nor of a transaction   *)
(* yet to be mined) is deserved: the transaction, where the source chain   *)
(* had it, is not the payment that was agreed.  Transactions of a type     *)
(* over 2, which the decoder does not read, are refused and left out here. *)
RefusalIsDeserved ==
  verdict.code \notin Transient /\ honest /\ creditcoin = "live" /\ case.transactionType <= 2 =>
    LET tx == AsIn(verdict.block, verdict.status) IN
    ~(IsPlain(tx, case.policy) /\ Meets(tx, case.policy))

(* A transaction whose block waits for attestation or proof is no failed   *)
(* one: the source chain had it in that block, with success.               *)
WaitingIsNotFailed ==
  verdict.code \in {"SOURCE_BLOCK_NOT_ATTESTED", "PROOF_BUILDER_UNAVAILABLE", "PROOF_NOT_FOUND"} =>
    verdict.block \in Blocks /\ verdict.status = 1

(* Every verification ends, also when Creditcoin attests nothing more.     *)
VerificationEnds == run.pc # "idle" ~> run.pc = "idle"
=============================================================================
