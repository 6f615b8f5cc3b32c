# Veyronis: models, checks and proofs

Veyronis is an escrow for agreements between a buyer and a seller. The money is
held by a smart contract on Creditcoin; a payment made on another chain (the
*source chain*), once attested, can release it. This directory holds TLA+ models
of the parts that carry that logic, the TLC configurations that check them, and
TLAPS proofs. All paths below are relative to the repository root.

## 1. Inventory

How the parts interact:

```
 browser (wizard, dashboard, wallets)
    |  HTTP                                   transactions of the participants
    v                                                     |
 agreement backend --- PostgreSQL (workflow metadata)      |
    |  deployer account: one escrow per agreement          |
    |  verifier account: submits claims                    v
    +--> EvidenceClaimRegistry ---- calls ----> VeyronisEscrow  (Creditcoin)
    |
    +--> proof API, native verifier, source chain (attestation of payments)
```

The chain is the authority about money, the database only about workflow. Each
side is written by requests that run at the same time, and each can fail between
two steps of a request. The seams are where the interesting properties are.

| Component | State | Operations | What is hard | Correct when |
|---|---|---|---|---|
| `VeyronisEscrow.sol` | state, deposit, credits, active evidence, claim id, lock, balance | deposit, cancel, confirmDelivery, requestRefund, approveRefund, openDispute, resolveDispute, three registry calls, withdraw | every order of calls of four parties; a recipient that runs code or fails while it is paid | the balance is what is owed; one party is credited once; an outcome is final; a dispute locks no money |
| `EvidenceClaimRegistry.sol` | consumed claims, escrow bound to each source evidence | submit as dispute evidence, as settlement, as prerequisite | two maps and an escrow call that must all happen or none; claims that differ but rest on one payment | one payment is evidence once; registry and escrows agree |
| Agreement creation and deployment (`agreement-service.ts`, `escrow-deployer.ts`, `agreement-repository.ts`) | one row per agreement | prepare, confirmAndDeploy | concurrent confirmations, a transaction whose answer is lost, a restart in the middle | one escrow per agreement; the recorded address is that escrow's |
| Condition verification (`agreement-condition-service.ts`, its repository, `attestcoin-verifier.ts`, `ethers-gateways.ts`) | attempts in the database, the gateway's queue and memory | verify a condition, submit dispute evidence | two requests, take-over after five minutes, lost broadcasts and receipts, restarts, the seller acting in between | "verified" is true on the chain and stays; one broadcast per claim; attempts end |
| Attestation and proof pipeline (`attestcoin-service.ts`, `proof-provider.ts`, `live-verifier.ts`) | none between calls | verify: eleven calls to four parties | the source chain reorganises between two reads; a builder that answers anything; attestations that never come | what is accepted was attested; what is only late does not look failed; every verification ends |
| Source transaction interpretation (`source-transaction-interpreter.ts`, `attested-transaction-decoder.ts`) | none | decode, evaluate the policy | boundaries of window and amount; several transfers in one transaction | exactly the qualifying payments pass |
| HTTP service and rate limiter (`agreement-http.ts`) | request counters of two limiters | routes; `allow` | a full table evicts an entry; windows that meet; the session is read before the body is awaited | a bound per window |
| Wallet sessions (`wallet-auth.ts`) | challenges | createChallenge, verify, readSession | a second challenge replaces the first; expiry; eviction; stateless logout | a challenge opens one session; an old signature opens none |
| Graceful shutdown (`graceful-shutdown.ts`) | phase | stop the server, then the pool | handlers that outlive the grace period | the pool is there for every waiting client; the shutdown ends |
| Work evidence (service, repository, panel) | submissions and their reviews, the list of each tab | submit, list, review | several reviews at a time; replaced submissions; late lists | a verdict is final, and what pages show of it is so |
| Dashboard, contract reads, reconciliation | snapshots | read, list actions, reconcile | a snapshot made of many reads over several blocks | offered actions are accepted by the contract; nobody is left without one |
| Dashboard pages and panels | details, verification, one transaction | display, execute, submit a hash | status text derived from several sources of different age | what is shown as unlocked, credited or complete is so |
| Wizard, deployment flow, transaction executor | form, step, flow | edit, prepare, deploy and fund, retry | going back and changing the mode; failure after the deployment; lost receipts | complete terms are reviewed; one deposit, into this agreement's escrow |
| NIM service fee | stage, account, open calls of the host | authorize, pay | the answer of a payment that was made is lost, or comes for earlier terms | no agreement inside the host without a fee of its own |
| Shared rules (`packages/shared`) | none | draft validation, policy schema, lifecycle mode, withdrawal rule | one rule for frontend, backend and contract | they agree |
| Configuration, wallet libraries, scripts | none | read the environment, connect | little | out of scope, see section 8 |

`PROJECT.json` lists the same components with what is modelled of each, and the
hazards at the lines where they bite.

## 2. Modules

| Module | Models |
|---|---|
| `EscrowCustody` | abstract: what an escrow promises about the buyer's money |
| `VeyronisEscrow` | the escrow contract, any number of escrows on one chain; refines `EscrowCustody` |
| `EvidenceClaimRegistry` | the registry composed with the escrows (EXTENDS `VeyronisEscrow`); refines `VeyronisEscrow!Spec` |
| `AgreementDeployment` | creation of agreements, confirmation and deployment with the database and the chain |
| `ConditionVerification` | the backend's verification on top of both contracts (EXTENDS `EvidenceClaimRegistry`) |
| `EvidencePolicy` | the policy schema and the evaluator, as operators, with the meaning of an agreement as their reference |
| `Attestation` | one proof of a source transaction (EXTENDS `EvidencePolicy`), with source chain, Creditcoin and Proof Builder |
| `AgreementHttp` | the HTTP process: routes, sessions, limiters, shutdown |
| `EscrowWizard` | the wizard, the fee and deploy-and-fund, on top of the backend (EXTENDS `AgreementDeployment`) |
| `AgreementDashboard` | the page of an agreement and the backend that reads for it, on top of the contract (EXTENDS `VeyronisEscrow`) |
| `WorkEvidence` | submissions and reviews: tabs, service and table |
| `...Proofs` | theorems of the module of that name (`AttestationProofs`: of `EvidencePolicy` too; `EscrowWizardProofs`: of `AgreementDeployment` too) |
| `MC...` | values of the constants for TLC |

Actions carry the names of the functions they model; `PROJECT.json` gives the
lines of every definition. Definitions whose comment begins with *Mutant* are
faulty variants of the definition after them. They are no part of any
specification and show that a property would notice the fault.

### 2.1 VeyronisEscrow

`esc[e]` is the storage and the ether balance of the escrow at address `e`. An
action is a call that succeeds; a call that reverts changes nothing and is not
enabled. `withdraw()` is the only call out of the contract. For a recipient
without code it is one action. For a contract it is `WithdrawCall` (up to the
payment), calls that the recipient's code makes, and `WithdrawReturn` or
`WithdrawRevert`. `frames` is the stack of such payments, each with the chain
state that a failure restores, so that a revert undoes exactly what happened
since the payment began. `committed` is the chain as of the last finished
transaction, which is what an observer outside sees.

Immutables are constants, one value per address. `Constructor` refuses the
combinations the constructor refuses. In this module the registry is any caller
that may make its three calls at any moment between transactions.

Left out: events, the exact revert reasons, ether forced into the contract
(self-destruct), and gas, apart from the assumption that a transaction ends.
`totalAccountedFunds` is the property's, and amounts are natural numbers: a
credit never exceeds the required amount, which is an invariant, so nothing can
reach the width of `uint256`.

### 2.2 EvidenceClaimRegistry

A claim is a record with the fields of the Solidity struct. `keccak256` of an
encoding is the tuple of the encoded fields: two ids are equal exactly when
the fields are, the assumption one makes about the hash. Submissions are atomic
with the escrow call they make, as a transaction is; a failed escrow call makes
the submission a call that reverts. Three functions of the contract are three
actions that share `AcceptVerifiedClaim`.

### 2.3 AgreementDeployment

`row` is the agreements table, `request` the confirmations being served, `txs`
the deployment transactions in the order they were sent, `answered` what callers
have been told. A request runs to its next `await` in one step. Faults are a
constant: `rpc` (a node's answer is lost, whether or not the call took effect),
`db` (the same for an update), `crash` (the process restarts and forgets its
requests). The address of an escrow is the number of the transaction that
creates it. The checks and the hash of a draft are pure functions and left out;
its id being derived from the commitment is why `Prepare` happens once per id.

### 2.4 ConditionVerification

A pair `<<e, t>>` is a source transaction submitted for the agreement of escrow
`e`: the primary key of the attempts. `row` is the attempts table, with the age
of an attempt reduced to whether five minutes have passed. `worker` is a request
and where it is, one step per `await`. `pending`, `queue` and `sent` are the
gateway's `claimSubmissions`, its promise chain, and whether the first of the
queue is waiting for its receipt. `txs` are the verifier account's transactions,
mined in the order of their nonces. The participants keep acting on the escrows
(`PartiesStep`), which is what makes every read stale.

`Qualifies` stands for the pipeline and the policy: both depend on the source
chain only, so whether a transaction passes is a constant. Failures that come
before or out of the submission have one code, since nothing tells them apart
later. The two registry reads are two steps, because the claim can be mined
between them. The reads of the dispute context are one step: the immutables do
not change, and the two mutable values are only compared with a pair that, when
each was true at some time, was true together at one of them.

All recipients are wallets in these runs (`Contracts = {}`): payments in
progress are the contracts' own concern and are covered by 2.1 and 2.2; the
backend sees finished transactions only.

### 2.5 EvidencePolicy and Attestation

`Evaluate` is the evaluator with its checks in the code's order (`FirstFailure`:
the first check that fails gives the code). `Meets` is what an agreement means,
without an order of checks, and `IsPlain` says of a transaction that it is one
call of the committed contract with a single matching transfer. The two are the
reference: what is accepted `Meets`, and what is plain and `Meets` is accepted.
The second half needs `IsPlain` because the first matching transfer decides.
Addresses are values, calldata is a record that says what it decodes to; a log
says whether it is a well-formed Transfer.

`Attestation` has one action per call of `AttestcoinService.verify`, so that the
source chain may reorganise and Creditcoin may attest between any two. `attested`
keeps, per attested block, with which status the transaction is in it;
`Included`, the native verifier's answer, is a fact about `attested`. A
reorganisation never changes what was attested. The Proof Builder answers with
any proof unless `honest`. Every call may fail (`CallFails`), with the code that
the `catch` of that call gives.

### 2.6 AgreementHttp

A client is a browser with one connection and one wallet. A handler runs up to
its next `await` in one step: session and address are read, the body is awaited,
then the limiter decides, then the service is called, which here is one use of
the database pool. Challenges and limiters are the `Map`s of the code: functions
whose entries carry their place in the order of insertion, since eviction depends
on that order. `issuedAt`, `opened`, `admitted`, `evicted` are history. Signatures are a challenge's nonce
that the owner's wallet has signed. A scenario says what clients do in one
behaviour: all of it at once has too many interleavings of clients that do not
touch each other's state.

### 2.7 EscrowWizard

The form is reduced to what later steps ask for: of each part, whether it is
missing, entered or valid. An agreement is what a valid draft commits to
(`Commitments`): the id is the hash of all terms and the nonce, so each change of
a valid form may make it another agreement. The fee knows less: its payload is
the first 24 hex digits of the nonce (`payloadOf`), and a paid fee is forgotten
only when that changes. Several agreements have one payload in the run.

`flow` has the clicks on Deploy & Fund. A click first waits for the wallet's
chain (`asking`), and only its answer sets `deploying`; until then the form can
be edited, left, closed, or the button clicked again. Each flow keeps the terms
it was begun with and goes on by itself, and the end of any of them re-enables
the form (`FlowEndsWith`), whatever the others do. `ui` is what they share:
the agreement shown as deployed, and the last result, each set by whichever flow
comes last. `transaction.wait(1)` is two actions: `DepositReceipt`, once the
deposit was mined or reverted, and `ReceiptFails`, at any time.

The backend is `AgreementDeployment` itself, with every fault; a call of it is
that module's action, and its answer may be lost. `Escrow(f)` is the address that
`confirmAndDeploy` gave to the flow. The escrow is the part of the contract that
funding sees: a deposit succeeds once, while the payment is awaited, and a
participant in another tab may fund or cancel it first. `AwaitingDelivery` stands
for every state after the deposit: what the wizard reads of it can fail at any
time, which is all that a later state would do to it.

### 2.8 AgreementDashboard

`esc` is the contract, `log` its events block by block and the state after each.
A reading begins at a block; each value may come from any block between that one
and the end of the reading. The values that never change are constants. `page`
is what the page holds, and `status` that of a transaction, as it shows it.
The operators that turn these into labels, steps and buttons (`Displayed`,
`PaymentStatus`, `StepsDone`, `LifecyclePath`, `DisplayStatus`,
`DiscoveryStatus` and others) are the functions of the page. The verifier's
part, a claim accepted on the chain and its outcome in the database, is reduced
to those two steps; `ConditionVerification` has their inside.

`flow` is what the page has going: readings (`load`) and clicks (`execute`),
each with its own step. A click runs through the checks of chain, wallet and
funding before `status` makes the page busy, so another click or a second
load may come meanwhile, and each puts its answer in `page` or `status` when it
has it, in any order. When the details cannot be read the page falls back to the
snapshot, which has no events: details with an empty timeline.

### 2.9 WorkEvidence

`rows` is the submissions table. The time of a submission is taken, and the
requirement looked up, before the row is inserted. A review reads the row, then
updates it under `status = 'submitted'`. `past` is every content the table has
had: a list that a tab receives is any of them, which covers answers that are
late or out of order. `told` is what the service has confirmed.

The table has times to the millisecond, lists do not: `mapSubmissionRow` passes
the Date of pg through `String()`, so pages sort by whole seconds (`Listed`), and
by the random identifier within one.

## 3. Runs

State counts are distinct states.

| Run | States | Question |
|---|---|---|
| `escrow` | 3 528 | Accounting, outcomes, custody with two escrows whose parties are exchanged and recipients that call back or fail; a third whose constructor must refuse. Does a dispute always end with the money paid? |
| `registry` | 4 956 | Do registry and escrows stay in agreement, with a direct and a hybrid escrow competing for one payment, and wrong claims? |
| `deployment` | 739 175 | Two at a time, over a failing node and restarts: is the recorded address the agreement's own escrow, and every deployment that began reported unless a restart lost it? |
| `wizard` | 515 266 | A buyer goes through the wizard and back, in and out of the Nimiq Pay host, changes terms under one nonce and clicks again while a flow runs, over a backend with every fault: complete terms, a fee per payload, one escrow and one deposit per agreement, true results, and an end |
| `verification` | 143 616 | Two requests for a directly settling agreement, with crashes and failures of node, database and broadcast |
| `verification_hybrid` | 243 101 | Prerequisite and dispute submissions of a hybrid agreement: one broadcast, slow requests and failing node included; is a payment that does not meet the policy ever recorded? |
| `verification_liveness` | 221 031 | Two claims of one agreement in the gateway's queue, of which at most one can be accepted: does every attempt end? |
| `verification_slow` | violation | Does a verified attempt stay verified when a request is slow? |
| `attestation` | 672 319 | 44 pairs of a policy and a transaction: is what is accepted attested and what was agreed, what is refused for good not, and does every verification end? |
| `http` | 976 156 | Three wallets sign in, use up limits and are cut off by a shutdown |
| `dashboard` | 312 938 | The page of each role, for an agreement of each mode, while the others act and its own clicks and loads overlap: are its buttons accepted and its statements true? |
| `work_evidence` | 557 986 | Two reviews and a replacement under way, within a second or not, and lists that arrive late |

### The properties

*Escrow.* `Solvent`: the balance is the deposit and the credits, during payments
too. `CreditMatchesOutcome`: a credit is the whole amount and belongs to the
party of the outcome. `OnePaymentPerEscrow`. `CustodySpec`: the contract
implements `EscrowCustody` under the mapping `phase`, evaluated on `committed`.
`DisputePaysOut`: a dispute is decided, and no party without code is left with
an uncollected credit.

*Registry.* `SourceEvidenceUsedOnce`, `RegistryAgreesWithEscrows` (a claim is
consumed exactly when its escrow recorded it), `VerifiedClaimMatchesActiveEvidence`,
and `EscrowSpec`, that the real registry is one of the
registries `VeyronisEscrow` allows.

*Deployment.* `AddressIsOwnEscrow`; `DeploymentIsReported`: a
deployment under way ends as DEPLOYED or FAILED, and only a restart leaves one
DEPLOYING with no request to report it. In the wizard's run, with one
confirmation at a time and every fault, `OneEscrowPerAgreement`.

*Wizard.* `ReviewedTermsAreComplete`: whatever way was taken through the steps,
with the mode changed in between, an external condition is reviewed only when
all of it is there. `FeePerPayload`: inside the host a fee was paid for each
payload that agreements were created with. `OneDeposit`: however flows overlap,
they ask for one deposit at most for an agreement, into the escrow created for
it. `FundedIsOnChain`: a result that says *funded* has the deposit of its own
agreement on the chain. `FlowEnds`.

*Verification.* `VerifiedIsOnChain`, `OneWorkerPerAttempt`, `VerifiedStands`,
`OneBroadcastPerClaim`, `AttemptEnds`; `ClaimsAreQualified`: an escrow records no
claim but that of a payment that was proved and meets its agreement's policy,
though the proof is made by one request, the submission by the gateway's
memory of perhaps another, and the record by a transaction mined after both ended.
`DirectReleaseIsEarned` says the same of the step that pays a seller directly; it
is a theorem, in no run.

*Attestation.* `AcceptedIsAttested`: the accepted transaction is the submitted
one, attested in the block where the source chain had it, and `Meets` the policy.
`RefusalIsDeserved`: with an honest builder, a failure that is final (`Transient`
has the others, and is wider than what the page offers to retry) is of a
transaction that is not a plain payment of the agreement. `VerificationEnds`.

*HTTP.* `ChallengeOpensOneSession`, `SessionRestsOnFreshSignature`. The limiter:
`LimitedPerWindow` (windows begin at a first request, so two can meet: never more
than twice the limit less one in any interval of a window's length, unless the
address was evicted). The shutdown: `PoolOutlivesWaitingClients`, `ShutdownEnds`.

*Dashboard.* `OfferedIsAccepted`: every button of an up-to-date page is a call
the contract accepts from this participant. `SomebodyCanGoOn`: an escrow used
through the application only never holds money that no page offers to move.
`TimelineIsNotAhead`, `PathHappened`, `UnlockedIsSettled` are about what the page
says: the last of them, that none of its three ways to say *credited* or
*unlocked* (payment status, settlement row, seller's steps) is used unless the
escrow was settled for the seller. `PagesAgree` compares list and pages, in all
modes: what one of them says of an unlocked payment, read at one block, the other
does not take back when it was read at a later one; and read at the same block,
the list asks for exactly what the pages offer. The code has one exception, named
in the property: a dispute that other software opened in a directly settling
escrow, which the list asks the arbitrator to review and the page does not offer.

*Work evidence.* `VerdictStands` (nobody is told a verdict that
is not the submission's), `ProgressIsEarned`. `ReplacedStaysReplaced`: what is
shown as current was not followed by a submission of a later second that the page
lists, and two pages disagree about it only when one of them lacks a submission.

Each has a mutant in `PROJECT.json`: a plausible fault of the code under which
the property is violated in that run. The type invariants of escrow, registry,
deployment, verification, attestation and work evidence, and the properties
`DepositHeldWhileOpen`, `OutcomeIsFinal`, `VerifiedClaimWrittenOnce`,
`WaitingIsNotFailed`, `ReviewIsFinal`, `AddressIsKept` and `DirectReleaseIsEarned`,
are not in a run: they are theorems
(section 5), for every value of the constants.

### The violation, and other facts seen while modelling

`verification_slow`: after five minutes an attempt is taken over, and nothing
stops the first request. Its late failure overwrites the success of the second,
since `updateVerification` has no condition on the status. `verification` shows
that requests that end in time never do this.

The models also have these behaviours. They are no runs of their own; the
hazards in `PROJECT.json` name them.

* `agreement-service.ts:49`: `confirmAndDeploy` compares the status in memory and
  writes `DEPLOYING` later, unconditionally. Two confirmations at a time of one
  agreement can deploy two escrows (`ARCHITECTURE.md:203` says one). Theorem
  `OneEscrowWhenAlone` shows that this is the only way: without the overlap no
  fault produces a second deployment. The wizard never overlaps them
  (`OneEscrowFromWizard`).
* `attestcoin-verifier.ts:318`: a settlement is judged by a credit that is still
  uncollected, so it is reported as failed when the seller withdraws first.
* `ethers-gateways.ts:188`: the gateway keeps the mode of a claim whose
  submission failed, also when nothing was sent, and refuses the claim in the
  other mode until the process restarts.
* `escrow-module.tsx:505`: when the answer of `prepare` is lost, the retry
  prepares the same nonce again and is refused for good. No second escrow comes
  of it, but no success either.
* `shared/src/index.ts:591` and `use-nim-service-fee.ts:75`: the id commits to all
  terms, the fee to the beginning of the nonce. After a lost answer the buyer can
  go back, change the terms and deploy a second agreement with the first one's fee.
* `escrow-module.tsx:485`: a second click before the wallet has answered starts a
  second flow. With changed terms that is a second agreement with an escrow and a
  deposit of its own; and since each flow sets the address and the result when it
  gets there, *Escrow funded* of one can stand over the address of the other.
* `work-evidence-repository.ts:165`: two submissions of one second are ordered by
  their random identifiers, so the panel that *shows the current submission* may
  show the earlier.
* `[id]/page.tsx:131`: after a lost receipt the page says that the transaction
  failed although it may be in the chain, and goes on offering the action until it
  is loaded again; the contract then refuses the second call.
* `seller-progress.tsx:36`: an acceptance counts for its requirement also when the
  submission was replaced later, while the panel beside it shows the newer one.
* `dashboard-service.ts:179`: a refund requested by other software for an
  agreement that settles by its condition has no button that ends it; this is
  why `SomebodyCanGoOn` is about escrows used through the application.

### Bounds and why they are enough

*Escrow run.* Two escrows between the same traders with exchanged roles is the
smallest system in which a payment of one can call the other, and calls of
different escrows are independent otherwise. Two amounts (1 and 2) tell apart
deposits of the two; value 0 is the refused one. Two evidences and two claim ids
tell "the same" from "another". The stack needs no bound: an escrow being paid
out is locked, so it is at most as deep as there are escrows.

*Registry run.* Two escrows and two evidence types of one payment give all the
collisions the keys can have: same payment and type for both escrows, same
payment under another type, wrong agreement, wrong commitment, unknown subject.

*Deployment run.* `MaxTxs` bounds the transactions ever sent. It does not bite:
a status other than `AWAITING_CONFIRMATION` admits nothing, so an agreement gets
at most one transaction per request that can overlap. The run has the faults of
the node and restarts; a failing database too is in the wizard's run, with one
confirmation at a time. For any number of confirmations under all the faults,
`AddressIsOwnEscrow` and `AddressIsKept` are theorems.

*Wizard run.* `MaxEdits` (4) is what it takes to fill the parts of a mode, with one
change of mode, nonce or terms; `MaxCalls` (2) an authorization and a payment.
Three agreements, two of them with one payload: the terms change with the nonce
and without. `MaxClicks` (2) and two flows: two clicks can overlap at every step,
for the same agreement or for two; after the last click there is no way back,
since no more can come of it. `Requests` has one element, so what confirmations of
two flows do to each other inside the backend is left to `deployment` and to
`OneEscrowFromWizard`, which has any number. A second escrow is there for a
second agreement (`MaxTxs` is 2).

*Verification runs.* `MaxTxs` bounds the transactions of the verifier account.
Without crashes and lost broadcasts each claim has one, so it does not bite in
`verification_hybrid` and `verification_liveness`. In `verification` a restart or
a lost broadcast lets a claim be sent again, and the bound of 3 allows two
repetitions. `FiveMinutesPass` is restricted to attempts whose request is over,
unless the fault `slow` is there: `verification` therefore states what holds as
long as requests end within five minutes, and `verification_slow` what happens
otherwise. `verification_liveness` has no faults: what makes its attempts fail
are the agreement's parties and the other claim.

*Attestation run.* The transactions are one that meets the policy and every one
that differs from it in one place, or has another transfer before it; the
policies have both assets, both rules of the amount, a closed and an open window,
and calldata or none. Two source blocks and one reorganisation let the
transaction move to the other block, change its status, or vanish, between any
two calls. The proofs have no such bounds.

*HTTP run.* Three addresses for tables of two, windows of two requests and two
ticks, so that eviction, the end of a window and the meeting of two windows all
happen within the clock's three ticks. Five requests are one more than fill two
windows of one address.

*Dashboard run.* One escrow of each mode. An agreement's page reads only its own
escrow, so several escrows add nothing. Recipients are wallets, as in
`verification`: the page sees mined transactions only. Every role has a page of
the escrow with work evidence; the hybrid one has the seller's and the
arbitrator's, since the buyer's buttons there are those of the escrow with work
evidence; the directly settling one has the buyer's, and the seller's beside other
software. What the pages would say to the other roles is judged in every state by
`SomebodyCanGoOn` and `PagesAgree`. Clicks and loads overlap, two at a time, on
the arbitrator's page of the escrow with work evidence and on the buyer's of the
directly settling one; on the others one runs at a time.

*Work evidence run.* Two submissions for one active requirement, so that one can
replace the other; the other requirement is of an inactive deliverable. Two
requests under way at a time are two reviews, or a review and a replacement. Three
instants in seconds of two (`PerSecond`, `MaxTime`): two submissions can be of one
second, at one instant or at two, or of different ones.

Deadlock is not checked: in each system a state in which all is settled and no
request is left is one in which it rightly stops.

## 4. Fairness

* `escrow`: the arbitrator rules on a dispute it keeps being able to
  rule on, and a wallet collects its credit. Other transactions may come in
  between, so strong fairness. A transaction ends (gas), so the outermost
  payment ends. Nothing is assumed of parties, registry or contract recipients:
  `DisputePaysOut` is about what they cannot prevent. The safety properties of
  the run need none of this.
* `wizard`: one weak fairness of all that goes on by itself (`SystemStep`): the
  steps of the flows that need no wallet, the backend's, and the mining of
  deployments and of deposits. One condition serves, since flows take finitely
  many steps. None of the user, who need not sign, of the wallet, which need not
  answer, nor of the host of the fee: `FlowEnds` says "back to the user or to the
  wallet" for that reason. Waiting for a receipt has no timeout in the code and
  its failure (`ReceiptFails`) is under no fairness: the wait ends because the
  deposit is mined, with success or reverted.
* `http`: time goes on (`Tick`) and the process does its own steps of a shutdown
  (timers fire). Clients owe nothing: they may never finish a request.
* `attestation`: a call that the service waits for answers, fails or times out:
  weak fairness of the verification's steps. None of the chains or attestors.
* `deployment`, `verification_liveness`: weak fairness of every step of
  a request and of the gateway (the event loop runs what is ready) and of mining
  (a sent transaction is eventually executed; one condition serves all, since
  the verifier's are executed in order and deployments are finitely many). No
  fairness of crashes, failures, new requests or participants.
  `verification_liveness` has no faults, and `deployment` no database failures:
  after one an attempt stays as it is until someone asks again, and an agreement
  stays DEPLOYING. So it does after a crash, and `DeploymentIsReported` says so.

## 5. Proofs

All theorems hold for every value of the constants that satisfies the named
assumptions in the modules: the zero address is nobody's account, the
immutables have the declared types, limits and lifetimes are positive numbers,
`NoAgreement` is not an agreement and there is an agreement to make; for the
dashboard, that its escrows were created, their amount can be sent, there is a
claim, and no failure is labelled like an unlocked payment.

**Escrow** (`VeyronisEscrowProofs`). The inductive invariant is
`IInv == TypeOK /\ RecordsOK(esc) /\ StackOK`. `RecordsOK` says of every record
that balance, deposit and credits agree with each other and with the state
(`SolventRecord`, `CreditRecord`, `DepositRecord`) and that an escrow with code
passed its constructor's checks. That is not enough by itself: a failing payment
brings back an old state, so the same must be known of every saved one, and
each saved state must be a past of the ones saved later and of the current one
(claims kept, outcomes kept, custody only forward: `Evolves`). That is `StackOK`. The argument has one lemma per call
that it keeps a record's invariant, and one that a call leads from a record to a
later one. From `IInv` follow `TypeCorrect`, `EscrowsAreSolvent`,
`CreditsMatchOutcomes`, `DepositsHeld`; from the order of records follow
`OutcomesAreFinal`, `ClaimsAreWrittenOnce` and the refinement
`EscrowImplementsCustody`. `PaymentsAreOfDifferentEscrows` and `NoLockLeftBehind`
need `LocksOK`: an escrow is locked exactly when one of the open payments is its
own, now and, for the payments below it, in every saved state; without the
second half a failing payment could bring back an open lock. No bound on
accounts, escrows, amounts or depth of calls is involved.

**Registry** (`EvidenceClaimRegistryProofs`). First `RegistryImplementsEscrowSpec`:
every submission is one of the calls the escrow module allows, so all theorems
above hold for the composition. Then `RInv`: a consumed claim has its source
evidence bound to its escrow, the escrow recorded it, and a directly settling
escrow with a claim shows that claim's evidence; for saved states, that
they have the same claims, since no submission happens inside a payment. It
gives `RegistryTypeCorrect`, `SourceEvidenceIsUsedOnce`, `RegistryAndEscrowsAgree`,
`ClaimsMatchActiveEvidence`.

**Deployment** (first part of `EscrowWizardProofs`).
`DeploymentInv == DeploymentTypeOK /\ AddressIsOwnEscrow /\ RequestsKnowTheirTx`:
a request past its receipt knows a mined transaction of its own agreement, which
is what makes the address it saves the right one. It gives
`DeploymentTypeCorrect`, `RecordedAddressIsOwnEscrow` and `AddressesAreKept` for
any number of requests and agreements and any faults. `ReportIsOwed` is the safety
half of `DeploymentIsReported`, for a database that answers and any number of
overlapping confirmations: a deployment under way is never abandoned except by a
restart. That a request is under way is not enough to know for it, since a
request may already have saved its report while the row was set back to
DEPLOYING by another; `HasReporter` says that one of them has yet to report. `OneEscrowWhenAlone`
assumes `OneRequestEach`, that the confirmations of one agreement do not overlap;
its corollary `OneEscrowWhenSerial`, that the backend serves one at a time.
`SerialInv` adds that an agreement with a transaction, or with a request past its
marking, no longer awaits confirmation, that a request which has yet to send is
its agreement's first, and that transactions are of distinct agreements.

**Wizard** (the rest of `EscrowWizardProofs`). First `WizardImplementsDeployment`: a step of
the wizard is a step of the backend or leaves it alone, so the theorems above hold
under it. The rest are invariants that add to each other (`ReviewIsComplete` is inductive by
itself, with what `NextStep` and `PreviousStep` pass over in each mode):

* `WizardFlow == WizardTypeOK /\ FormOK /\ FlowsOK /\ OneHolder`. `FormOK`: the
  form's agreement has the form's payload. `FlowOK` ties a flow to the
  backend's row: one that has prepared an agreement or waits for its confirmation
  knows a created one, one that knows an escrow knows the recorded one.
  `OneHolder` says that no two flows hold one agreement, since `prepare` creates a
  row once: this is what keeps overlapping flows apart.
* `ConfirmedOnce`: an agreement has a request only once it was created, and while
  a flow is about to send a confirmation none is running for it. A flow
  confirms once per creation, hence `OneRequestEach`, which
  discharges the assumption of `OneEscrowWhenAlone`: `OneEscrowFromWizard`. Nothing
  limits what the backend runs for other agreements, how long, or how many flows
  there are.
* `DepositInv`: what a flow has yet to ask a signature for was sent by no flow
  (`SignedOnce`), what was sent is into the escrow of its agreement (`DepositsOK`),
  and the places where a flow says *funded* come after a receipt. With
  `AddressIsKept` the escrow stays the agreement's:
  `WizardDepositsOnce`, `FundedIsTrue`.
* `FeeOK` counts payloads: `Spent`, the payloads of the agreements created, of the
  flows that have yet to prepare, and of the form while its fee counts as paid, are
  at most as many as the payments. Another payload costs the paid state, and a lost
  answer leaves a payment too many, never one too few: `AgreementsArePaidFor`.

**Verification** (`ConditionVerificationProofs`). First
`VerificationImplementsSystemSpec`: a step of the backend is a step of the two
contracts or leaves them alone, so all theorems above hold under it too. For this
one has to know that the gateway only submits claims the contracts have, which is
part of `VerificationInv == RInv /\ BackendTypeOK`. On top of it come three
invariants. `ChainInv`: a request about to save its success has it on the chain;
with the escrow's `Evolves` (an outcome and a claim stay) `VerifiedAlwaysOnChain`
follows for any faults. `AttemptInv`: a request under way has its attempt in
progress and younger than five minutes, hence alone; this gives
`OneWorkerUnlessSlow` and `VerifiedStandsUnlessSlow` when `slow` is no fault, an
assumption that `verification_slow` shows to be needed. `BroadcastInv`: a
transaction that was not executed with success is the one the gateway
remembers for its claim, and the claim of one that was is consumed, so that no
static call accepts it again; `OneBroadcastWhileAlive` follows without crashes
and lost broadcasts, slow requests and any failure of node and database included.

From the proof to the money it is `QualifiedInv`: a request past its proof, an entry
of the gateway's memory, a transaction of the verifier's account and a claim
recorded by an escrow are each of a pair that qualifies, `ProvedSteps` being the
places a request reaches only after its proof. Each link is
kept by the steps of another actor, a claim is recorded only by one of those
transactions being mined (`RecordedBy`), and a payment that fails brings back no
claim, since saved states have the claims of now (`RInv`). It gives
`ClaimsAlwaysQualified`, for any number of requests and any faults, slow ones and
lost broadcasts included. Claims of different pairs have different ids, so an
attempt shown as verified is of a qualifying pair itself: `VerifiedIsQualified`.
`DirectReleasesAreEarned` adds that of the participants' calls only the
arbitrator's completes an escrow that settles directly (`CompletedByArbitrator`).
`BackendKeepsContractPromises` puts the chain of refinements together: under the
backend the escrows still implement `EscrowCustody` and keep the contracts'
invariants.

**Policy** (`AttestationProofs`). `NoCheckFails`, `AllChecksPass` and
`SomeCheckFails` say what checks in order amount to; from them
`AcceptedMeetsPolicy` and `PlainPaymentIsAccepted`, for every policy and
transaction: soundness and, for plain payments, completeness of the evaluator.

**Attestation** (`AttestationProofs`). `AttestationInv` adds to the properties
what a verification has established before each call: a block was read after the
first, success after the third, the right Creditcoin after the fourth, and at the
last one a proof whose metadata fit and which, if the builder is honest, is of
the submitted transaction. A verdict stays true because `attested` only grows.
It gives `AttestationTypeCorrect`, `AcceptedAlwaysAttested`,
`RefusalsAlwaysDeserved` and `WaitingNeverFailed` for any set of valid policies,
any chain length and any number of reorganisations.

**HTTP** (`AgreementHttpProofs`). Lemmas about the `Map` operators first (what
`Keep`, `Put`, `MakeRoom` and `Prune` leave of a table). Then:

* `AuthOK`: the pending challenges have different nonces, and none of them was
  answered; a session opened by this process is of a challenge that was, and began
  before the challenge's end. Replacing, forgetting or using a challenge only
  removes it: `OneSessionPerChallenge`, `SessionsAreFresh`.
* `WindowsOK`: the requests let through for an address that was not evicted
  contain beginnings of windows (`starts`), at least a window apart, of which any
  `Limit` requests in a row contain one; the entry counts since the last of them,
  and without an entry all of them are over. `TwoWindows` draws the consequence:
  2 * `Limit` requests within one window's length would contain two beginnings too
  close to each other. Hence `WindowsLimitRequests`, for every limit, window, table
  size and order of clients. It is an invariant only because the clock never goes
  back and `Prune` removes nothing that is not over.
* `PoolOK`: while the pool is ended every connection is closed, and none opens,
  since only a running process accepts. `PoolIsThereForClients`.

Together with the types this is `HttpInv`.

**Dashboard** (`AgreementDashboardProofs`, on `VeyronisEscrowProofs`).
`DashboardInv` has the escrow's own `IInv`, and:

* `LogOK`: the log is a history of the escrow. Of any two blocks the later one
  has a state that the contract can reach from the earlier one's (`LaterStates`, a
  partial order) and keeps its claim; the events of a block fit the record after it
  (`BlockOK`); the states before and after funding were passed through. A call
  appends a block that continues the history (`Recorded`, `AppendBlock`).
* `DirectOK`: of an agreement settled by its condition alone, a claim accepted is
  a payment settled, and the application offers neither refund nor dispute.
* `DbOK`, `ReadingOK`, `PageOK`, `WalletOK`: what the database, a reading under way,
  the page and the wallet know is from that history. A reading may mix values
  of several blocks, all of them since its first; `DetailsOK` shows that what it
  returns is still ordered: events first, then claim and state. `ReadingOK` and
  `WalletOK` are about each flow alone, so any number may overlap.

The theorems compare what the page holds with the chain of now: because a final
state is the last in the order and a claim stays, an old page can be behind, never
wrong about a settlement (`UnlockedMeansSettled`); because the order is
antisymmetric, states shown one after the other happened in that order
(`PathWasTaken`). `ListAndPagesAgree` uses the order for reads of different blocks,
and for those of one block the same rules as `OffersMatchContract`. `MoneyCanMove` takes from `IInv` that the balance of a decided
escrow is the credit of the party it was decided for. `DashboardActsThroughEscrow`
is the refinement: each step is one of the contract's or leaves the chain alone.

The buttons: `Requires` and `Result` are what a call asks of the escrow's record and
what it makes of it, written without the actions. `CallsNeedOnlyThis` shows that they are the
contract's: an accepted call met `Requires`, and where `Requires` is met the
step to `Result` is that call. It needs the lock to be free, which is
`UnlockedBetween` of the escrow's proofs, carried over to the dashboard by
`DashboardUnlocked`. Then `OffersMatchContract` compares the backend's rules with
the contract's, as sets and in both directions, and `OfferedCallsSucceed` follows
for the buttons of an up-to-date page.
The number of blocks, of escrows and of calls by other software is not bounded.

**Work evidence** (`WorkEvidenceProofs`). `WorkInv` says that the table continues
every content it has had (`Continues`: rows stay, verdicts stay), that a verdict
in it was confirmed, that identifiers under way are fresh and what is reviewed is
stored, and that a row was sent before it was confirmed. Since a list a tab may
receive is such an earlier content, `VerdictsStand`, `ProgressAlwaysEarned`,
`ReplacedAlwaysReplaced` and `ReviewsAreFinal` follow, for any number of
tabs, reviews and submissions. For `ReplacedAlwaysReplaced` it takes that `After`
is a strict order of the stored rows that all pages share, since neither times nor
identifiers change; and that a submission is never confirmed before its time.

## 6. Only model-checked

* Liveness: `DisputePaysOut`, `DeploymentIsReported`, `AttemptEnds`, `FlowEnds`,
  `ShutdownEnds`, `VerificationEnds`. Temporal reasoning with fairness is out of
  the prover's reach.
  Of `DeploymentIsReported` the part that a single step could break is proved
  (`ReportIsOwed`).
* `OfferedIsAccepted` of the dashboard: it says that a call is ENABLED, which the
  prover cannot reason about. TLC checks it in every state of the run, with the
  contract's own actions. What is proved is the form with a witness:
  `OfferedCallsSucceed` with `CallsNeedOnlyThis`.

## 7. Plan

Done, in this order: the escrow with its abstract specification, the registry,
the deployment service, condition verification; the HTTP process with sessions,
limiters and shutdown; the wizard with the fee and deploy-and-fund; the
dashboard; work evidence; the attestation pipeline and the policy. Theorems of
escrow, registry, deployment, verification, policy, attestation, work evidence,
wizard, the HTTP process and the dashboard.

Every safety invariant that a run checks has a theorem (some under an assumption
that section 5 names), except
`OfferedIsAccepted`, proved without ENABLED. Next: the rest of the condition panel and the detail view, the
lists of several agreements, and the shared schemas.

## 8. Not modelled, and why

* Decoding of RLP and receipts, Merkle and continuity proofs: byte formats, and
  the native verifier is a precompile outside this repository. Included or not
  is a fact about what was attested.
* Hash functions, signatures and random nonces, beyond being injective or fresh.
* JSON, CORS, cookies; schemas that only parse. The lists of several agreements
  and the reconciliation table, which nothing reads.
* The values of terms and submissions; rendering and wording.
* Wallet connection and session restoration: calls into wallet libraries.
* Configuration, start-up, local scripts, deployment scripts, ABI files.
