# A verification development of nines-api

`nines-api` is the service that knows players, their verification and their
restrictions, and that turns a player's external crypto payment into a signed
attestation for the Financial service. This directory holds TLA+ modules
translated from its TypeScript and SQL, the TLC configurations that check them on
small instances, and TLAPS proofs of the properties that matter most.

Paths below are relative to the repository; `src/crypto/...` is the code,
`db/migrations/...` the schema.

## 1. Inventory

Everything durable is in PostgreSQL. The service runs as any number of Node
processes; inside one of them only `await` interleaves, between them anything
does. What serialises steps is a row lock (`SELECT ... FOR UPDATE`), a unique
index, an advisory lock or a guarded `UPDATE`, and what makes a step atomic is
`withTransaction` (`src/shared/db/transaction.ts`).

| part | state | operations | talks to |
|---|---|---|---|
| crypto funding lifecycle (`src/crypto/application`, `domain`, `infrastructure`) | funding intents with their provider session and transition history, provider events, reconciliations, attestations | create an intent, activate it, mark its creation failed, process a provider event, expire | the provider (a call out, callbacks in), eligibility, attestation delivery (through the attestation row) |
| attestation delivery (`FundingAttestationDeliveryWorker`) | delivery columns of `financial_funding_instructions`, delivery attempts, failure reports in the security outbox | quarantine legacy rows, claim with a lease, send, record | Financial over HTTP; Security through the outbox |
| security evidence delivery (`SecurityEvidenceDeliveryWorker`) | delivery columns of `security_evidence_outbox` | claim, send, record | Security over HTTP |
| KYC verification (`src/kyc`) | profile, sessions, provider events, status transitions, manual reviews | start, activate, process event, submit from the hosted page, open, assign and decide a review, expire sessions and profiles | KYC provider; eligibility reads the status |
| eligibility and restrictions (`src/eligibility`) | decisions (append-only), restrictions | evaluate, add, remove, expire | players, KYC; its decisions are cited by intents and attestations |
| players (`src/players`) | players, external identities, account-status transitions | resolve or create, change status | audit |
| permissions, authentication, audit, routes, configuration, observability, migrations | none, or append-only | | |
| historical backend (`src/migrated-from-backend`) | bets, wallets and their ledgers, the pool calls made | place a bet, settle a race, adjust a wallet, report drift | nines-financial over HTTP, the race's lifecycle; kept from another repository and not compiled into this service |

What is hard in each part, and what makes it correct:

* **Crypto funding.** Creation spans two transactions with a provider call
  between them; callbacks may arrive before the answer, twice, out of order, with
  the wrong value or for the wrong player; the expiry worker races both. Correct
  means: an intent is confirmed exactly when one attestation exists for it, that
  attestation rests on one exact, owned, timely event; history is one chain;
  nothing terminal is revived; evidence that value moved is never dropped without
  a reconciliation record; every intent settles.
* **Attestation delivery.** Leases lapse under slow workers, answers get lost,
  workers crash between claim and record. Correct means: only the holder of the
  lease decides, a verdict is final and never ahead of what Financial did, a
  failure is reported once, every attestation gets a verdict.
* **Evidence delivery.** The same with a lease that is only a token and a time.
* **KYC.** Sessions and profile are locked in different orders by different
  operations, provider events race activation, reviews race expiry. Correct
  means: an older attempt never overwrites a newer one, one effective session,
  the profile's status has a transition that explains it.
* **Eligibility.** A decision is stale as soon as it is committed. Correct means:
  it follows from a state the player was in, and denial wins.
* **Players.** Two first requests of one identity yield one player; account
  status moves along its table, one transition row for each move.
* **Historical backend.** A bet is accepted remotely and recorded locally in two
  steps, with the answer or the process lost between them; settlements repeat and
  overlap, and the fallback pays from local wallets under row locks. Correct means:
  a wallet is what its ledger adds up to, a bet is charged and paid once, local rows
  follow what nines-financial settled, and what is missing is reported.

The hazards of all parts, each at its line, are the `hazards` of `PROJECT.json`.

## 2. Plan

In the order of importance:

1. `ExternalFunding`, `CryptoFunding` and their proofs.
2. `FundingHandoff`, `AttestationDelivery` and their proofs.
3. `VerificationStatus`, `KycVerification` and their proofs.
4. `Eligibility`, with players and restrictions, and its proofs.
5. `BettingBook`, `Wagering`, the historical backend, and their proofs.

All of these are done. What could follow: `CryptoFunding` and `AttestationDelivery`
composed through the attestation row, with a decision of `Eligibility` in front of
creation (each side is checked against what the other promises, through
`ExternalFunding`, `FundingHandoff` and `VerificationStatus`, and not against its
details); that what `Eligibility` assumes of the dates of a verification is all that
`KycVerification` can do (its steps are proved to be among those `VerificationStatus`
allows, `KycKeepsItsPromise`, but its clock is coarser); the lock order of transactions that take two row locks.

## 3. Modules

| module | what it is |
|---|---|
| `ExternalFunding` | what crypto funding promises: an intent opens, is funded and its one attestation issued in the same step, or closes |
| `CryptoFunding` | the lifecycle as the code runs it, with its properties and the refinement mapping |
| `CryptoFundingProofs` | theorems about it: types, confirmation, terminal states, the refinement |
| `CryptoFundingHistoryProofs` | theorems about it: what is on record of an intent, its events and their evidence |
| `MCCryptoFunding` | provider repertoires for TLC |
| `FundingHandoff` | what delivery promises: verdicts are given once and are warranted by what Financial did |
| `AttestationDelivery` | the delivery workers, Financial and time |
| `AttestationDeliveryProofs` | theorems about it |
| `MCAttestationDelivery` | its TLC instance |
| `VerificationStatus` | what KYC promises its readers: one attempt counts at a time, is decided once, and only a newer one starts over |
| `KycVerification` | profile, sessions, provider events, reviews and expiry of one player, with the refinement mapping |
| `KycVerificationProofs` | theorems about it |
| `MCKycVerification` | its TLC instance |
| `Eligibility` | provisioning, account status, restrictions and decisions for one identity; KYC as `VerificationStatus` has it |
| `EligibilityProofs` | theorems about it |
| `MCEligibility` | its TLC instance |
| `BettingBook` | what betting promises: a bet is placed and charged in one step, held by one settlement, settled and credited in one step, and final |
| `Wagering` | bets, pool, wallets, settlement and drift report of one race of the historical backend, with the refinement mapping |
| `WageringProofs` | theorems about it: types, local rows and answers, the drift report |
| `WageringWalletProofs` | theorems about it: balances, ledgers, and what a bet pays |
| `WageringBookProofs` | the refinement of `BettingBook`, step by step |
| `MCWagering` | its TLC instance |

An operator whose comment begins with "Mutant" is a wrong version of the
definition that follows it; no specification uses it. `PROJECT.json` pairs each
checked property with a mutant that breaks it.

### CryptoFunding

An action is one committed transaction or one step outside of them.

| action | code |
|---|---|
| `Prepare` | `CreateCryptoFundingIntentService.execute`: find or insert by (player, key), compare hashes, answer from the stored row or go on to the provider |
| `ProviderOpens`, `ProviderRefuses`, `ProviderAnswerLost` | the provider call and its three ends |
| `Activate`, `Abandon`, `MarkCreationFailed` | the second transaction, on the locked row |
| `ResolveByReference`, `MissReference`, `ResolveByClaim` | `ProcessCryptoProviderEventService.execute`: an event whose reference is found is one transaction; one whose reference is not found takes a second step, because the lookup locks nothing and the lock on the claimed intent may be granted later |
| `RejectFuture`, `RejectUnknown`, `RejectOwnership`, `IgnoreExpired`, `RejectTerminal`, `RejectDiscrepancy`, `IgnoreStale`, `Accept` | its outcomes, in the code's order |
| `RollBack` | any failure before the commit; the provider may deliver again |
| `ExpiryWorker`, `Tick` | `ExpireCryptoFundingIntentsService` on any part of the due intents (the batch limit), and the clock |

`intents[k]` is the row of `crypto_funding_intents` with its provider session and
its transitions; `events`, `reconciliations` and `attestations` are the tables of
migration 005. Amounts and assets are abstracted to the outcome of comparing them
(`value`), a reference to the intent whose create call returned it. `receivedAt` is
read when the event's transaction starts, before it waits for a lock, as in the
code. Left out: audit rows, payment URLs, the eligibility decision cited by an
intent, and signature checks (an unauthenticated event changes nothing).

### AttestationDelivery

`rows` holds the delivery columns; the attempt number stands for the lease token,
because a claim draws a new token and counts the attempt up in one statement.
`ready` says that `next_attempt_at`, or for a leased row `lease_expires_at`, has
passed. `Claim` takes the oldest claimable row that no other worker may have
locked (`FOR UPDATE SKIP LOCKED`). `GetAnswer` covers every HTTP answer by its
class: a network error, 408, 429 and 5xx are `retryable`; any other status or a body
`isResponse` refuses is `permanent`. Financial and the network are external:
`File`, `Post` and the answers follow from how the worker reads them. A request
may reach Financial after its worker has given up. `GetUnrecordable` is an answer
"accepted" without a ledger transaction, which `isResponse` lets through and the
acknowledgement CHECK refuses (`RefuseAcknowledgement`). `Slip` is a crash, an
unreadable body or an unreachable database. `quarantineClaimedLegacyRow` cannot
run, since a claim requires a payload, and has no action.

### KycVerification

Every table of `src/kyc` is partitioned by player, so one player is modelled. A
session's id is its attempt number.

| action | code |
|---|---|
| `CheckEligibility`, `RefuseStart`, `ReuseSession`, `CreateIntent` | the first transaction of `StartKycVerificationService.execute`: the key first, then the effective session at the time read before the transaction; the unique index refuses a second session under way |
| `CreateVerificationSession`, `ProviderFails`, `MarkProviderFailure`, `Activate` | the provider call and the second transaction on the locked session |
| `RejectEvent`, `IgnoreExpired`, `RejectMismatch`, `IgnoreStale`, `NotePending`, `ApplyResult`, `IgnoreDuplicate` | `ProcessKycProviderEventService.execute`, its outcomes in the code's order |
| `SubmitOutcome` | the development page that stands in for the provider: it checks without a lock and sends |
| `OpenReview`, `AssignReview`, `ReadReview`, `Decide`, `DropDecision` | `KycManualReviewService`; a decision reads the review before it takes locks |
| `ReadStatus`, `ExpireSession`, `ExpireVerification`, `FindNothingDue` | the expiry on read and the expiry worker |
| `CrashRequest`, `LoseDelivery` | a process stops; a delivery is lost and may come again |

`Move` is `TransitionKycStatusService`: the profile, its transition row and its
review in one statement of the model, as in one transaction. A transaction may stay
open for `MaxOpen`, because it uses the clock it read at its start (`StillOpen`).

### Eligibility

A request is two transactions. `LockIdentity`, `FindIdentity`, `Provision` and
`UpdateProfile` are `ResolveOrCreatePlayerService` under its advisory lock;
`BeginEvaluation`, `ListRestrictions` and `Decide` are
`EvaluateEligibilityService`, which reads the clock, the restrictions and the KYC
status each at an instant of its own (READ COMMITTED), and carries the account
status it resolved in the first transaction. `Policy` is
`evaluateEligibilityPolicy` for all six operations. `KycMoves` is what
`VerificationStatus` allows, with the expiry an approval is given.

### Wagering

`fallback` is the configured mode and does not change. nines-financial, the race's
lifecycle and the races table are external, modelled as the code uses them.
`CheckRaceOpen`, `PlaceBet`, `RecordBet` place a bet at nines-financial and record it;
`LockWallet` and `TakeStake` do so with the fallback. `EnsureRaceCanSettle`,
`PoolReady`, `SettleBet`, `ApplyResults` settle at nines-financial; `LockBets`,
`CreditWallet`, `CommitSettlement` from local wallets. `Stop` and `Abort` stop a
request anywhere. `ReadLocalBets` and `Detect` are the two reads of the drift report.
A stake is one unit and a bet's id is the request that generated it. For `BettingBook`
the bets a settlement holds are the batches of the settlements in progress, and what
was charged and credited for a bet is read from its owner's ledger (`Entries`).

## 4. Runs

| run | instance | what it shows |
|---|---|---|
| `provider_events` | 1 intent, 1 request, 2 events, reports with every status at times 0..2, clock to 3, Ttl 2 | confirmation comes in time and in one step with the attestation; evidence is recorded, and what is ignored as stale was overtaken or is on record; records match what happened; progress follows the provider's clock; nothing committed is rewritten; each step is one of `ExternalFunding` |
| `creation_race` | 1 intent, 2 requests with 2 hashes, 1 event, `FairSpec` | history stays one chain, nothing terminal is revived, every intent reaches a terminal status |
| `ownership` | 2 intents, 2 events with wrong claims, wrong players, foreign references, a clock that runs ahead | no event confirms an intent it does not own; confirmed means attested; no reference is shared |
| `delivery_leases` | 2 workers, 3 attestations of which one is legacy, 2 attempts, 1 slip, `FairSpec` | only the holder decides, failures reported once, attempts bounded, each step is one of `FundingHandoff`, every attestation gets a verdict |
| `kyc_attempts` | 2 attempts, 2 reviews, 2 requests with one key or none, 1 delivery, 1 event of either player, clock to 2, `FairSpec` | profile and session agree, activation is never refused, the date constraint holds, each step is one of `VerificationStatus`, sessions settle, verifications lapse |
| `kyc_events` | 1 attempt, 2 reviews, 1 request, 2 deliveries, 2 administrators, 2 events dated up to 1 ahead, transactions open for 1, clock to 2 | one active review while parked, an event moves the profile once, results in provider order, no late verification, decisions stand and close the review that was read |
| `eligibility` | 2 requests, 1 restriction of two types, 1 attempt, clock to 1 | the advisory lock provisions once; no decision overlooks what stood throughout |
| `wagering` | 2 requests, 2 users, 2 selections, 1 shared key, 2 settlers, both modes | wallets are their ledgers, local rows follow nines-financial, the drift report misses nothing, each step is one of `BettingBook` |
| `lost_callback`, `silent_expiry`, `old_event`, `kyc_mismatch` | as `provider_events`; 1 attempt, 1 event of another player | the four disagreements of section 7 |

Why the bounds are enough: an intent's properties concern one intent, except for
the sharing of references, which needs two. Two events give every pair of an
applied and an overtaken, duplicated or conflicting one; two requests give the
race of a refused and an opened creation; `Ttl` 2 and a clock to 3 put an instant
before, at and after the expiry, for events and for the worker. In the delivery two
workers give the overtaken lease, the slip a crash or an unrecordable answer after
a lapse, and two attempts a row that is retried and a row that is given up; the
code's limit of 12 only repeats the retry.

In KYC two attempts give an older session beside a newer one, and the start of the
second waits for the end of the first; two reviews give the second parking of a
session while a decision of the first is still open; `MaxOpen` 1 lets the clock move
under an open transaction. The two questions do not fit in one instance: the first
has no administrators, the second one attempt. What the sizes leave out, the theorems
of section 5 cover: they hold for any number of attempts, reviews, deliveries and
administrators. In `eligibility` one restriction is enough because each is
looked at alone, and one tick separates what stood before a request from what came
after it. In `wagering` two bets of one or two users give every overlap of a placement
with a settlement, its repetition and the wallet lock they share. `AnswersLost` is
FALSE there: a pool call that failed is made again, but not one that took effect
and whose answer was lost, which could only repeat, under the same key, what
nines-financial has done; the theorems hold for both values.

`MaxTime`, `MaxEvents`, `MaxSlips`, `MaxAhead`, `MaxEntries` and the `MaxAttempts` of `Eligibility` are the bounds on
what grows; all of them are guards that make the model stop and let nothing else
happen. Requests, events, workers, deliveries and administrators are
interchangeable, and most safety runs declare them symmetric; runs with liveness do not.
The configurations of `CryptoFunding`, `Eligibility` and `Wagering` do not check for
deadlock, because their requests are a finite set that ends, with every intent
settled and every event delivered; those of the delivery and of KYC do, since
workers poll for ever.

Fairness. `CryptoFunding!FairSpec` assumes that the clock runs and that the expiry
worker keeps being started (`setInterval`, and one failed run does not stop the next);
nothing is assumed of players, requests or the provider. `KycVerification!FairSpec`
assumes the same of its clock and of the two batches of `KycExpiryWorker`, and
nothing of requests, provider or administrators: a session parked for a review
nobody decides expires. `AttestationDelivery!FairSpec`
assumes that each worker takes its next step (`setInterval` again; a request is
abandoned after 10 seconds) and that time passes. Nothing is assumed of Financial,
but an attempt may end unrecorded, be answered in a way that cannot be recorded, or
outlive its 60-second lease, only `MaxSlips` times: if Financial kept accepting
without a ledger transaction, the row would be sent for ever, because the cap on
attempts is only applied when a failure is recorded.

## 5. Theorems

All hold for any sets of intents, requests, events, attestations and workers, any
repertoire of reports and any bounds, and for any number of attempts, reviews,
deliveries, administrators, restrictions and settlers, and any finite set of bets,
from the named assumptions on the constants (`ConstantsAssumption`,
`NullAssumption`, `DeliveryAssumption`, `KycAssumption`, `EligibilityAssumption`,
`WageringAssumption`).

| theorem | states |
|---|---|
| `CryptoFundingProofs!TypeCorrect` | `[]TypeOK` |
| `ConfirmationAttested` | `[]ConfirmedIsAttested` |
| `ConfirmationInTime` | `[]ConfirmedBeforeExpiry` |
| `TerminalStaysTerminal` | `NoRevival` |
| `FundingRefinement` | `CryptoFunding` implements `ExternalFunding` |
| `CryptoFundingHistoryProofs!HistoryChained` | `[]HistoryIsAChain` |
| `SessionsStandBehind` | `[]SessionBehindIntent` |
| `ProgressOrdered` | `[]ProgressInProviderOrder` |
| `EvidenceRecorded` | `[]EvidenceOnRecord` |
| `StaleEvidenceExplained` | `[]StaleEvidenceIsOvertaken` |
| `LifeIsShort` | an intent's version stays within 1..5 |
| `RecordsAgree` | `[]ReconciliationsMatch` |
| `RecordsStayFinal` | `RecordsAreFinal` |
| `AttestationDeliveryProofs!DeliveryTypeCorrect` | `[]TypeOK` |
| `LatestAttemptDecides` | `[]StatusIsLatestAttempt` |
| `FailureIsReportedOnce` | `[]FailureReportedOnce` |
| `AttemptsAreBounded` | `[]GivenUpInTime` |
| `HandoffRefinement` | `AttestationDelivery` implements `FundingHandoff` |
| `VerdictsAreEarned` | an acknowledged attestation is posted at Financial, one in review has arrived there |
| `VerdictsStand` | a row keeps its verdict |
| `KycVerificationProofs!KycTypeCorrect` | `[]TypeOK` |
| `ProfileAgrees` | `[]ProfileFollowsSession` |
| `ActivationSucceeds` | `[]ActivationNeverRefused` |
| `OneActiveReview` | `[]ReviewWhileParked` |
| `DatesHold` | `[]DatesConsistent` |
| `ProviderOrderKept` | `[]ResultsInProviderOrder` |
| `EventsMoveOnce` | `[]EachEventMovesOnce` |
| `VerificationInTime` | `VerifiedInTime` |
| `DecisionsStand` | `DecidedForGood` |
| `DecisionsCloseTheirReview` | `DecidesWhatWasRead` |
| `KycImplements` | `KycVerification` implements `VerificationStatus` |
| `StandingMovesForward` | the profile never goes back to an earlier session; on one session a failure stays and an approval only lapses |
| `EligibilityProofs!EligibilityTypeCorrect` | `[]TypeOK` |
| `ProvisioningSucceeds` | `[]ProvisionNeverRefused` |
| `NothingIsOverlooked` | `NothingStandingIsOverlooked` |
| `ClosedStaysOut` | a request that arrives after the account was closed is allowed only `manage_profile` |
| `RestrictionsOnlyTakeAway` | a longer list of restrictions never allows more |
| `KycKeepsItsPromise` | the KYC steps assumed here are steps of `VerificationStatus` |
| `WageringProofs!WageringTypeCorrect` | `[]TypeOK` |
| `LocalBetsMatch` | `[]LocalMatchesFinancial` |
| `DriftSeen` | `[]DriftNotOverlooked` |
| `WageringWalletProofs!LedgersAddUp` | `[]LedgerMatchesBalance` |
| `BetsPaidOnce` | `[]PaidOnce` |
| `WageringBookProofs!WageringImplements` | `Wagering` implements `BettingBook` |
| `ResultsStand` | a placed bet keeps its user, a settled one its result |

**CryptoFunding.** `ConfirmedIsAttested` is not inductive: accepting a confirmation
writes the attestation from the intent's reference, so one must know that the
row the event was matched with has that reference. `IInv` adds that a request in
progress has its intent (`RequestsHaveIntents`), that a transaction in flight has not
committed its event, and has a claim if it missed its reference
(`FlightsUncommitted`), and that an intent still in `provider_pending` has no
reference (`PendingHasNoReference`). The proof classifies every step as quiet, as
creating one intent or as confirming one (`StepKinds`), and shows that each kind
preserves `IInv`, that a terminal row keeps all but its reference, and that each
maps to a step or a stutter of `ExternalFunding`.

The properties of what is on record rest on `HInv`, which adds to `IInv` what can be
said of each intent with the events alone (`Row`): its transitions are a chain that
ends at its status and version (`Chain`), a status that money can be in has an active
session (`SessionOf`), and the events that advanced it are in provider order and
not after the session's last event (`InOrder`). Across intents no reference is shared
(`OneHolder`); across tables every record holds of the event and intent it names
(`RecordsHold`), and an intent parked or expired with a payment seen has its record
(`ParkedOnRecord`, `WorkerOnRecord`). An event that was ignored as stale had an intent
that existed, and what overtook it: the intent's creation, or the last event of its
session, which either advanced the intent (`Traced`: the session's last event time is
that of an event in the log, unless the intent was parked) or parked it with a
record (`Excused`, `StaleExcused`). `LifeIsShort` needs no more than the chain: the
transition table has no cycle, and its longest path has four edges. A transaction of an event ends unrecorded, with
an event that matches no intent, or with a ruling on one intent; the ruling is
stated once (`Ruling`) and each outcome of the code is shown to be one.

**AttestationDelivery.** A record is right only because the lease it holds is the
row's latest attempt (`RowsConsistent`, `WorkConsistent`), no entry of the log is at
or past the attempt under way (`LogBehind`), and an answer in a worker's hands is
still true of Financial (`AnswersTrue`, `FiledWasSent`). `GivenUpInTime` needs
`SlipsPaid`: a leased row whose attempt can no longer be recorded has been paid for
with a slip, so the next claim stays within `MaxAttempts + slips`. There is one lemma
for each action; the two records share `RecordPreserves`. That verdicts stand and
are earned follows from the refinement alone: it is proved of `FundingHandoff`'s
steps and carried over.

**KycVerification.** No property of section 4 is inductive by itself. `RowInv` is
about the rows: a session has the provider's expiry exactly from its activation on
(`SessionShape`), the unique index holds (`OneHolding`), an attempt is created only
after the earlier ones (`InOrder`), and while one is being created the profile may
start (`CreatingFresh`). The rest is about what is held outside of a transaction. A
decision reads its review without a lock, and may find the session verified
meanwhile; `DecisionInv` says that then the profile is verified for longer than the
transaction may stay open, so that it cannot have lapsed and the transition table
refuses the decision. This is the one place where `2 * MaxOpen < VerificationTtl`
is used: a transaction takes seconds, a verification lasts days. `DatesInv` says
that no expiry a later step may bring, of a session that still holds the index or
of an event that is being handled, precedes the last verification. `HistoryInv` ties
each transition to the event on record and to the last event time of its session.
The proof shows first what kind of step each action is (`Kinds`, `RowKinds`): a
lapse, a creation, a failed creation, an activation, a conclusion of the session under
way with its profile, or nothing the rows notice. Each part of `IInv` is then shown
for the kinds. The refinement maps an activation to `Start`, a conclusion to
`Park`, `Resume` or `Conclude`, a lapse to `Lapse`; `StandingMovesForward` is a
consequence of it.

**Eligibility.** `NothingStandingIsOverlooked` compares reads made at different
instants. `IInv` carries each to the decision: who holds the advisory lock and what it
found (`Locking`), the order of the dates of a request (`Dated`), that the account
status it resolved is the player's or was changed since it arrived
(`AccountKnown`), and that its list has every restriction that was on record
before it arrived, is active and covers the instant of the evaluation
(`ListComplete`). That a restriction in force at the arrival and at the decision is in force at
the instant between them is arithmetic on its period. `KycKeepsItsPromise` ties the
environment to the KYC proofs: the moves the player's verification makes here,
and the lapse that a read performs, are steps of the specification that
`KycVerification` implements.

**Wagering.** `LocalMatchesFinancial` needs that a request is accepted only with an
answer under its key (`RowsHaveRequests`), and that answers are never taken back
(`AnswersStand`); a row may be inserted long after its answer, even after the
settlement. `DriftNotOverlooked` needs only that rows which a report has read do not
vanish (`ReportedRowsExist`): the rest is the order of its reads. A balance is its
ledger's sum because a placement that holds the lock still knows the balance
(`Locks`). For `PaidOnce`, `Batches` says that rows under settlement are unsettled and
of one settlement, `Paid` that the ledgers say of each bet what its row says, and
`Unrepeated`, kept by the unique index, that each says it once. What a commit
appends to a ledger is described by `CreditsOf`, from the enumeration of the winners
(`Enumeration`), which is why the set of requests must be finite. `WageringImplements`
is proved from these (`BookInv`) and from `Counts`, which says how many entries of
each kind a ledger has for a bet in terms of the bet's row, so that a step of the book is
read off the rows: with the fallback a placement adds one stake and a commit
one credit for each winner it holds, and at nines-financial, where the local ledgers stay
empty (`NoLocalMoney`), neither adds any. `ResultsStand` follows from the
refinement.

Each inductive invariant was also checked with TLC on the instances above.

## 6. Only model-checked

Liveness (`EveryIntentSettles`, `EveryAttestationSettles`, `SessionsSettle`,
`VerificationsLapse`) and anything with `ENABLED` are out of the prover's reach, as
are induction over data with the library's induction theorems and RECURSIVE
operators; no module needs the last two. Every other property of section 4 is stated by
a theorem of section 5. `PaidOnce`, `LifeIsShort`, `VerdictsAreEarned`, `VerdictsStand`, `StandingMovesForward`,
`ResultsStand`, `ClosedStaysOut`, `RestrictionsOnlyTakeAway` and `KycKeepsItsPromise` are
consequences that no run repeats.

## 7. Disagreements found

1. **A callback lost between lookup and lock.** The reference lookup finds no row,
   the activation commits, the claimed intent is then locked in `awaiting_payment`
   with the very reference that was not found. The code recovers only
   `provider_pending`, so the event is rejected as unknown, and its redelivery is a
   duplicate. `docs/PHASE_4_CRYPTO_FUNDING.md` says such a callback "follows the
   normal event pipeline" (`lost_callback`).
2. **Silent expiry.** An event that expires a detected or confirming intent writes
   no reconciliation record; the same document says expiry after these states
   "also creates an operational reconciliation record" (`silent_expiry`).
3. **Old events that do not match.** "Equal/older timestamps are stale", but the
   discrepancy check comes first and parks the intent (`old_event`).
4. **A mismatching event expires a session.** The expiry guard of the event
   processor runs before the claimed player is compared, so an event that names
   another player and arrives after the session elapsed expires the session and its
   profile. `docs/PHASE_3_5_KYC_LIFECYCLE_HARDENING.md` says that player mismatches
   "cannot change a profile" (`kyc_mismatch`). The expiry itself is due, and the
   worker would perform it anyway.

Observed while modelling, and contradicted by nothing the repository says; the
modules have these behaviours, and the hazards of `PROJECT.json` name their lines:

* A KYC or crypto event that is rejected because it arrived before its session was
  activated, or was dated too far ahead, stays rejected: its redelivery is a duplicate.
* A session whose creation failed keeps its idempotency key, so the same key gets
  the failed session again.
* A reviewer's decision dates the session's last event by the API's clock; after a
  resume, an event whose provider time is older is ignored.
* An eligibility decision reads the account status in the transaction before the one
  that reads restrictions and KYC, and these at instants of their own under READ
  COMMITTED, while `docs/PHASE_3_5_KYC_LIFECYCLE_HARDENING.md` speaks of a consistent
  snapshot. `NothingStandingIsOverlooked` is what holds nevertheless.
* With the fallback of the historical backend, a bet may be recorded after its race
  has closed, and a second placement under the same key inserts a second local row.

## 8. Not modelled

* Security evidence delivery: the claim and lapse of the attestation delivery
  without quarantine and failure report; a second copy would ask nothing new.
* `CryptoAmount`: parsing and comparing decimals, character by character, with unit
  tests of its own; `CryptoFunding` takes the outcome of the comparison as data.
* The lock manager: a transaction is atomic, and what the database does to one of
  two that wait on each other is the abort each module has as an action.
* Of the historical backend: users, its administration, carryovers and refunds, and
  what the drift report says of races and pools.
* Authentication and message signatures (library calls), audit rows (append-only,
  read by nobody here), routes, configuration and logging (no state), the pages and
  page tokens of the development stand-ins, and running the migrations.
