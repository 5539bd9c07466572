--------------------------- MODULE CryptoFunding ---------------------------
(***************************************************************************)
(* External crypto funding (src/src/crypto): a player's funding intents,   *)
(* the requests that create them, the provider's sessions and events, the  *)
(* expiry worker, and what each transaction leaves in PostgreSQL.          *)
(*                                                                         *)
(* One action is one committed transaction, or one step outside of them (a *)
(* provider call, a crash).  The transaction of a provider event takes two *)
(* steps, because the reference lookup takes no lock when it finds no row  *)
(* and the lock on the claimed intent is a second, blocking, query.        *)
(***************************************************************************)
EXTENDS Integers, FiniteSets

CONSTANTS
  Intents,     \* the idempotency keys of one player: (player, key) is unique
  Requests,    \* POST /v1/crypto/funding-intents calls in progress at once
  Hashes,      \* request hashes: what asset and amount a request asks for
  Events,      \* provider event identities
  Reports,     \* the contents the provider may put in an event
  Foreign,     \* a provider reference that no create call returned
  Null,        \* SQL NULL, and a row that is not there
  Ttl,         \* CRYPTO_FUNDING_INTENT_TTL, in ticks
  FutureSkew,  \* CRYPTO_PROVIDER_MAX_FUTURE_SKEW, in ticks
  MaxTime      \* bound on the clock

VARIABLES
  now,              \* the clock every process reads
  intents,          \* crypto_funding_intents with its provider session and
                    \* its rows of crypto_funding_transitions
  requests,         \* where each request stands, Null between requests
  sessions,         \* the provider's side: what it holds for each intent
  flights,          \* provider-event transactions not committed yet
  events,           \* crypto_provider_events
  reconciliations,  \* crypto_funding_reconciliations
  attestations      \* financial_funding_instructions, by intent

vars == <<now, intents, requests, sessions, flights, events,
          reconciliations, attestations>>

Status == {"provider_pending", "awaiting_payment", "detected", "confirming",
           "confirmed", "failed", "expired", "reconciliation_required",
           "creation_failed"}
Terminal == {"confirmed", "failed", "expired", "reconciliation_required",
             "creation_failed"}
Reference == Intents \cup {Foreign}
Discrepancy == {"UNDERPAID", "OVERPAID", "ASSET_MISMATCH", "AMOUNT_UNDETERMINED"}

\* A normalized provider event.  value is how the reported asset and amount
\* compare with the intent's; a reference is named after the intent whose
\* create call returned it.
Report == [ref     : Reference,
           claim   : Intents \cup {Null},    \* claimedFundingIntentId
           owned   : BOOLEAN,                \* claimedPlayerId absent or right
           status  : {"payment_detected", "confirming", "confirmed", "failed", "expired"},
           value   : Discrepancy \cup {"EXACT"},
           at      : Nat]                    \* providerOccurredAt

Trigger == {"PROVIDER_SESSION_CREATED", "PROVIDER_CREATION_FAILED",
            "PROVIDER_EVENT_BEFORE_SESSION_RESPONSE", "PROVIDER_EVENT_EXPIRY_GUARD",
            "PROVIDER_DISCREPANCY", "PROVIDER_EVENT", "EXPIRY_WORKER"}
Transition == [from : Status, to : Status, version : Nat, trigger : Trigger,
               event : Events \cup {Null}]

Intent == [status      : Status,
           hash        : Hashes,
           ref         : Reference \cup {Null},
           session     : {"creating", "active", "creation_failed"},
           createdAt   : Nat,
           confirmedAt : Nat \cup {Null},
           lastEventAt : Nat \cup {Null},
           version     : Nat,
           log         : SUBSET Transition]

Verdict == {"processed", "ignored_stale", "ignored_expired", "future_timestamp",
            "reference_unknown", "ownership_mismatch", "terminal_intent",
            "discrepancy"}

Request == [key : Intents, pc : {"calling", "opened", "refused"}]
Flight == [report : Report, receivedAt : Nat, missed : BOOLEAN]
EventRow == [report : Report, receivedAt : Nat, intent : Intents \cup {Null},
             verdict : Verdict]
Reconciliation == [intent : Intents \cup {Null}, event : Events \cup {Null},
                   type : Discrepancy \cup {"PAYMENT_AFTER_EXPIRY",
                            "PAYMENT_ON_TERMINAL_INTENT", "UNKNOWN_PROVIDER_REFERENCE",
                            "INTENT_EXPIRED_AFTER_PAYMENT_DETECTED"}]
Attestation == [event : Events, ref : Reference, confirmedAt : Nat]

ASSUME ConstantsAssumption ==
  /\ Ttl \in Nat \ {0}
  /\ FutureSkew \in Nat
  /\ MaxTime \in Nat
  /\ Reports \subseteq Report
  /\ Foreign \notin Intents

\* NULL is no value of any column, and no row.
ASSUME NullAssumption ==
  /\ Null \notin Nat
  /\ Null \notin Intents \cup Events \cup Reference
  /\ Null \notin Intent
  /\ Null \notin Request
  /\ Null \notin Flight
  /\ Null \notin EventRow
  /\ Null \notin Attestation

-----------------------------------------------------------------------------
(* The lifecycle of an intent *)

Edges ==
  [provider_pending |-> {"awaiting_payment", "creation_failed", "failed", "expired"},
   awaiting_payment |-> {"detected", "confirming", "confirmed", "failed", "expired",
                         "reconciliation_required"},
   detected         |-> {"confirming", "confirmed", "failed", "expired",
                         "reconciliation_required"},
   confirming       |-> {"confirmed", "failed", "expired", "reconciliation_required"}]

CanTransition(from, to) == from \in DOMAIN Edges /\ to \in Edges[from]

ExpiresAt(i) == i.createdAt + Ttl

\* Mutant: the update forgets version = version + 1.
MoveUnversioned(i, to, trigger, e) ==
  [i EXCEPT !.status = to,
            !.log = @ \cup {[from |-> i.status, to |-> to, version |-> i.version + 1,
                             trigger |-> trigger, event |-> e]}]

\* The one writer of a status: the versioned update and its history row.
Move(i, to, trigger, e) ==
  [i EXCEPT !.status = to, !.version = @ + 1,
            !.log = @ \cup {[from |-> i.status, to |-> to, version |-> i.version + 1,
                             trigger |-> trigger, event |-> e]}]

-----------------------------------------------------------------------------
(* Creating an intent: two transactions around the provider call *)

\* prepare() creates or finds the intent of the key.  Only a request whose hash
\* is the intent's, on an intent still provider_pending, goes on to the
\* provider; any other gets its answer from the row and changes nothing.
\* An intent is created only while the bounded clock can still reach its expiry.
NewIntent(h) ==
  [status |-> "provider_pending", hash |-> h, ref |-> Null, session |-> "creating",
   createdAt |-> now, confirmedAt |-> Null, lastEventAt |-> Null, version |-> 1,
   log |-> {}]

Prepare(r, k, h) ==
  /\ requests[r] = Null
  /\ \/ /\ intents[k] = Null
        /\ now + Ttl <= MaxTime
        /\ intents' = [intents EXCEPT ![k] = NewIntent(h)]
     \/ /\ intents[k] # Null
        /\ intents[k].hash = h
        /\ intents[k].status = "provider_pending"
        /\ UNCHANGED intents
  /\ requests' = [requests EXCEPT ![r] = [key |-> k, pc |-> "calling"]]
  /\ UNCHANGED <<now, sessions, flights, events, reconciliations, attestations>>

\* The provider call, with the intent's id as idempotency key: the provider
\* opens one session for it and returns that session again when asked again.
ProviderOpens(r) ==
  /\ requests[r] # Null
  /\ requests[r].pc = "calling"
  /\ LET k == requests[r].key IN
     /\ sessions[k] \in {"none", "open"}
     /\ sessions' = [sessions EXCEPT ![k] = "open"]
  /\ requests' = [requests EXCEPT ![r].pc = "opened"]
  /\ UNCHANGED <<now, intents, flights, events, reconciliations, attestations>>

\* A definite failure: the provider refuses, or returns a session that
\* isSafeProviderResult turns down.
ProviderRefuses(r) ==
  /\ requests[r] # Null
  /\ requests[r].pc = "calling"
  /\ LET k == requests[r].key IN
     \/ sessions[k] = "none" /\ UNCHANGED sessions
     \/ /\ sessions[k] \in {"none", "unusable"}
        /\ sessions' = [sessions EXCEPT ![k] = "unusable"]
  /\ requests' = [requests EXCEPT ![r].pc = "refused"]
  /\ UNCHANGED <<now, intents, flights, events, reconciliations, attestations>>

\* An ambiguous failure: the session is open but the answer is lost, and the
\* request ends with CRYPTO_PROVIDER_UNAVAILABLE.
ProviderAnswerLost(r) ==
  /\ requests[r] # Null
  /\ requests[r].pc = "calling"
  /\ LET k == requests[r].key IN
     /\ sessions[k] = "none"
     /\ sessions' = [sessions EXCEPT ![k] = "open"]
  /\ requests' = [requests EXCEPT ![r] = Null]
  /\ UNCHANGED <<now, intents, flights, events, reconciliations, attestations>>

Holders(ref) == {k \in Intents : intents[k] # Null /\ intents[k].ref = ref}

\* activateProviderSession writes the reference whatever the status is.
WithReference(i, ref) == [i EXCEPT !.ref = ref, !.session = "active"]

\* Mutant: the second transaction does not look at the status it finds.
ActivatedAnyway(i, k) ==
  Move(WithReference(i, k), "awaiting_payment", "PROVIDER_SESSION_CREATED", Null)

Activated(i, k) ==
  IF i.status = "provider_pending"
  THEN Move(WithReference(i, k), "awaiting_payment", "PROVIDER_SESSION_CREATED", Null)
  ELSE WithReference(i, k)

\* Mutant: no unique index on the reference, no check for a conflicting one.
ActivateUnchecked(r) ==
  /\ requests[r] # Null
  /\ requests[r].pc = "opened"
  /\ LET k == requests[r].key IN
     intents' = [intents EXCEPT ![k] = Activated(intents[k], k)]
  /\ requests' = [requests EXCEPT ![r] = Null]
  /\ UNCHANGED <<now, sessions, flights, events, reconciliations, attestations>>

Activate(r) ==
  /\ requests[r] # Null
  /\ requests[r].pc = "opened"
  /\ LET k == requests[r].key IN
     /\ intents[k].ref \in {Null, k}
     /\ Holders(k) \subseteq {k}
     /\ intents' = [intents EXCEPT ![k] = Activated(intents[k], k)]
  /\ requests' = [requests EXCEPT ![r] = Null]
  /\ UNCHANGED <<now, sessions, flights, events, reconciliations, attestations>>

\* Mutant: the session row takes a status its CHECK constraint does not list.
CreationFailedSession(i) ==
  IF i.status = "provider_pending"
  THEN Move([i EXCEPT !.session = "failed"], "creation_failed", "PROVIDER_CREATION_FAILED", Null)
  ELSE i

CreationFailed(i) ==
  IF i.status = "provider_pending"
  THEN Move([i EXCEPT !.session = IF @ = "creating" THEN "creation_failed" ELSE @],
            "creation_failed", "PROVIDER_CREATION_FAILED", Null)
  ELSE i

MarkCreationFailed(r) ==
  /\ requests[r] # Null
  /\ requests[r].pc = "refused"
  /\ LET k == requests[r].key IN
     intents' = [intents EXCEPT ![k] = CreationFailed(intents[k])]
  /\ requests' = [requests EXCEPT ![r] = Null]
  /\ UNCHANGED <<now, sessions, flights, events, reconciliations, attestations>>

\* The process dies, the call times out, or the second transaction aborts (a
\* conflicting reference): whatever was committed stays.
Abandon(r) ==
  /\ requests[r] # Null
  /\ requests' = [requests EXCEPT ![r] = Null]
  /\ UNCHANGED <<now, intents, sessions, flights, events, reconciliations, attestations>>

-----------------------------------------------------------------------------
(* Processing a provider event: one transaction *)

Moved(p) == p.status \in {"payment_detected", "confirming", "confirmed"}

TargetStatus(p) == IF p.status = "payment_detected" THEN "detected" ELSE p.status

Rank == [awaiting_payment |-> 0, detected |-> 1, confirming |-> 2, confirmed |-> 3]

\* Mutant: the lifecycle rank alone decides what is stale.
IsStaleByRank(i, p) ==
  \/ i.status \in Terminal
  \/ /\ i.status \in DOMAIN Rank
     /\ TargetStatus(p) \in DOMAIN Rank
     /\ Rank[TargetStatus(p)] <= Rank[i.status]

\* Mutant: an event from the instant of the creation is already stale.
IsStaleAtCreation(i, p) ==
  \/ i.status \in Terminal
  \/ p.at <= i.createdAt
  \/ i.lastEventAt # Null /\ p.at <= i.lastEventAt
  \/ /\ i.status \in DOMAIN Rank
     /\ TargetStatus(p) \in DOMAIN Rank
     /\ Rank[TargetStatus(p)] <= Rank[i.status]

IsStale(i, p) ==
  \/ i.status \in Terminal
  \/ p.at < i.createdAt
  \/ i.lastEventAt # Null /\ p.at <= i.lastEventAt
  \/ /\ i.status \in DOMAIN Rank
     /\ TargetStatus(p) \in DOMAIN Rank
     /\ Rank[TargetStatus(p)] <= Rank[i.status]

\* Mutant: the instant of expiry still counts as in time.
LapsedAfter(i, at) ==
  \/ i.status = "expired"
  \/ ExpiresAt(i) < at /\ i.status # "confirmed"

\* An intent that has expired, or will as soon as someone looks at the clock.
Lapsed(i, at) ==
  \/ i.status = "expired"
  \/ ExpiresAt(i) <= at /\ i.status # "confirmed"

Dead(i, p) == Moved(p) /\ i.status \in {"failed", "creation_failed"}

Owned(k, p) == p.claim \in {Null, k} /\ p.owned

Discrepant(p) == Moved(p) /\ p.value # "EXACT"

\* Mutant: the insert overwrites a known event identity.
ReceiveAgain(e, p) ==
  /\ flights[e] = Null
  /\ p.ref # Foreign => sessions[p.ref] # "none"
  /\ flights' = [flights EXCEPT ![e] = [report |-> p, receivedAt |-> now, missed |-> FALSE]]
  /\ UNCHANGED <<now, intents, requests, sessions, events, reconciliations, attestations>>

\* insertEvent: a known event identity is a duplicate and changes nothing, and
\* a second transaction on an identity waits for the first.  The provider only
\* reports on sessions it holds.
ReceiveEvent(e, p) ==
  /\ events[e] = Null
  /\ flights[e] = Null
  /\ p.ref # Foreign => sessions[p.ref] # "none"
  /\ flights' = [flights EXCEPT ![e] = [report |-> p, receivedAt |-> now, missed |-> FALSE]]
  /\ UNCHANGED <<now, intents, requests, sessions, events, reconciliations, attestations>>

\* Commit event e with its verdict on intent k (Null: no intent), the row the
\* intent is left with and the reconciliation records, by discrepancy type.
Record(e, k, verdict, types) ==
  /\ events' = [events EXCEPT ![e] =
       [report |-> flights[e].report, receivedAt |-> flights[e].receivedAt,
        intent |-> k, verdict |-> verdict]]
  /\ reconciliations' = reconciliations \cup
       {[intent |-> k, event |-> e, type |-> t] : t \in types}
  /\ flights' = [flights EXCEPT ![e] = Null]
  /\ UNCHANGED <<now, requests, sessions>>

TooFarAhead(f) == f.report.at > f.receivedAt + FutureSkew

RejectFuture(e) ==
  /\ flights[e] # Null
  /\ TooFarAhead(flights[e])
  /\ Record(e, Null, "future_timestamp", {})
  /\ UNCHANGED <<intents, attestations>>

RejectUnknown(e) ==
  /\ Record(e, Null, "reference_unknown", {"UNKNOWN_PROVIDER_REFERENCE"})
  /\ UNCHANGED <<intents, attestations>>

RejectOwnership(e, k, i) ==
  /\ ~Owned(k, flights[e].report)
  /\ intents' = [intents EXCEPT ![k] = i]
  /\ Record(e, k, "ownership_mismatch", {})
  /\ UNCHANGED attestations

ExpiredByEvent(i) ==
  IF CanTransition(i.status, "expired")
  THEN Move(i, "expired", "PROVIDER_EVENT_EXPIRY_GUARD", Null)
  ELSE i

\* Mutant: value after expiry is recorded only if some was seen before.
IgnoreExpiredQuietly(e, k, i) ==
  LET f == flights[e] IN
  /\ Owned(k, f.report)
  /\ Lapsed(i, f.receivedAt)
  /\ intents' = [intents EXCEPT ![k] = ExpiredByEvent(i)]
  /\ Record(e, k, "ignored_expired",
            IF Moved(f.report) /\ i.status \in {"detected", "confirming"}
            THEN {"PAYMENT_AFTER_EXPIRY"} ELSE {})
  /\ UNCHANGED attestations

IgnoreExpired(e, k, i) ==
  LET f == flights[e] IN
  /\ Owned(k, f.report)
  /\ Lapsed(i, f.receivedAt)
  /\ intents' = [intents EXCEPT ![k] = ExpiredByEvent(i)]
  /\ Record(e, k, "ignored_expired",
            IF Moved(f.report) THEN {"PAYMENT_AFTER_EXPIRY"} ELSE {})
  /\ UNCHANGED attestations

RejectTerminal(e, k, i) ==
  LET f == flights[e] IN
  /\ Owned(k, f.report)
  /\ ~Lapsed(i, f.receivedAt)
  /\ Dead(i, f.report)
  /\ intents' = [intents EXCEPT ![k] = i]
  /\ Record(e, k, "terminal_intent", {"PAYMENT_ON_TERMINAL_INTENT"})
  /\ UNCHANGED attestations

Parked(i, e, at) ==
  IF CanTransition(i.status, "reconciliation_required")
  THEN [Move(i, "reconciliation_required", "PROVIDER_DISCREPANCY", e) EXCEPT !.lastEventAt = at]
  ELSE i

RejectDiscrepancy(e, k, i) ==
  LET f == flights[e] IN
  /\ Owned(k, f.report)
  /\ ~Lapsed(i, f.receivedAt)
  /\ ~Dead(i, f.report)
  /\ Discrepant(f.report)
  /\ intents' = [intents EXCEPT ![k] = Parked(i, e, f.report.at)]
  /\ Record(e, k, "discrepancy", {f.report.value})
  /\ UNCHANGED attestations

IgnoreStale(e, k, i) ==
  LET f == flights[e] IN
  /\ Owned(k, f.report)
  /\ ~Lapsed(i, f.receivedAt)
  /\ ~Dead(i, f.report)
  /\ ~Discrepant(f.report)
  /\ IsStale(i, f.report)
  /\ intents' = [intents EXCEPT ![k] = i]
  /\ Record(e, k, "ignored_stale", {})
  /\ UNCHANGED attestations

Advanced(i, e, f) ==
  [Move(i, TargetStatus(f.report), "PROVIDER_EVENT", e) EXCEPT
     !.lastEventAt = f.report.at,
     !.confirmedAt = IF f.report.status = "confirmed" THEN f.receivedAt ELSE @]

\* Mutant: confirming is taken for confirmed.
AttestedEarly(k, i, e, f) ==
  IF f.report.status \in {"confirming", "confirmed"} /\ attestations[k] = Null
  THEN [attestations EXCEPT ![k] = [event |-> e, ref |-> i.ref, confirmedAt |-> f.receivedAt]]
  ELSE attestations

\* A confirmation and its attestation are one commit; the insert is
\* ON CONFLICT DO NOTHING on the intent.
Attested(k, i, e, f) ==
  IF f.report.status = "confirmed" /\ attestations[k] = Null
  THEN [attestations EXCEPT ![k] = [event |-> e, ref |-> i.ref, confirmedAt |-> f.receivedAt]]
  ELSE attestations

Accept(e, k, i) ==
  LET f == flights[e] IN
  /\ Owned(k, f.report)
  /\ ~Lapsed(i, f.receivedAt)
  /\ ~Dead(i, f.report)
  /\ ~Discrepant(f.report)
  /\ ~IsStale(i, f.report)
  /\ CanTransition(i.status, TargetStatus(f.report))
  /\ intents' = [intents EXCEPT ![k] = Advanced(i, e, f)]
  /\ attestations' = Attested(k, i, e, f)
  /\ Record(e, k, "processed", {})

\* The pipeline after the intent is found and locked.
Resolve(e, k, i) ==
  \/ RejectOwnership(e, k, i)
  \/ IgnoreExpired(e, k, i)
  \/ RejectTerminal(e, k, i)
  \/ RejectDiscrepancy(e, k, i)
  \/ IgnoreStale(e, k, i)
  \/ Accept(e, k, i)

InTime(e) == flights[e] # Null /\ ~TooFarAhead(flights[e])

\* findByProviderReferenceForUpdate finds the row and waits for its lock.
ResolveByReference(e) ==
  /\ InTime(e)
  /\ ~flights[e].missed
  /\ \E k \in Holders(flights[e].report.ref) : Resolve(e, k, intents[k])

\* It finds no row, so it locks none; without a claim that is the end.
MissReference(e) ==
  /\ InTime(e)
  /\ ~flights[e].missed
  /\ Holders(flights[e].report.ref) = {}
  /\ IF flights[e].report.claim = Null
     THEN RejectUnknown(e)
     ELSE /\ flights' = [flights EXCEPT ![e].missed = TRUE]
          /\ UNCHANGED <<now, intents, requests, sessions, events, reconciliations,
                         attestations>>

\* The claimed intent is locked: still provider_pending, it takes the event's
\* reference and goes through the pipeline.
Recoverable(k) == intents[k] # Null /\ intents[k].status = "provider_pending"

Recovered(i, e, ref) ==
  Move(WithReference(i, ref), "awaiting_payment",
       "PROVIDER_EVENT_BEFORE_SESSION_RESPONSE", e)

ResolveByClaim(e) ==
  /\ InTime(e)
  /\ flights[e].missed
  /\ LET p == flights[e].report IN
     IF Recoverable(p.claim)
     THEN /\ Holders(p.ref) = {}
          /\ Resolve(e, p.claim, Recovered(intents[p.claim], e, p.ref))
     ELSE RejectUnknown(e)

\* The process dies or the transaction aborts: nothing was written, and the
\* provider may deliver the event again.
RollBack(e) ==
  /\ flights[e] # Null
  /\ flights' = [flights EXCEPT ![e] = Null]
  /\ UNCHANGED <<now, intents, requests, sessions, events, reconciliations, attestations>>

-----------------------------------------------------------------------------
(* The expiry worker and the clock *)

\* Mutant: intents without a provider session never expire.
DueWithSession == {k \in Intents : intents[k] # Null
                     /\ intents[k].status \in {"awaiting_payment", "detected", "confirming"}
                     /\ ExpiresAt(intents[k]) <= now}

Due == {k \in Intents : intents[k] # Null /\ intents[k].status \notin Terminal
                          /\ ExpiresAt(intents[k]) <= now}

\* Mutant: a detected payment is not yet worth a record.
ExpireConfirmingOnly(S) ==
  /\ S # {}
  /\ S \subseteq Due
  /\ intents' = [k \in Intents |->
       IF k \in S THEN Move(intents[k], "expired", "EXPIRY_WORKER", Null) ELSE intents[k]]
  /\ reconciliations' = reconciliations \cup
       {[intent |-> k, event |-> Null, type |-> "INTENT_EXPIRED_AFTER_PAYMENT_DETECTED"] :
          k \in {j \in S : intents[j].status = "confirming"}}
  /\ UNCHANGED <<now, requests, sessions, flights, events, attestations>>

\* One batch is one transaction.  LIMIT and SKIP LOCKED make it any part of
\* what is due.
Expire(S) ==
  /\ S # {}
  /\ S \subseteq Due
  /\ intents' = [k \in Intents |->
       IF k \in S THEN Move(intents[k], "expired", "EXPIRY_WORKER", Null) ELSE intents[k]]
  /\ reconciliations' = reconciliations \cup
       {[intent |-> k, event |-> Null, type |-> "INTENT_EXPIRED_AFTER_PAYMENT_DETECTED"] :
          k \in {j \in S : intents[j].status \in {"detected", "confirming"}}}
  /\ UNCHANGED <<now, requests, sessions, flights, events, attestations>>

ExpiryWorker == \E S \in SUBSET Due : Expire(S)

Tick ==
  /\ now < MaxTime
  /\ now' = now + 1
  /\ UNCHANGED <<intents, requests, sessions, flights, events, reconciliations, attestations>>

-----------------------------------------------------------------------------
Init ==
  /\ now = 0
  /\ intents = [k \in Intents |-> Null]
  /\ requests = [r \in Requests |-> Null]
  /\ sessions = [k \in Intents |-> "none"]
  /\ flights = [e \in Events |-> Null]
  /\ events = [e \in Events |-> Null]
  /\ reconciliations = {}
  /\ attestations = [k \in Intents |-> Null]

RequestStep(r) ==
  \/ \E k \in Intents, h \in Hashes : Prepare(r, k, h)
  \/ ProviderOpens(r)
  \/ ProviderRefuses(r)
  \/ ProviderAnswerLost(r)
  \/ Activate(r)
  \/ MarkCreationFailed(r)
  \/ Abandon(r)

EventStep(e) ==
  \/ \E p \in Reports : ReceiveEvent(e, p)
  \/ RejectFuture(e)
  \/ ResolveByReference(e)
  \/ MissReference(e)
  \/ ResolveByClaim(e)
  \/ RollBack(e)

Next ==
  \/ \E r \in Requests : RequestStep(r)
  \/ \E e \in Events : EventStep(e)
  \/ ExpiryWorker
  \/ Tick

Spec == Init /\ [][Next]_vars

\* The clock runs, and setInterval keeps starting the expiry worker.
FairSpec == Spec /\ WF_vars(Tick) /\ WF_vars(ExpiryWorker)

-----------------------------------------------------------------------------
(* What is correct *)

\* Every table holds rows of its shape, the CHECK constraints of migration 005
\* on states included.
TypeOK ==
  /\ now \in Nat
  /\ intents \in [Intents -> Intent \cup {Null}]
  /\ requests \in [Requests -> Request \cup {Null}]
  /\ sessions \in [Intents -> {"none", "open", "unusable"}]
  /\ flights \in [Events -> Flight \cup {Null}]
  /\ events \in [Events -> EventRow \cup {Null}]
  /\ reconciliations \subseteq Reconciliation
  /\ attestations \in [Intents -> Attestation \cup {Null}]

IsConfirmed(k) == intents[k] # Null /\ intents[k].status = "confirmed"

\* An intent is confirmed exactly when it has its attestation, and the
\* attestation rests on one processed event that reported the exact value as
\* confirmed for this intent and its session, received at the confirmation time.
ConfirmedIsAttested ==
  \A k \in Intents :
    LET a == attestations[k] IN
    /\ IsConfirmed(k) <=> a # Null
    /\ a # Null =>
         /\ a.ref = intents[k].ref
         /\ a.confirmedAt = intents[k].confirmedAt
         /\ events[a.event] # Null
         /\ LET ev == events[a.event] IN
            /\ ev.intent = k /\ ev.verdict = "processed"
            /\ ev.report.status = "confirmed" /\ ev.report.value = "EXACT"
            /\ Owned(k, ev.report)
            /\ ev.report.ref = a.ref
            /\ ev.receivedAt = a.confirmedAt
            /\ intents[k].createdAt <= ev.report.at

\* No confirmation is received at or after the internal expiry, however long
\* its transaction waited for the lock while the clock and the worker went on.
ConfirmedBeforeExpiry ==
  \A k \in Intents :
    attestations[k] # Null => attestations[k].confirmedAt < ExpiresAt(intents[k])

\* The transition rows of an intent are one chain of allowed edges, a row per
\* version, from provider_pending to the present status.
HistoryIsAChain ==
  \A k \in Intents : intents[k] # Null =>
    LET i == intents[k]  L == i.log IN
    /\ \A v \in 2..i.version : \E t \in L : t.version = v
    /\ \A t \in L : t.version \in 2..i.version /\ CanTransition(t.from, t.to)
    /\ \A t, u \in L :
         /\ t.version = u.version => t = u
         /\ u.version = t.version + 1 => u.from = t.to
    /\ \A t \in L : t.version = 2 => t.from = "provider_pending"
    /\ \A t \in L : t.version = i.version => t.to = i.status
    /\ i.version = 1 => i.status = "provider_pending"

\* Evidence that value moved is never dropped: an owned report of a payment
\* that does not match, that arrives when the intent has lapsed, or that falls
\* on an intent whose creation failed, has its reconciliation record.
EvidenceOnRecord ==
  \A e \in Events : events[e] # Null /\ events[e].intent # Null =>
    LET ev == events[e]  k == ev.intent  i == intents[k] IN
    /\ Owned(k, ev.report)
    /\ Moved(ev.report)
    /\ \/ ev.report.value # "EXACT"
       \/ ExpiresAt(i) <= ev.receivedAt /\ i.status # "confirmed"
       \/ i.status = "creation_failed"
    => \E rec \in reconciliations : rec.event = e /\ rec.intent = k

\* Reconciliation records say what happened: a mismatch record has its event,
\* value after expiry never stands on a confirmed intent, an intent the worker
\* expired after a detection has its record and no other intent has one, and
\* an intent that needs reconciliation has an open mismatch to reconcile.
ReconciliationsMatch ==
  /\ \A rec \in reconciliations :
       /\ rec.type \in Discrepancy =>
            /\ rec.event # Null /\ events[rec.event].verdict = "discrepancy"
            /\ events[rec.event].report.value = rec.type
       /\ rec.type = "PAYMENT_AFTER_EXPIRY" =>
            intents[rec.intent].status \in Terminal \ {"confirmed"}
       /\ rec.type = "PAYMENT_ON_TERMINAL_INTENT" =>
            intents[rec.intent].status \in {"failed", "creation_failed"}
       /\ rec.type = "UNKNOWN_PROVIDER_REFERENCE" => rec.intent = Null
  /\ \A k \in Intents : intents[k] # Null =>
       /\ (\E t \in intents[k].log : t.trigger = "EXPIRY_WORKER"
                                      /\ t.from \in {"detected", "confirming"})
          <=> [intent |-> k, event |-> Null,
               type |-> "INTENT_EXPIRED_AFTER_PAYMENT_DETECTED"] \in reconciliations
       /\ intents[k].status = "reconciliation_required" =>
            \E rec \in reconciliations : rec.intent = k /\ rec.type \in Discrepancy

\* Provider events advance an intent in the order of the provider's clock, none
\* from before the intent existed, each received while the intent was live.
ProgressInProviderOrder ==
  \A k \in Intents : intents[k] # Null =>
    LET advances == {t \in intents[k].log : t.trigger = "PROVIDER_EVENT"} IN
    /\ \A t \in advances :
         /\ events[t.event].report.at >= intents[k].createdAt
         /\ events[t.event].receivedAt < ExpiresAt(intents[k])
    /\ \A t, u \in advances : t.version < u.version =>
         events[t.event].report.at < events[u.event].report.at

\* No evidence of a payment is set aside for nothing: a report that was ignored
\* as stale is from before the intent, or was overtaken by an event that did
\* advance the intent and is as new or as far as it, or its intent has an open
\* mismatch on record.  (As far as a confirmation is only another one.)
StaleEvidenceIsOvertaken ==
  \A e \in Events :
    LET ev == events[e]  p == ev.report  i == intents[ev.intent] IN
    events[e] # Null /\ ev.verdict = "ignored_stale" /\ Moved(p) =>
      \/ p.at < i.createdAt
      \/ \E t \in i.log :
           /\ t.trigger = "PROVIDER_EVENT"
           /\ \/ p.at <= events[t.event].report.at
              \/ t.to \in DOMAIN Rank /\ Rank[TargetStatus(p)] <= Rank[t.to]
      \/ \E rec \in reconciliations : rec.intent = ev.intent /\ rec.type \in Discrepancy

\* An intent in a state that money can be in has a session with a known
\* reference, and no two intents share one; a reference without an active
\* session row, or the other way round, does not occur.
SessionBehindIntent ==
  \A k \in Intents : intents[k] # Null =>
    /\ intents[k].ref # Null <=> intents[k].session = "active"
    /\ intents[k].status \in {"awaiting_payment", "detected", "confirming", "confirmed",
                               "reconciliation_required"} => intents[k].ref # Null
    /\ intents[k].status = "provider_pending" => intents[k].session = "creating"
    /\ intents[k].ref # Null => Holders(intents[k].ref) = {k}

\* A terminal intent is never revived: its status, version, history and
\* confirmation stay, and only a late create response may still add its
\* reference.  No step forgets a row of the history or changes a known reference.
NoRevival ==
  [][\A k \in Intents : intents[k] # Null =>
       LET i == intents[k]  j == intents'[k] IN
       /\ j # Null
       /\ j.hash = i.hash /\ j.createdAt = i.createdAt
       /\ i.log \subseteq j.log
       /\ i.ref # Null => j.ref = i.ref
       /\ i.status \in Terminal =>
            /\ j.status = i.status /\ j.version = i.version /\ j.log = i.log
            /\ j.confirmedAt = i.confirmedAt /\ j.lastEventAt = i.lastEventAt
    ]_vars

\* What was committed stays: a redelivered event never gets a second verdict,
\* an attestation is never rewritten, a reconciliation record never vanishes.
RecordsAreFinal ==
  [][/\ \A e \in Events : events[e] # Null => events'[e] = events[e]
     /\ \A k \in Intents : attestations[k] # Null => attestations'[k] = attestations[k]
     /\ reconciliations \subseteq reconciliations']_vars

\* Every intent reaches a terminal status, whatever requests and the provider do.
EveryIntentSettles ==
  \A k \in Intents :
    intents[k] # Null ~> intents[k] # Null /\ intents[k].status \in Terminal

-----------------------------------------------------------------------------
(* CryptoFunding implements ExternalFunding *)

PhaseOf(i) ==
  IF i = Null THEN "absent"
  ELSE IF i.status = "confirmed" THEN "funded"
  ELSE IF i.status \in Terminal THEN "closed"
  ELSE "open"

Funding == INSTANCE ExternalFunding WITH
  phase  <- [k \in Intents |-> PhaseOf(intents[k])],
  issued <- {k \in Intents : attestations[k] # Null}

\* Funding an intent and issuing its one attestation are the same step, taken
\* from an open intent; everything else leaves what is issued alone.
ImplementsExternalFunding == Funding!Spec

-----------------------------------------------------------------------------
(* What the documentation says and the code does not do *)

\* docs/PHASE_4_CRYPTO_FUNDING.md: an authenticated callback that arrives before
\* the create response is stored attaches to its claimed intent and follows the
\* normal pipeline.  So no event is rejected as unknown while the intent it
\* claims holds the very reference it names.
ClaimedCallbackFindsItsIntent ==
  [][\A e \in Events :
       /\ events[e] = Null
       /\ events'[e] # Null
       /\ events'[e].verdict = "reference_unknown"
       /\ events'[e].report.claim # Null
       /\ intents[events'[e].report.claim] # Null
       => intents[events'[e].report.claim].ref # events'[e].report.ref]_vars

\* The same document: expiry after detected or confirming also creates an
\* operational reconciliation record.
ExpiryAfterDetectionRecorded ==
  \A k \in Intents : intents[k] # Null =>
    \A t \in intents[k].log :
      t.to = "expired" /\ t.from \in {"detected", "confirming"} =>
        \E rec \in reconciliations : rec.intent = k

\* The same document: equal and older provider timestamps are stale.  So an
\* event no newer than the last one applied moves no live intent.
OlderEventsAreStale ==
  [][\A e \in Events, k \in Intents :
       /\ events[e] = Null
       /\ events'[e] # Null
       /\ events'[e].intent = k
       /\ intents[k].lastEventAt # Null
       /\ events'[e].report.at <= intents[k].lastEventAt
       /\ ~Lapsed(intents[k], events'[e].receivedAt)
       => intents'[k].status = intents[k].status]_vars

=============================================================================
