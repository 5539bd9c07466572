-------------------------- MODULE KycVerification --------------------------
(***************************************************************************)
(* The KYC lifecycle of one player: the profile, its verification sessions,*)
(* provider events, manual reviews and expiry.  Every table the code keeps *)
(* is partitioned by player, so players do not meet.                       *)
(*                                                                         *)
(* An action is one transaction, or one step between transactions: several *)
(* requests, provider deliveries and administrators are under way at once, *)
(* each holding what it read before it took its locks.  A session's id is  *)
(* its attempt number, and the provider's reference is known once the      *)
(* session has an expiry.  A profile row that does not exist yet is        *)
(* not_started, as every handler creates it before it reads it.            *)
(***************************************************************************)
EXTENDS Naturals, Sequences, FiniteSets

CONSTANTS
  Attempts,         \* rows of kyc_verification_sessions, by attempt_number
  Reviews,          \* rows of kyc_manual_reviews
  Requests,         \* POST /kyc/start requests
  Keys,             \* idempotency keys
  Handlers,         \* deliveries of provider events under way at once
  Admins,           \* administrators deciding reviews
  Claims,           \* may an event name another player? {FALSE} or BOOLEAN
  Null,             \* SQL NULL
  SessionTtl,       \* KYC_SESSION_TTL_MINUTES
  VerificationTtl,  \* KYC_VERIFICATION_TTL_DAYS
  MaxSkew,          \* KYC_PROVIDER_MAX_FUTURE_SKEW_SECONDS
  MaxOpen,          \* how long a transaction may stay open
  MaxAhead,         \* bound on how far the provider's clock runs ahead
  MaxEvents,        \* bound on provider events
  MaxTime           \* bound on the clock

ASSUME KycAssumption ==
  /\ Attempts \subseteq Nat \ {0}
  /\ Reviews \subseteq Nat \ {0}
  /\ Claims \subseteq BOOLEAN
  /\ SessionTtl \in Nat \ {0}
  /\ VerificationTtl \in Nat \ {0}
  /\ MaxSkew \in Nat
  /\ MaxOpen \in Nat
  /\ 2 * MaxOpen < VerificationTtl     \* seconds against days
  /\ MaxAhead \in Nat
  /\ MaxEvents \in Nat
  /\ MaxTime \in Nat

VARIABLES
  now,          \* the clock of the API instances
  profile,      \* the player_kyc_profiles row
  sessions,     \* kyc_verification_sessions
  reviews,      \* kyc_manual_reviews
  transitions,  \* kyc_status_transitions, by profile version
  filed,        \* processing_status of the provider events on record
  hosted,       \* expiry of the sessions the provider has opened
  issued,       \* events the provider has sent, and may send again
  request,      \* the start requests
  delivery,     \* the provider events being handled
  decision      \* the reviews being decided

rows == <<profile, sessions, reviews, transitions>>
outside == <<hosted, issued>>
vars == <<now, rows, filed, outside, request, delivery, decision>>

KycStatus == {"not_started", "pending", "verified", "failed", "manual_review", "expired"}
Result == {"pending", "verified", "failed", "manual_review", "expired"}
Decided == {"verified", "failed", "expired", "creation_failed"}
Undecided == {"pending", "manual_review"}
SessionStatus == {"absent", "creating"} \cup Undecided \cup Decided
Disposition == {"processed", "rejected", "ignored_stale", "ignored_expired"}

Date == Nat \cup {Null}
Event == [session : Attempts, result : Result, at : Nat, other : BOOLEAN]

Profile == [status     : KycStatus,
            current    : Attempts \cup {0},        \* current_session_id
            verifiedAt : Date,
            expiresAt  : Date]
Session == [status      : SessionStatus,
            key         : Keys \cup {Null},
            startedAt   : Nat,
            expiresAt   : Date,
            lastEventAt : Date]
Review == [status  : {"absent", "requested", "open", "assigned", "completed"},
           session : Attempts \cup {0},
           outcome : KycStatus \cup {Null}]        \* of the closing action
Transition == [from : KycStatus, to : KycStatus,
               session : Attempts \cup {0}, event : Event \cup {Null}]
Request == [stage     : {"idle", "checked", "calling", "opened", "refused", "done"},
            key       : Keys \cup {Null},
            at        : Nat,
            session   : Attempts \cup {0},
            expiresAt : Date]

ASSUME NullAssumption ==
  /\ Null \notin Nat /\ Null \notin Event /\ Null \notin KycStatus
  /\ Null \notin [event : Event, at : Nat]
  /\ Null \notin [review : Reviews, outcome : KycStatus, at : Nat]

-----------------------------------------------------------------------------
\* A request that has read nothing yet, or needs nothing any more.
Blank(stage) == [stage |-> stage, key |-> Null, at |-> 0, session |-> 0, expiresAt |-> Null]

Init ==
  /\ now = 0
  /\ profile = [status |-> "not_started", current |-> 0,
                verifiedAt |-> Null, expiresAt |-> Null]
  /\ sessions = [s \in Attempts |->
                   [status |-> "absent", key |-> Null, startedAt |-> 0,
                    expiresAt |-> Null, lastEventAt |-> Null]]
  /\ reviews = [i \in Reviews |-> [status |-> "absent", session |-> 0, outcome |-> Null]]
  /\ transitions = << >>
  /\ filed = << >>
  /\ hosted = << >>
  /\ issued = {}
  /\ request = [r \in Requests |-> Blank("idle")]
  /\ delivery = [h \in Handlers |-> Null]
  /\ decision = [a \in Admins |-> Null]

\* A transaction that read its clock, or a row, at that time is still open.
StillOpen(at) == now <= at + MaxOpen

Tick ==
  /\ now < MaxTime
  /\ now' = now + 1
  /\ UNCHANGED <<rows, filed, outside, request, delivery, decision>>

-----------------------------------------------------------------------------
(* TransitionKycStatusService: the profile, its transition row and its     *)
(* review change together or not at all.                                   *)

Edges == [not_started   |-> {"pending"},
          pending       |-> {"verified", "failed", "manual_review", "expired"},
          manual_review |-> {"verified", "failed", "pending", "expired"},
          verified      |-> {"expired", "manual_review"},
          failed        |-> {"pending"},
          expired       |-> {"pending"}]

CanTransition(to) == to \in Edges[profile.status]

Active(i) == reviews[i].status \in {"requested", "open", "assigned"}

\* Mutant: the review named by an administrator is not compared.
ClosesAny(i) == \E j \in Reviews : Active(j)

\* The active review, which is the one an administrator named, if any did.
Closes(i) == \E j \in Reviews : Active(j) /\ i \in {j, Null}

Requested(s) ==
  \E j \in Reviews :
    /\ reviews[j].status = "absent"
    /\ \A k \in Reviews : k < j => reviews[k].status # "absent"
    /\ reviews' = [reviews EXCEPT ![j].status = "requested", ![j].session = s]

\* Mutant: only an administrator's decision closes a review.
CompletedByAdmins(to, i) ==
  IF i = Null THEN UNCHANGED reviews
  ELSE reviews' = [reviews EXCEPT ![i].status = "completed", ![i].outcome = to]

Completed(to, i) ==
  /\ Closes(i)
  /\ reviews' = [j \in Reviews |->
                   IF Active(j)
                   THEN [reviews[j] EXCEPT !.status = "completed", !.outcome = to]
                   ELSE reviews[j]]

Reviewed(to, s, i) ==
  IF profile.status # "manual_review" /\ to = "manual_review" THEN Requested(s)
  ELSE IF profile.status = "manual_review" /\ to # "manual_review" THEN Completed(to, i)
  ELSE UNCHANGED reviews

UpdateStatus(to, s, verifiedAt, expiresAt) ==
  profile' = [status |-> to, current |-> s, verifiedAt |-> verifiedAt, expiresAt |-> expiresAt]

AppendTransition(to, s, e) ==
  transitions' = Append(transitions,
                        [from |-> profile.status, to |-> to, session |-> s, event |-> e])

\* i is the review an administrator decides, e the provider event.
Move(to, s, verifiedAt, expiresAt, e, i) ==
  /\ CanTransition(to)
  /\ UpdateStatus(to, s, verifiedAt, expiresAt)
  /\ AppendTransition(to, s, e)
  /\ Reviewed(to, s, i)

-----------------------------------------------------------------------------
(* Request-time expiry of a verification.                                  *)

Lapsed == profile.status = "verified" /\ profile.expiresAt # Null /\ profile.expiresAt <= now

\* Mutant: a lapse is dated from the session, as its expiry is.
LapseFromSession ==
  Move("expired", profile.current, profile.verifiedAt,
       sessions[profile.current].startedAt, Null, Null)

Lapse == Move("expired", profile.current, profile.verifiedAt, profile.expiresAt, Null, Null)

\* expireIfDue inside the transaction of a request.
LapseIfDue == IF Lapsed THEN Lapse ELSE UNCHANGED <<profile, transitions, reviews>>

ReadStatus ==
  /\ Lapsed
  /\ Lapse
  /\ UNCHANGED <<now, sessions, filed, outside, request, delivery, decision>>

-----------------------------------------------------------------------------
(* StartKycVerificationService.                                            *)

Finish(r) == request' = [request EXCEPT ![r] = Blank("done")]

CheckEligibility(r) ==
  /\ request[r].stage = "idle"
  /\ \E k \in Keys \cup {Null} :
       request' = [request EXCEPT ![r].stage = "checked", ![r].key = k, ![r].at = now]
  /\ UNCHANGED <<now, rows, filed, outside, delivery, decision>>

\* findByIdempotencyKey.
Repeats(r, s) == request[r].key # Null /\ sessions[s].key = request[r].key

Holding == {"creating"} \cup Undecided

\* Mutant: only sessions the player can use count.
HoldsPending(s) == sessions[s].status \in Undecided

\* Covered by the unique index on a player's effective session.
Holds(s) == sessions[s].status \in Holding

\* getCurrentEffective, at the time the request read before its transaction.
Effective(r, s) ==
  Holds(s) /\ (sessions[s].expiresAt # Null => sessions[s].expiresAt > request[r].at)

Fresh(s) ==
  /\ sessions[s].status = "absent"
  /\ \A q \in Attempts : q < s => sessions[q].status # "absent"

Known(r) == \E s \in Attempts : Repeats(r, s) \/ Effective(r, s)

\* The session the request answers with: its own before the player's.
Answers(r, s) ==
  \/ Repeats(r, s)
  \/ Effective(r, s) /\ \A q \in Attempts : ~Repeats(r, q)

StillVerified == profile.status = "verified" /\ ~Lapsed

RepliesFailed(r) ==
  \E s \in Attempts : Repeats(r, s) /\ sessions[s].status = "creation_failed"

\* A verified player, or an elapsed session nobody has expired yet, which
\* still holds the unique index: the transaction rolls back.
RefuseStart(r) ==
  /\ request[r].stage = "checked"
  /\ \/ StillVerified /\ ~RepliesFailed(r)
     \/ ~Known(r) /\ \E s \in Attempts : Holds(s)
  /\ Finish(r)
  /\ UNCHANGED <<now, rows, filed, outside, delivery, decision>>

ReuseSession(r) ==
  /\ request[r].stage = "checked"
  /\ StillVerified => RepliesFailed(r)
  /\ \E s \in Attempts :
       /\ Answers(r, s)
       /\ IF sessions[s].status = "creating"
          THEN request' = [request EXCEPT ![r].stage = "calling", ![r].session = s]
          ELSE Finish(r)
  /\ LapseIfDue
  /\ UNCHANGED <<now, sessions, filed, outside, delivery, decision>>

CreateIntent(r) ==
  /\ request[r].stage = "checked"
  /\ ~StillVerified
  /\ ~Known(r)
  /\ ~\E s \in Attempts : Holds(s)
  /\ \E s \in Attempts :
       /\ Fresh(s)
       /\ sessions' = [sessions EXCEPT ![s].status = "creating",
                                       ![s].key = request[r].key,
                                       ![s].startedAt = request[r].at]
       /\ request' = [request EXCEPT ![r].stage = "calling", ![r].session = s]
  /\ LapseIfDue
  /\ UNCHANGED <<now, filed, outside, delivery, decision>>

\* The provider answers a repeated call with the session it opened first.
CreateVerificationSession(r) ==
  /\ request[r].stage = "calling"
  /\ LET s == request[r].session
         expiresAt == IF s \in DOMAIN hosted THEN hosted[s] ELSE now + SessionTtl
     IN /\ hosted' = [q \in DOMAIN hosted \cup {s} |-> IF q = s THEN expiresAt ELSE hosted[q]]
        /\ request' = [request EXCEPT ![r].stage = "opened", ![r].expiresAt = expiresAt]
  /\ UNCHANGED <<now, rows, filed, issued, delivery, decision>>

\* An error, or an answer that never arrives: the provider's side may be open.
ProviderFails(r) ==
  /\ request[r].stage \in {"calling", "opened"}
  /\ request' = [request EXCEPT ![r].stage = "refused"]
  /\ UNCHANGED <<now, rows, filed, outside, delivery, decision>>

MarkProviderFailure(r) ==
  /\ request[r].stage = "refused"
  /\ LET s == request[r].session
     IN sessions' = IF sessions[s].status = "creating"
                    THEN [sessions EXCEPT ![s].status = "creation_failed"] ELSE sessions
  /\ Finish(r)
  /\ UNCHANGED <<now, profile, reviews, transitions, filed, outside, delivery, decision>>

\* Mutant: the session is activated whatever became of it meanwhile.
ActivateAlways(r) ==
  LET s == request[r].session
  IN /\ sessions' = [sessions EXCEPT ![s].status = "pending",
                                     ![s].expiresAt = request[r].expiresAt]
     /\ IF profile.status = "pending" THEN UNCHANGED <<profile, transitions, reviews>>
        ELSE Move("pending", s, profile.verifiedAt, Null, Null, Null)

Activated(r) ==
  LET s == request[r].session
  IN IF sessions[s].status = "creating"
     THEN /\ sessions' = [sessions EXCEPT ![s].status = "pending",
                                          ![s].expiresAt = request[r].expiresAt]
          /\ Move("pending", s, profile.verifiedAt, Null, Null, Null)
     ELSE UNCHANGED rows

Activate(r) ==
  /\ request[r].stage = "opened"
  /\ Activated(r)
  /\ Finish(r)
  /\ UNCHANGED <<now, filed, outside, delivery, decision>>

\* The API instance stops, or the client goes away, between two steps.
CrashRequest(r) ==
  /\ request[r].stage \notin {"idle", "done"}
  /\ Finish(r)
  /\ UNCHANGED <<now, rows, filed, outside, delivery, decision>>

-----------------------------------------------------------------------------
(* The provider, and the development page that stands in for it.           *)

Emit(e) ==
  /\ e \in issued \/ Cardinality(issued) < MaxEvents
  /\ issued' = issued \cup {e}

\* A provider's clock may run ahead, and it may report before the API knows
\* the session.
ProviderReports ==
  /\ \E s \in DOMAIN hosted, result \in Result, at \in now .. now + MaxAhead, other \in Claims :
       /\ [session |-> s, result |-> result, at |-> at, other |-> other] \notin issued
       /\ Emit([session |-> s, result |-> result, at |-> at, other |-> other])
  /\ UNCHANGED <<now, rows, filed, hosted, request, delivery, decision>>

Receive(h) ==
  /\ delivery[h] = Null
  /\ \E e \in issued : delivery' = [delivery EXCEPT ![h] = [event |-> e, at |-> now]]
  /\ UNCHANGED <<now, rows, filed, outside, request, decision>>

\* MockHostedKycService checks what it reads without a lock, then sends.
SubmitOutcome(h) ==
  /\ delivery[h] = Null
  /\ \E s \in Attempts, result \in {"verified", "failed"} :
       LET e == [session |-> s, result |-> result, at |-> now, other |-> FALSE]
       IN /\ profile.current = s
          /\ profile.status = "pending"
          /\ sessions[s].status = "pending"
          /\ sessions[s].expiresAt > now
          /\ Emit(e)
          /\ delivery' = [delivery EXCEPT ![h] = [event |-> e, at |-> now]]
  /\ UNCHANGED <<now, rows, filed, hosted, request, decision>>

LoseDelivery(h) ==
  /\ delivery[h] # Null
  /\ delivery' = [delivery EXCEPT ![h] = Null]
  /\ UNCHANGED <<now, rows, filed, outside, request, decision>>

-----------------------------------------------------------------------------
(* ProcessKycProviderEventService: at is the receipt time, read before the *)
(* event is inserted and the session and profile are locked.               *)

\* Mutant: a delivery is not compared with the events on record.
InsertAgain(h) == delivery[h] # Null /\ StillOpen(delivery[h].at)

\* insert ... ON CONFLICT DO NOTHING returned a row.
Insert(h) ==
  /\ delivery[h] # Null
  /\ StillOpen(delivery[h].at)
  /\ delivery[h].event \notin DOMAIN filed

\* Mutant: the event's own result is stored as its processing status.
MarkResult(h, d) ==
  LET e == delivery[h].event
  IN /\ filed' = [f \in DOMAIN filed \cup {e} |-> IF f = e THEN e.result ELSE filed[f]]
     /\ delivery' = [delivery EXCEPT ![h] = Null]

Mark(h, d) ==
  LET e == delivery[h].event
  IN /\ filed' = [f \in DOMAIN filed \cup {e} |-> IF f = e THEN d ELSE filed[f]]
     /\ delivery' = [delivery EXCEPT ![h] = Null]

IgnoreDuplicate(h) ==
  /\ delivery[h] # Null
  /\ delivery[h].event \in DOMAIN filed
  /\ delivery' = [delivery EXCEPT ![h] = Null]
  /\ UNCHANGED <<now, rows, filed, outside, request, decision>>

TooFarAhead(e, at) == e.at > at + MaxSkew

Unknown(e) == sessions[e.session].expiresAt = Null

RejectEvent(h) ==
  /\ Insert(h)
  /\ LET e == delivery[h].event IN TooFarAhead(e, delivery[h].at) \/ Unknown(e)
  /\ Mark(h, "rejected")
  /\ UNCHANGED <<now, rows, outside, request, decision>>

Elapsed(s, at) == sessions[s].status \in Undecided /\ sessions[s].expiresAt <= at

\* Mutant: the processor does not look at the session's expiry.
NeverExpired(s, at) == sessions[s].status = "expired"

SessionExpired(s, at) == sessions[s].status = "expired" \/ Elapsed(s, at)

InScope(h) ==
  /\ Insert(h)
  /\ ~TooFarAhead(delivery[h].event, delivery[h].at)
  /\ ~Unknown(delivery[h].event)

\* Mutant: the session expires without its profile.
ExpireSessionOnly(s, at) ==
  /\ sessions' = IF Elapsed(s, at) THEN [sessions EXCEPT ![s].status = "expired"] ELSE sessions
  /\ UNCHANGED <<profile, transitions, reviews>>

Expire(s, at) ==
  /\ sessions' = IF Elapsed(s, at) THEN [sessions EXCEPT ![s].status = "expired"] ELSE sessions
  /\ IF profile.current = s /\ profile.status \in Undecided
     THEN Move("expired", s, profile.verifiedAt, sessions[s].expiresAt, Null, Null)
     ELSE UNCHANGED <<profile, transitions, reviews>>

IgnoreExpired(h) ==
  /\ InScope(h)
  /\ LET s == delivery[h].event.session
     IN SessionExpired(s, delivery[h].at) /\ Expire(s, delivery[h].at)
  /\ Mark(h, "ignored_expired")
  /\ UNCHANGED <<now, outside, request, decision>>

Current(h) == InScope(h) /\ ~SessionExpired(delivery[h].event.session, delivery[h].at)

RejectMismatch(h) ==
  /\ Current(h)
  /\ delivery[h].event.other
  /\ Mark(h, "rejected")
  /\ UNCHANGED <<now, rows, outside, request, decision>>

\* Mutant: provider time is not compared with the last accepted event.
StaleByState(e) ==
  LET s == e.session
  IN \/ profile.current # s
     \/ e.at < sessions[s].startedAt
     \/ sessions[s].status \in Decided
     \/ e.result = "pending" /\ sessions[s].status # "pending"

\* Mutant: a decided session takes a later result.
StaleByTime(e) ==
  LET s == e.session
  IN \/ profile.current # s
     \/ e.at < sessions[s].startedAt
     \/ sessions[s].lastEventAt # Null /\ e.at <= sessions[s].lastEventAt

IsStale(e) ==
  LET s == e.session
  IN \/ profile.current # s
     \/ e.at < sessions[s].startedAt
     \/ sessions[s].lastEventAt # Null /\ e.at <= sessions[s].lastEventAt
     \/ sessions[s].status \in Decided
     \/ e.result = "pending" /\ sessions[s].status # "pending"

Owned(h) == Current(h) /\ ~delivery[h].event.other

IgnoreStale(h) ==
  /\ Owned(h)
  /\ LET e == delivery[h].event
     IN IsStale(e) \/ (e.result # "pending" /\ ~CanTransition(e.result))
  /\ Mark(h, "ignored_stale")
  /\ UNCHANGED <<now, rows, outside, request, decision>>

\* GREATEST(COALESCE(last_event_at, at), at).
Later(s, at) ==
  IF sessions[s].lastEventAt # Null /\ sessions[s].lastEventAt > at
  THEN sessions[s].lastEventAt ELSE at

UpdateFromEvent(s, status, at) ==
  sessions' = [sessions EXCEPT ![s].status = status, ![s].lastEventAt = Later(s, at)]

NotePending(h) ==
  /\ Owned(h)
  /\ LET e == delivery[h].event
     IN /\ e.result = "pending"
        /\ ~IsStale(e)
        /\ UpdateFromEvent(e.session, "pending", e.at)
  /\ Mark(h, "processed")
  /\ UNCHANGED <<now, profile, reviews, transitions, outside, request, decision>>

ApplyResult(h) ==
  /\ Owned(h)
  /\ LET e == delivery[h].event
         at == delivery[h].at
     IN /\ e.result # "pending"
        /\ ~IsStale(e)
        /\ UpdateFromEvent(e.session, e.result, e.at)
        /\ Move(e.result, e.session,
                IF e.result = "verified" THEN at ELSE profile.verifiedAt,
                CASE e.result = "verified" -> at + VerificationTtl
                  [] e.result = "expired" -> at
                  [] OTHER -> Null,
                e, Null)
  /\ Mark(h, "processed")
  /\ UNCHANGED <<now, outside, request, decision>>

-----------------------------------------------------------------------------
(* KycManualReviewService.                                                 *)

Opened(status) == IF status = "assigned" THEN "assigned" ELSE "open"

OpenReview(i) ==
  /\ Active(i)
  /\ reviews' = [reviews EXCEPT ![i].status = Opened(@)]
  /\ UNCHANGED <<now, profile, sessions, transitions, filed, outside, request, delivery, decision>>

AssignReview(i) ==
  /\ Active(i)
  /\ reviews' = [reviews EXCEPT ![i].status = "assigned"]
  /\ UNCHANGED <<now, profile, sessions, transitions, filed, outside, request, delivery, decision>>

\* approve, reject and resume read the review without locking it.
ReadReview(a) ==
  /\ decision[a] = Null
  /\ \E i \in Reviews, outcome \in {"verified", "failed", "pending"} :
       /\ Active(i)
       /\ decision' = [decision EXCEPT ![a] = [review |-> i, outcome |-> outcome, at |-> now]]
  /\ UNCHANGED <<now, rows, filed, outside, request, delivery>>

Decidable(a) ==
  /\ decision[a] # Null
  /\ sessions[reviews[decision[a].review].session].status \in {"manual_review", "verified"}

Decide(a) ==
  /\ Decidable(a)
  /\ StillOpen(decision[a].at)
  /\ LET i == decision[a].review
         outcome == decision[a].outcome
         s == reviews[i].session
     IN /\ UpdateFromEvent(s, outcome, now)
        /\ Move(outcome, s,
                IF outcome = "verified" THEN now ELSE profile.verifiedAt,
                IF outcome = "verified" THEN now + VerificationTtl ELSE Null,
                Null, i)
  /\ decision' = [decision EXCEPT ![a] = Null]
  /\ UNCHANGED <<now, filed, outside, request, delivery>>

\* Refused, or rolled back by the transition or by the review it names, or
\* the administrator gives up.
DropDecision(a) ==
  /\ decision[a] # Null
  /\ decision' = [decision EXCEPT ![a] = Null]
  /\ UNCHANGED <<now, rows, filed, outside, request, delivery>>

-----------------------------------------------------------------------------
(* KycExpiryWorker: one batch of sessions, one of verified profiles.       *)

\* Mutant: a session parked for review does not expire.
DuePending(s) == Elapsed(s, now) /\ sessions[s].status = "pending"

Due(s) == Elapsed(s, now)

\* findExpiredVerified.
DueVerified == Lapsed

ExpireSession(s) ==
  /\ Due(s)
  /\ Expire(s, now)
  /\ UNCHANGED <<now, filed, outside, request, delivery, decision>>

\* Mutant: the worker looks for profiles by the expiry of their session.
ExpireWithSession ==
  /\ Lapsed
  /\ profile.current # 0 /\ sessions[profile.current].status = "expired"
  /\ Lapse
  /\ UNCHANGED <<now, sessions, filed, outside, request, delivery, decision>>

ExpireVerification ==
  /\ DueVerified
  /\ Lapse
  /\ UNCHANGED <<now, sessions, filed, outside, request, delivery, decision>>

FindNothingDue ==
  /\ ~DueVerified
  /\ \A s \in Attempts : ~Due(s)
  /\ UNCHANGED vars

-----------------------------------------------------------------------------
ServeRequest(r) ==
  \/ RefuseStart(r) \/ ReuseSession(r) \/ CreateIntent(r)
  \/ CreateVerificationSession(r) \/ ProviderFails(r)
  \/ MarkProviderFailure(r) \/ Activate(r)

ProcessEvent(h) ==
  \/ IgnoreDuplicate(h) \/ RejectEvent(h) \/ IgnoreExpired(h) \/ RejectMismatch(h)
  \/ IgnoreStale(h) \/ NotePending(h) \/ ApplyResult(h)

Next ==
  \/ Tick
  \/ ReadStatus
  \/ \E r \in Requests : CheckEligibility(r) \/ ServeRequest(r) \/ CrashRequest(r)
  \/ ProviderReports
  \/ \E h \in Handlers : Receive(h) \/ SubmitOutcome(h) \/ LoseDelivery(h) \/ ProcessEvent(h)
  \/ \E i \in Reviews : OpenReview(i) \/ AssignReview(i)
  \/ \E a \in Admins : ReadReview(a) \/ Decide(a) \/ DropDecision(a)
  \/ \E s \in Attempts : ExpireSession(s)
  \/ ExpireVerification
  \/ FindNothingDue

Spec == Init /\ [][Next]_vars

\* The expiry worker polls for ever and time passes.
FairSpec ==
  /\ Spec
  /\ WF_vars(Tick)
  /\ WF_vars(\E s \in Attempts : ExpireSession(s))
  /\ WF_vars(ExpireVerification)

-----------------------------------------------------------------------------
(* Properties.                                                             *)

Under(s) == sessions[s].status \in Undecided

\* Types of the rows, and of what requests, deliveries and administrators hold.
TypeOK ==
  /\ now \in Nat
  /\ profile \in Profile
  /\ sessions \in [Attempts -> Session]
  /\ reviews \in [Reviews -> Review]
  /\ transitions \in Seq(Transition)
  /\ DOMAIN filed \subseteq Event
  /\ \A e \in DOMAIN filed : filed[e] \in Disposition
  /\ DOMAIN hosted \subseteq Attempts
  /\ \A s \in DOMAIN hosted : hosted[s] \in Nat
  /\ issued \subseteq Event
  /\ request \in [Requests -> Request]
  /\ delivery \in [Handlers -> [event : Event, at : Nat] \cup {Null}]
  /\ decision \in [Admins -> [review : Reviews, outcome : KycStatus, at : Nat] \cup {Null}]

\* The profile says what its current session says, and a session that is not
\* the current one is not under way: whatever the order in which requests,
\* events, reviews and the worker commit (they lock session and profile).
ProfileFollowsSession ==
  /\ \A s \in Attempts : Under(s) => profile.current = s
  /\ profile.current # 0 =>
       LET status == sessions[profile.current].status
       IN \/ profile.status = status
          \/ profile.status = "expired" /\ status = "verified"

\* While an intent waits for the provider its activation is never refused by
\* the transition table: nothing makes the profile pending or verified
\* (StartKycVerificationService.ts:102-141).
ActivationNeverRefused ==
  (\E s \in Attempts : sessions[s].status = "creating") => CanTransition("pending")

\* A profile in manual review has exactly one active review, of its current
\* session, and no other profile has one (TransitionKycStatusService.ts:148-187).
ReviewWhileParked ==
  /\ profile.status = "manual_review" => \E i \in Reviews : Active(i)
  /\ \A i \in Reviews :
       Active(i) => /\ profile.status = "manual_review"
                    /\ reviews[i].session = profile.current
                    /\ \A j \in Reviews : Active(j) => j = i

\* The date constraint of player_kyc_profiles holds, so that no expiry batch
\* is rolled back by it, although an expiring session brings its own expiry
\* and the profile keeps the date of an earlier verification.
DatesConsistent ==
  profile.verifiedAt # Null /\ profile.expiresAt # Null => profile.expiresAt >= profile.verifiedAt

\* An event on record moved the profile once if it was applied and never if
\* it was not, however often it is delivered.
EachEventMovesOnce ==
  \A e \in issued :
    Cardinality({n \in DOMAIN transitions : transitions[n].event = e}) =
      IF e \in DOMAIN filed /\ filed[e] = "processed" /\ e.result # "pending" THEN 1 ELSE 0

\* The results of one session are applied in the provider's order.
ResultsInProviderOrder ==
  \A m, n \in DOMAIN transitions :
    (/\ m < n
     /\ transitions[m].event # Null /\ transitions[n].event # Null
     /\ transitions[m].session = transitions[n].session)
    => transitions[m].event.at < transitions[n].event.at

\* No event verifies a player on a session that had elapsed when the event
\* arrived, nor one dated further ahead than the skew allowed.
VerifiedInTime ==
  [][\A h \in Handlers :
       (delivery[h] # Null /\ profile.status # "verified" /\ profile'.status = "verified"
          /\ delivery'[h] = Null)
       => /\ sessions[delivery[h].event.session].expiresAt > delivery[h].at
          /\ delivery[h].event.at <= delivery[h].at + MaxSkew]_vars

\* What a session was decided to be it remains, and its expiry is never moved.
DecidedForGood ==
  [][\A s \in Attempts :
       /\ sessions[s].status \in Decided => sessions'[s].status = sessions[s].status
       /\ sessions[s].expiresAt # Null => sessions'[s].expiresAt = sessions[s].expiresAt]_vars

\* A decision closes the review the administrator read, with the outcome they
\* chose, even if the session was reviewed again since.
DecidesWhatWasRead ==
  [][\A a \in Admins :
       (decision[a] # Null /\ decision'[a] = Null /\ rows' # rows)
       => LET i == decision[a].review
          IN Active(i) /\ reviews'[i].outcome = decision[a].outcome]_vars

KycPromise == INSTANCE VerificationStatus WITH
                status <- profile.status, attempt <- profile.current

\* The profile implements VerificationStatus.
ImplementsVerificationStatus == KycPromise!Spec

\* The worker decides every session that nobody else does, resumed or not
\* (of those that elapse before the clock of the model stops).
SessionsSettle ==
  \A s \in Attempts :
    (Under(s) /\ sessions[s].expiresAt <= MaxTime) ~> sessions[s].status \in Decided

\* No verification outlives its term for ever.
VerificationsLapse ==
  (profile.status = "verified" /\ profile.expiresAt <= MaxTime) ~> profile.status # "verified"

\* docs/PHASE_3_5_KYC_LIFECYCLE_HARDENING.md:54: an event that names another
\* player cannot change a profile.
MismatchChangesNothing ==
  [][\A h \in Handlers :
       (delivery[h] # Null /\ delivery[h].event.other /\ delivery'[h] = Null)
       => profile' = profile]_vars
=============================================================================
