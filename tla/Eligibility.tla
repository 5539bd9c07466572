---------------------------- MODULE Eligibility ----------------------------
(***************************************************************************)
(* What one external identity may do: its player, provisioned by the first *)
(* request that bears the identity, the account status and the             *)
(* restrictions administrators set, and the decisions eligibility-policy-v1*)
(* derives from them and from the KYC status.                              *)
(*                                                                         *)
(* A request is a transaction that resolves the player, under an advisory  *)
(* lock on the identity, and one that evaluates: it reads the clock, then  *)
(* the restrictions, then the KYC status, each at an instant of its own.   *)
(* The KYC lifecycle appears by what VerificationStatus promises.          *)
(***************************************************************************)
EXTENDS Naturals

CONSTANTS
  Requests,         \* requests that bear the identity
  Restrictions,     \* rows of player_restrictions
  AddedTypes,       \* the restriction types administrators use
  Null,             \* SQL NULL
  VerificationTtl,  \* KYC_VERIFICATION_TTL_DAYS
  MaxAttempts,      \* bound on verification attempts
  MaxTime           \* bound on the clock

RestrictionType ==
  {"wagering_blocked", "deposits_blocked", "withdrawals_blocked", "security_review",
   "manual_review", "self_exclusion", "jurisdiction_blocked", "kyc_required"}

ASSUME EligibilityAssumption ==
  /\ AddedTypes \subseteq RestrictionType
  /\ Null \notin Nat \cup Requests
  /\ VerificationTtl \in Nat \ {0}
  /\ MaxAttempts \in Nat
  /\ MaxTime \in Nat

VARIABLES
  now,           \* the clock
  lock,          \* the request that holds the advisory lock on the identity
  account,       \* account_status of the players row, and since when
  restrictions,  \* player_restrictions
  kyc,           \* the KYC profile, as VerificationStatus has it, and its expiry
  request        \* the requests

player == <<account, restrictions, kyc>>
vars == <<now, lock, player, request>>

AccountStatus == {"restricted", "active", "suspended", "closed"}
KycStatus == {"not_started", "pending", "verified", "failed", "manual_review", "expired"}
Blocks ==
  [deposit     |-> {"deposits_blocked", "jurisdiction_blocked", "kyc_required"},
   withdraw    |-> {"withdrawals_blocked", "kyc_required"},
   place_wager |-> {"wagering_blocked", "self_exclusion", "jurisdiction_blocked",
                    "security_review", "kyc_required"}]
FinancialOperation == DOMAIN Blocks
Operation == {"view_races", "start_kyc", "manage_profile"} \cup FinancialOperation

Account == [status : AccountStatus, since : Nat]
Restriction == [status  : {"absent", "active", "removed", "expired"},
                type    : RestrictionType,
                addedAt : Nat,
                from    : Nat,                   \* starts_at
                until   : Nat \cup {Null}]       \* ends_at
Kyc == [status : KycStatus, attempt : Nat, expiresAt : Nat \cup {Null}]
Request == [stage   : {"idle", "waiting", "locked", "new", "known",
                       "resolved", "evaluating", "listed", "done"},
            at      : Nat,                       \* when it arrived
            account : AccountStatus,             \* of the player it resolved
            asOf    : Nat,                       \* evaluatedAt
            types   : SUBSET RestrictionType,    \* in force at evaluatedAt
            allowed : SUBSET Operation]          \* what it was allowed

ASSUME NullAssumption == Null \notin Account

NewRequest == [stage |-> "idle", at |-> 0, account |-> "restricted",
               asOf |-> 0, types |-> {}, allowed |-> {}]

Init ==
  /\ now = 0
  /\ lock = Null
  /\ account = Null
  /\ restrictions = [i \in Restrictions |->
                       [status |-> "absent", type |-> "kyc_required",
                        addedAt |-> 0, from |-> 0, until |-> Null]]
  /\ kyc = [status |-> "not_started", attempt |-> 0, expiresAt |-> Null]
  /\ request = [r \in Requests |-> NewRequest]

Tick ==
  /\ now < MaxTime
  /\ now' = now + 1
  /\ UNCHANGED <<lock, player, request>>

-----------------------------------------------------------------------------
(* ResolveOrCreatePlayerService.                                           *)

Stage(r, from, to) == request[r].stage = from /\ request' = [request EXCEPT ![r].stage = to]

Arrive(r) ==
  /\ request[r].stage = "idle"
  /\ request' = [request EXCEPT ![r].stage = "waiting", ![r].at = now]
  /\ UNCHANGED <<now, lock, player>>

\* Mutant: the lock is not waited for.
LockAnyway(r) == Stage(r, "waiting", "locked") /\ lock' = r /\ UNCHANGED <<now, player>>

\* pg_advisory_xact_lock.
LockIdentity(r) ==
  /\ lock = Null
  /\ lock' = r
  /\ Stage(r, "waiting", "locked")
  /\ UNCHANGED <<now, player>>

\* findByExternalIdentity.
FindIdentity(r) ==
  /\ Stage(r, "locked", IF account = Null THEN "new" ELSE "known")
  /\ UNCHANGED <<now, lock, player>>

Release(r) == lock' = IF lock = r THEN Null ELSE lock

\* Player and identity are inserted together; the identity is unique, so that
\* a second insert would roll the transaction back.
Provision(r) ==
  /\ account = Null
  /\ account' = [status |-> "restricted", since |-> now]
  /\ request[r].stage = "new"
  /\ request' = [request EXCEPT ![r].stage = "resolved", ![r].account = "restricted"]
  /\ Release(r)
  /\ UNCHANGED <<now, restrictions, kyc>>

UpdateProfile(r) ==
  /\ request[r].stage = "known"
  /\ request' = [request EXCEPT ![r].stage = "resolved", ![r].account = account.status]
  /\ Release(r)
  /\ UNCHANGED <<now, player>>

\* The instance stops: the database rolls back what it had not committed.
Stop(r) ==
  /\ request[r].stage \notin {"idle", "done"}
  /\ request' = [request EXCEPT ![r] = [NewRequest EXCEPT !.stage = "done"]]
  /\ Release(r)
  /\ UNCHANGED <<now, player>>

-----------------------------------------------------------------------------
(* ChangeAccountStatusService and PlayerRestrictionService.                *)

AllowedTransitions ==
  [restricted |-> {"active", "suspended", "closed"},
   active     |-> {"restricted", "suspended", "closed"},
   suspended  |-> {"restricted", "active", "closed"},
   closed     |-> {}]

ChangeAccountStatus ==
  /\ account # Null
  /\ \E to \in AllowedTransitions[account.status] :
       account' = [status |-> to, since |-> now]
  /\ UNCHANGED <<now, lock, restrictions, kyc, request>>

\* Mutant: a restriction may end before it starts.
AnyPeriod(from, until) == TRUE

Period(from, until) == until # Null => until > from

AddRestriction(i) ==
  /\ account # Null
  /\ restrictions[i].status = "absent"
  /\ \E t \in AddedTypes, from \in 0..MaxTime, until \in (0..MaxTime + 1) \cup {Null} :
       /\ Period(from, until)
       /\ restrictions' = [restrictions EXCEPT
            ![i] = [status |-> "active", type |-> t, addedAt |-> now,
                    from |-> from, until |-> until]]
  /\ UNCHANGED <<now, lock, account, kyc, request>>

RemoveRestriction(i) ==
  /\ restrictions[i].status = "active"
  /\ restrictions' = [restrictions EXCEPT ![i].status = "removed"]
  /\ UNCHANGED <<now, lock, account, kyc, request>>

Ended(i, at) == restrictions[i].until # Null /\ restrictions[i].until <= at

\* findExpiredActive.
DueToExpire(i, at) == restrictions[i].status = "active" /\ Ended(i, at)

ExpireRestriction(i) ==
  /\ DueToExpire(i, now)
  /\ restrictions' = [restrictions EXCEPT ![i].status = "expired"]
  /\ UNCHANGED <<now, lock, account, kyc, request>>

\* The clock is read before the transaction starts.
ExpireDueRestrictions ==
  /\ \E at \in 0..now :
       /\ \E i \in Restrictions : DueToExpire(i, at)
       /\ restrictions' = [i \in Restrictions |->
                             IF DueToExpire(i, at)
                             THEN [restrictions[i] EXCEPT !.status = "expired"]
                             ELSE restrictions[i]]
  /\ UNCHANGED <<now, lock, account, kyc, request>>

-----------------------------------------------------------------------------
(* The KYC lifecycle, and PostgresKycStatusReader.                         *)

Becomes(status, attempt, expiresAt) ==
  kyc' = [status |-> status, attempt |-> attempt, expiresAt |-> expiresAt]

KycMoves ==
  /\ account # Null
  /\ \/ /\ kyc.status \in {"not_started", "failed", "expired"}
        /\ kyc.attempt < MaxAttempts
        /\ Becomes("pending", kyc.attempt + 1, Null)
     \/ kyc.status = "pending" /\ Becomes("manual_review", kyc.attempt, Null)
     \/ kyc.status = "manual_review" /\ Becomes("pending", kyc.attempt, Null)
     \/ /\ kyc.status \in {"pending", "manual_review"}
        /\ \/ Becomes("verified", kyc.attempt, now + VerificationTtl)
           \/ Becomes("failed", kyc.attempt, Null)
           \/ Becomes("expired", kyc.attempt, now)
  /\ UNCHANGED <<now, lock, account, restrictions, request>>

Lapsed == kyc.status = "verified" /\ kyc.expiresAt # Null /\ kyc.expiresAt <= now

Lapse == Becomes("expired", kyc.attempt, kyc.expiresAt)

\* KycExpiryWorker, or another read.
KycLapses ==
  /\ Lapsed
  /\ Lapse
  /\ UNCHANGED <<now, lock, account, restrictions, request>>

\* Mutant: an approval is taken as stored.
StoredStatus == kyc.status

StatusForPlayer == IF Lapsed THEN "expired" ELSE kyc.status

-----------------------------------------------------------------------------
(* EvaluateEligibilityService.                                             *)

\* evaluateEligibilityPolicy, for all six operations.
Policy(status, kycStatus, types) ==
  {"manage_profile"}
  \cup {op \in {"view_races", "start_kyc"} : status # "closed"}
  \cup {op \in FinancialOperation :
          /\ status = "active" /\ kycStatus = "verified"
          /\ Blocks[op] \cap types = {}}

BeginEvaluation(r) ==
  /\ request[r].stage = "resolved"
  /\ request' = [request EXCEPT ![r].stage = "evaluating", ![r].asOf = now]
  /\ UNCHANGED <<now, lock, player>>

\* listActiveAt.
InForce(i, at) ==
  /\ restrictions[i].status = "active"
  /\ restrictions[i].from <= at
  /\ ~Ended(i, at)

ListRestrictions(r) ==
  /\ request[r].stage = "evaluating"
  /\ request' = [request EXCEPT
       ![r].stage = "listed",
       ![r].types = {restrictions[i].type : i \in {j \in Restrictions : InForce(j, request[r].asOf)}}]
  /\ UNCHANGED <<now, lock, player>>

\* A lapsed approval is expired on the way, in the same transaction.
Decide(r) ==
  /\ request[r].stage = "listed"
  /\ request' = [request EXCEPT ![r] =
       [NewRequest EXCEPT !.stage = "done",
          !.allowed = Policy(request[r].account, StatusForPlayer, request[r].types)]]
  /\ IF Lapsed THEN Lapse ELSE UNCHANGED kyc
  /\ UNCHANGED <<now, lock, account, restrictions>>

-----------------------------------------------------------------------------
Serve(r) ==
  \/ LockIdentity(r) \/ FindIdentity(r) \/ Provision(r) \/ UpdateProfile(r)
  \/ BeginEvaluation(r) \/ ListRestrictions(r) \/ Decide(r)

Next ==
  \/ Tick
  \/ \E r \in Requests : Arrive(r) \/ Serve(r) \/ Stop(r)
  \/ ChangeAccountStatus
  \/ \E i \in Restrictions : AddRestriction(i) \/ RemoveRestriction(i) \/ ExpireRestriction(i)
  \/ ExpireDueRestrictions
  \/ KycMoves
  \/ KycLapses

Spec == Init /\ [][Next]_vars

-----------------------------------------------------------------------------
(* Properties.                                                             *)

\* Types of the rows and of what a request holds; a restriction that ends
\* does so after it starts.
TypeOK ==
  /\ now \in Nat
  /\ lock \in Requests \cup {Null}
  /\ account \in Account \cup {Null}
  /\ restrictions \in [Restrictions -> Restriction]
  /\ \A i \in Restrictions : restrictions[i].until \notin 0..restrictions[i].from
  /\ kyc \in Kyc
  /\ request \in [Requests -> Request]

\* A request that found no player, and is about to insert one, finds none there
\* when it does: no request of an identity is refused because another
\* provisioned it (ResolveOrCreatePlayerService.ts:36-87).
ProvisionNeverRefused == \A r \in Requests : request[r].stage = "new" => account = Null

\* In force when the request arrived, on record before that, and still so.
Standing(i, r) ==
  /\ restrictions[i].addedAt < request[r].at
  /\ InForce(i, request[r].at)
  /\ InForce(i, now)

\* A decision allows a financial operation only on a verification that has not
\* elapsed, and only if nothing that was on record when its request arrived,
\* and still is, forbids it: neither the account status nor a restriction.
\* Each input is read at an instant of its own, the account first.
NothingStandingIsOverlooked ==
  [][\A r \in Requests :
       (request[r].stage = "listed" /\ request'[r].stage = "done")
       => \A op \in request'[r].allowed \cap FinancialOperation :
            /\ kyc.status = "verified" /\ kyc.expiresAt > now
            /\ account.status = "active" \/ account.since >= request[r].at
            /\ \A i \in Restrictions : Standing(i, r) => restrictions[i].type \notin Blocks[op]]_vars
=============================================================================
