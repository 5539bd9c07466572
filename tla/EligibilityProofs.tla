------------------------- MODULE EligibilityProofs -------------------------
(***************************************************************************)
(* Theorems about Eligibility.  The inductive invariant says who holds the *)
(* advisory lock, what a request still knows of the account it resolved,   *)
(* in which order its dates are, and what its list of restrictions cannot  *)
(* have missed.                                                            *)
(***************************************************************************)
EXTENDS Eligibility, TLAPS

Holding == {"locked", "new", "known"}
Resolved == {"resolved", "evaluating", "listed"}

\* Only the request that holds the advisory lock is between finding the
\* identity and committing, and what it found is still so.
Locking ==
  \A r \in Requests :
    /\ request[r].stage \in Holding => lock = r
    /\ request[r].stage = "new" => account = Null
    /\ request[r].stage \in Resolved \cup {"known"} => account # Null

\* The dates of a request are in order.
Dated ==
  \A r \in Requests :
    /\ request[r].at <= now
    /\ request[r].stage \in {"evaluating", "listed"} =>
         request[r].at <= request[r].asOf /\ request[r].asOf <= now

\* A resolved account status is the player's, unless it changed since the
\* request arrived.
AccountKnown ==
  \A r \in Requests :
    request[r].stage \in Resolved =>
      account.status = request[r].account \/ account.since >= request[r].at

\* What was on record before the request, is active and covers the instant of
\* the evaluation is on the list.
ListComplete ==
  \A r \in Requests :
    request[r].stage = "listed" =>
      \A i \in Restrictions :
        (restrictions[i].addedAt < request[r].at /\ InForce(i, request[r].asOf))
          => restrictions[i].type \in request[r].types

\* A verification has an expiry.
VerifiedExpires == kyc.status = "verified" => kyc.expiresAt # Null

IInv == TypeOK /\ Locking /\ Dated /\ AccountKnown /\ ListComplete /\ VerifiedExpires

-----------------------------------------------------------------------------
(* Type correctness.                                                       *)

\* The initial state has the right types.
LEMMA EligibilityTypesInitially == Init => TypeOK
  BY EligibilityAssumption, SMTT(30)
  DEF Init, TypeOK, Restriction, Kyc, KycStatus, Request, NewRequest, RestrictionType,
      AccountStatus, Operation

\* Each action preserves the types; the lock tells that a known player exists.
LEMMA EligibilityTypesKept == TypeOK /\ Locking /\ [Next]_vars => TypeOK'
<1> SUFFICES ASSUME TypeOK, Locking, [Next]_vars PROVE TypeOK'
  OBVIOUS
<1> USE EligibilityAssumption
<1>1. CASE Tick
  BY <1>1 DEF Tick, TypeOK, player, Restriction
<1>2. ASSUME NEW r \in Requests, Arrive(r) PROVE TypeOK'
  BY <1>2 DEF Arrive, TypeOK, player, Request
<1>3. ASSUME NEW r \in Requests, Serve(r) PROVE TypeOK'
  <2>1. CASE LockIdentity(r)
    BY <2>1 DEF LockIdentity, Stage, TypeOK, player, Request
  <2>2. CASE FindIdentity(r)
    BY <2>2 DEF FindIdentity, Stage, TypeOK, player, Request
  <2>3. CASE Provision(r)
    <3>1. account' \in Account
      BY <2>3 DEF Provision, TypeOK, Account, AccountStatus
    <3>2. request' \in [Requests -> Request]
      <4>1. request \in [Requests -> Request]
        BY DEF TypeOK
      <4>2. [request[r] EXCEPT !.stage = "resolved", !.account = "restricted"] \in Request
        BY <4>1 DEF Request, AccountStatus
      <4> QED
        BY <2>3, <4>1, <4>2 DEF Provision
    <3> QED
      BY <2>3, <3>1, <3>2 DEF Provision, Release, TypeOK
  <2>4. CASE UpdateProfile(r)
    <3>1. account \in Account
      BY <2>4 DEF UpdateProfile, TypeOK, Locking
    <3> QED
      BY <2>4, <3>1 DEF UpdateProfile, Release, TypeOK, player, Request, Account
  <2>5. CASE BeginEvaluation(r)
    BY <2>5 DEF BeginEvaluation, TypeOK, player, Request
  <2>6. CASE ListRestrictions(r)
    <3>1. {restrictions[i].type : i \in {j \in Restrictions : InForce(j, request[r].asOf)}}
            \subseteq RestrictionType
      BY DEF TypeOK, Restriction
    <3> QED
      BY <2>6, <3>1 DEF ListRestrictions, TypeOK, player, Request
  <2>7. CASE Decide(r)
    <3>1. Policy(request[r].account, StatusForPlayer, request[r].types) \subseteq Operation
      BY DEF Policy, Operation
    <3>2. request' \in [Requests -> Request]
      BY <2>7, <3>1 DEF Decide, TypeOK, Request, NewRequest, AccountStatus, RestrictionType
    <3>3. kyc' \in Kyc
      BY <2>7 DEF Decide, TypeOK, Lapse, Becomes, Kyc, KycStatus
    <3> QED
      BY <2>7, <3>2, <3>3 DEF Decide, TypeOK
  <2> QED
    BY <1>3, <2>1, <2>2, <2>3, <2>4, <2>5, <2>6, <2>7 DEF Serve
<1>4. ASSUME NEW r \in Requests, Stop(r) PROVE TypeOK'
  BY <1>4 DEF Stop, Release, TypeOK, player, Request, NewRequest, AccountStatus, RestrictionType, Operation
<1>5. CASE ChangeAccountStatus
  <2>1. PICK to \in AllowedTransitions[account.status] : account' = [status |-> to, since |-> now]
    BY <1>5 DEF ChangeAccountStatus
  <2>2. to \in AccountStatus
    BY <1>5, <2>1 DEF ChangeAccountStatus, AllowedTransitions, AccountStatus, TypeOK, Account
  <2> QED
    BY <1>5, <2>1, <2>2 DEF ChangeAccountStatus, TypeOK, Account
<1>6. ASSUME NEW i \in Restrictions, AddRestriction(i) PROVE TypeOK'
  <2>1. PICK t \in AddedTypes, from \in 0..MaxTime, until \in (0..MaxTime + 1) \cup {Null} :
          /\ Period(from, until)
          /\ restrictions' = [restrictions EXCEPT
               ![i] = [status |-> "active", type |-> t, addedAt |-> now,
                       from |-> from, until |-> until]]
    BY <1>6 DEF AddRestriction
  <2>2. until \notin 0..from
    BY <2>1 DEF Period
  <2>3. t \in RestrictionType /\ from \in Nat /\ until \in Nat \cup {Null}
    BY <2>1
  <2> QED
    BY <1>6, <2>1, <2>2, <2>3 DEF AddRestriction, TypeOK, Restriction
<1>7. ASSUME NEW i \in Restrictions, RemoveRestriction(i) \/ ExpireRestriction(i) PROVE TypeOK'
  BY <1>7 DEF RemoveRestriction, ExpireRestriction, TypeOK, Restriction
<1>8. CASE ExpireDueRestrictions
  <2>1. PICK at \in 0..now :
          restrictions' = [i \in Restrictions |->
                             IF DueToExpire(i, at)
                             THEN [restrictions[i] EXCEPT !.status = "expired"]
                             ELSE restrictions[i]]
    BY <1>8 DEF ExpireDueRestrictions
  <2> QED
    BY <1>8, <2>1 DEF ExpireDueRestrictions, TypeOK, Restriction
<1>9. CASE KycMoves \/ KycLapses
  BY <1>9 DEF KycMoves, KycLapses, Lapse, Becomes, TypeOK, Kyc, KycStatus
<1>10. CASE UNCHANGED vars
  BY <1>10 DEF vars, player, TypeOK
<1> QED
  BY <1>1, <1>2, <1>3, <1>4, <1>5, <1>6, <1>7, <1>8, <1>9, <1>10 DEF Next

-----------------------------------------------------------------------------
(* What a step of r does to r, and that it leaves the other requests alone.*)

Alone(r) == \A q \in Requests \ {r} : request'[q] = request[q]

\* A request arrives: its date is the clock's (requireEligibility).
LEMMA ArriveStep ==
  ASSUME TypeOK, NEW r \in Requests, Arrive(r)
  PROVE  /\ Alone(r)
         /\ request'[r].stage = "waiting"
         /\ request'[r].at = now
         /\ UNCHANGED <<lock, account, now, restrictions>>
<1>1. request \in [Requests -> Request]
  BY DEF TypeOK
<1> QED
  BY <1>1 DEF Arrive, Alone, Request, player

\* Taking the advisory lock changes nothing else.
LEMMA LockIdentityStep ==
  ASSUME TypeOK, NEW r \in Requests, LockIdentity(r)
  PROVE  /\ Alone(r)
         /\ request'[r].stage = "locked"
         /\ request'[r].at = request[r].at
         /\ lock' = r
         /\ lock = Null
         /\ UNCHANGED <<account, now, restrictions>>
<1>1. request \in [Requests -> Request]
  BY DEF TypeOK
<1> QED
  BY <1>1 DEF LockIdentity, Alone, Request, player, Stage

\* The lookup tells a new identity from a known one.
LEMMA FindIdentityStep ==
  ASSUME TypeOK, NEW r \in Requests, FindIdentity(r)
  PROVE  /\ Alone(r)
         /\ request'[r].stage = (IF account = Null THEN "new" ELSE "known")
         /\ request'[r].at = request[r].at
         /\ request[r].stage = "locked"
         /\ UNCHANGED <<lock, account, now, restrictions>>
<1>1. request \in [Requests -> Request]
  BY DEF TypeOK
<1> QED
  BY <1>1 DEF FindIdentity, Alone, Request, player, Stage

\* A new identity gets a restricted player, and the lock is released.
LEMMA ProvisionStep ==
  ASSUME TypeOK, NEW r \in Requests, Provision(r)
  PROVE  /\ Alone(r)
         /\ request'[r].stage = "resolved"
         /\ request'[r].account = "restricted"
         /\ request'[r].at = request[r].at
         /\ request[r].stage = "new"
         /\ lock' = (IF lock = r THEN Null ELSE lock)
         /\ account' = [status |-> "restricted", since |-> now]
         /\ account = Null
         /\ UNCHANGED <<now, restrictions>>
<1>1. request \in [Requests -> Request]
  BY DEF TypeOK
<1> QED
  BY <1>1 DEF Provision, Alone, Request, player, Release

\* A known identity resolves to the account as it is now.
LEMMA UpdateProfileStep ==
  ASSUME TypeOK, NEW r \in Requests, UpdateProfile(r)
  PROVE  /\ Alone(r)
         /\ request'[r].stage = "resolved"
         /\ request'[r].account = account.status
         /\ request'[r].at = request[r].at
         /\ request[r].stage = "known"
         /\ lock' = (IF lock = r THEN Null ELSE lock)
         /\ UNCHANGED <<account, now, restrictions>>
<1>1. request \in [Requests -> Request]
  BY DEF TypeOK
<1> QED
  BY <1>1 DEF UpdateProfile, Alone, Request, player, Release

\* An evaluation starts with a reading of the clock.
LEMMA BeginEvaluationStep ==
  ASSUME TypeOK, NEW r \in Requests, BeginEvaluation(r)
  PROVE  /\ Alone(r)
         /\ request'[r].stage = "evaluating"
         /\ request'[r].asOf = now
         /\ request'[r].at = request[r].at
         /\ request'[r].account = request[r].account
         /\ request[r].stage = "resolved"
         /\ UNCHANGED <<lock, account, now, restrictions>>
<1>1. request \in [Requests -> Request]
  BY DEF TypeOK
<1> QED
  BY <1>1 DEF BeginEvaluation, Alone, Request, player

\* The list holds the types in force at that reading.
LEMMA ListRestrictionsStep ==
  ASSUME TypeOK, NEW r \in Requests, ListRestrictions(r)
  PROVE  /\ Alone(r)
         /\ request'[r].stage = "listed"
         /\ request'[r].types = {restrictions[i].type : i \in {j \in Restrictions : InForce(j, request[r].asOf)}}
         /\ request'[r].at = request[r].at
         /\ request'[r].account = request[r].account
         /\ request'[r].asOf = request[r].asOf
         /\ request[r].stage = "evaluating"
         /\ UNCHANGED <<lock, account, now, restrictions>>
<1>1. request \in [Requests -> Request]
  BY DEF TypeOK
<1> QED
  BY <1>1 DEF ListRestrictions, Alone, Request, player

\* A decision ends the request.
LEMMA DecideStep ==
  ASSUME TypeOK, NEW r \in Requests, Decide(r)
  PROVE  /\ Alone(r)
         /\ request'[r].stage = "done"
         /\ request'[r].at = 0
         /\ request[r].stage = "listed"
         /\ UNCHANGED <<lock, account, now, restrictions>>
<1>1. request \in [Requests -> Request]
  BY DEF TypeOK
<1> QED
  BY <1>1 DEF Decide, Alone, Request, player, NewRequest

\* So does a stop, which releases the lock.
LEMMA StopStep ==
  ASSUME TypeOK, NEW r \in Requests, Stop(r)
  PROVE  /\ Alone(r)
         /\ request'[r].stage = "done"
         /\ request'[r].at = 0
         /\ lock' = (IF lock = r THEN Null ELSE lock)
         /\ UNCHANGED <<account, now, restrictions>>
<1>1. request \in [Requests -> Request]
  BY DEF TypeOK
<1> QED
  BY <1>1 DEF Stop, Alone, Request, player, NewRequest, Release

-----------------------------------------------------------------------------
(* The parts of the inductive invariant.                                   *)

\* The lock is passed on only by the request that holds it.
LEMMA LockingKept == TypeOK /\ Locking /\ [Next]_vars => Locking'
<1> SUFFICES ASSUME TypeOK, Locking, [Next]_vars PROVE Locking'
  OBVIOUS
<1> USE EligibilityAssumption DEF Locking, Holding, Resolved, Alone
<1>1. ASSUME NEW r \in Requests, Arrive(r) PROVE Locking'
  BY <1>1, ArriveStep
<1>2. ASSUME NEW r \in Requests, Stop(r) PROVE Locking'
  BY <1>2, StopStep
<1>3. ASSUME NEW r \in Requests, Serve(r) PROVE Locking'
  <2>1. CASE LockIdentity(r)
    BY <2>1, LockIdentityStep
  <2>2. CASE FindIdentity(r)
    BY <2>2, FindIdentityStep
  <2>3. CASE Provision(r)
    <3>1. account' # Null
      BY <2>3, ProvisionStep, NullAssumption DEF TypeOK, Account, AccountStatus
    <3> QED
      BY <2>3, <3>1, ProvisionStep
  <2>4. CASE UpdateProfile(r)
    BY <2>4, UpdateProfileStep
  <2>5. CASE BeginEvaluation(r)
    BY <2>5, BeginEvaluationStep
  <2>6. CASE ListRestrictions(r)
    BY <2>6, ListRestrictionsStep
  <2>7. CASE Decide(r)
    BY <2>7, DecideStep
  <2> QED
    BY <1>3, <2>1, <2>2, <2>3, <2>4, <2>5, <2>6, <2>7 DEF Serve
<1>4. CASE ChangeAccountStatus
  <2>1. PICK to \in AllowedTransitions[account.status] : account' = [status |-> to, since |-> now]
    BY <1>4 DEF ChangeAccountStatus
  <2>2. to \in AccountStatus /\ now \in Nat
    BY <1>4, <2>1 DEF ChangeAccountStatus, AllowedTransitions, AccountStatus, TypeOK, Account
  <2>3. account # Null /\ account' # Null
    BY <1>4, <2>1, <2>2, NullAssumption DEF ChangeAccountStatus, Account
  <2> QED
    BY <1>4, <2>3 DEF ChangeAccountStatus
<1>5. CASE UNCHANGED <<lock, account, request>>
  BY <1>5
<1> QED
  BY <1>1, <1>2, <1>3, <1>4, <1>5
  DEF Next, Tick, AddRestriction, RemoveRestriction, ExpireRestriction, ExpireDueRestrictions,
      KycMoves, KycLapses, vars, player

\* The clock never goes back behind what a request has read of it.
LEMMA DatedKept == TypeOK /\ Dated /\ [Next]_vars => Dated'
<1> SUFFICES ASSUME TypeOK, Dated, [Next]_vars PROVE Dated'
  OBVIOUS
<1> USE DEF Dated, Alone
<1>0. now \in Nat /\ \A r \in Requests : request[r].at \in Nat /\ request[r].asOf \in Nat
  BY DEF TypeOK, Request
<1>1. CASE Tick
  BY <1>0, <1>1 DEF Tick
<1>2. ASSUME NEW r \in Requests, Arrive(r) PROVE Dated'
  BY <1>0, <1>2, ArriveStep
<1>3. ASSUME NEW r \in Requests, Stop(r) PROVE Dated'
  BY <1>0, <1>3, StopStep
<1>4. ASSUME NEW r \in Requests, Serve(r) PROVE Dated'
  <2>1. CASE LockIdentity(r)
    BY <1>0, <2>1, LockIdentityStep
  <2>2. CASE FindIdentity(r)
    BY <1>0, <2>2, FindIdentityStep
  <2>3. CASE Provision(r)
    BY <1>0, <2>3, ProvisionStep
  <2>4. CASE UpdateProfile(r)
    BY <1>0, <2>4, UpdateProfileStep
  <2>5. CASE BeginEvaluation(r)
    BY <1>0, <2>5, BeginEvaluationStep
  <2>6. CASE ListRestrictions(r)
    BY <1>0, <2>6, ListRestrictionsStep
  <2>7. CASE Decide(r)
    BY <1>0, <2>7, DecideStep
  <2> QED
    BY <1>4, <2>1, <2>2, <2>3, <2>4, <2>5, <2>6, <2>7 DEF Serve
<1>5. CASE UNCHANGED <<now, request>>
  BY <1>5
<1> QED
  BY <1>1, <1>2, <1>3, <1>4, <1>5
  DEF Next, ChangeAccountStatus, AddRestriction, RemoveRestriction, ExpireRestriction,
      ExpireDueRestrictions, KycMoves, KycLapses, vars, player

\* A change of the account is dated after the requests that precede it.
LEMMA AccountKnownKept ==
  TypeOK /\ Locking /\ Dated /\ AccountKnown /\ [Next]_vars => AccountKnown'
<1> SUFFICES ASSUME TypeOK, Locking, Dated, AccountKnown, [Next]_vars PROVE AccountKnown'
  OBVIOUS
<1> USE DEF AccountKnown, Resolved, Alone
<1>1. ASSUME NEW r \in Requests, Arrive(r) PROVE AccountKnown'
  BY <1>1, ArriveStep
<1>2. ASSUME NEW r \in Requests, Stop(r) PROVE AccountKnown'
  BY <1>2, StopStep
<1>3. ASSUME NEW r \in Requests, Serve(r) PROVE AccountKnown'
  <2>1. CASE LockIdentity(r)
    BY <2>1, LockIdentityStep
  <2>2. CASE FindIdentity(r)
    BY <2>2, FindIdentityStep
  <2>3. CASE Provision(r)
    BY <2>3, ProvisionStep DEF Locking
  <2>4. CASE UpdateProfile(r)
    BY <2>4, UpdateProfileStep
  <2>5. CASE BeginEvaluation(r)
    BY <2>5, BeginEvaluationStep
  <2>6. CASE ListRestrictions(r)
    BY <2>6, ListRestrictionsStep
  <2>7. CASE Decide(r)
    BY <2>7, DecideStep
  <2> QED
    BY <1>3, <2>1, <2>2, <2>3, <2>4, <2>5, <2>6, <2>7 DEF Serve
<1>4. CASE ChangeAccountStatus
  BY <1>4 DEF ChangeAccountStatus, Dated
<1>5. CASE UNCHANGED <<account, request>>
  BY <1>5
<1> QED
  BY <1>1, <1>2, <1>3, <1>4, <1>5
  DEF Next, Tick, AddRestriction, RemoveRestriction, ExpireRestriction, ExpireDueRestrictions,
      KycMoves, KycLapses, vars, player

\* A restriction added later is not older than the request, and one that
\* was removed or expired is not in force.
LEMMA ListCompleteKept ==
  TypeOK /\ Dated /\ ListComplete /\ [Next]_vars => ListComplete'
<1> SUFFICES ASSUME TypeOK, Dated, ListComplete, [Next]_vars PROVE ListComplete'
  OBVIOUS
<1> USE DEF ListComplete, Alone, InForce, Ended
<1>0. restrictions \in [Restrictions -> Restriction]
  BY DEF TypeOK
<1>1. ASSUME NEW r \in Requests, Arrive(r) PROVE ListComplete'
  BY <1>1, ArriveStep
<1>2. ASSUME NEW r \in Requests, Stop(r) PROVE ListComplete'
  BY <1>2, StopStep
<1>3. ASSUME NEW r \in Requests, Serve(r) PROVE ListComplete'
  <2>1. CASE LockIdentity(r)
    BY <2>1, LockIdentityStep
  <2>2. CASE FindIdentity(r)
    BY <2>2, FindIdentityStep
  <2>3. CASE Provision(r)
    BY <2>3, ProvisionStep
  <2>4. CASE UpdateProfile(r)
    BY <2>4, UpdateProfileStep
  <2>5. CASE BeginEvaluation(r)
    BY <2>5, BeginEvaluationStep
  <2>6. CASE ListRestrictions(r)
    BY <2>6, ListRestrictionsStep
  <2>7. CASE Decide(r)
    BY <2>7, DecideStep
  <2> QED
    BY <1>3, <2>1, <2>2, <2>3, <2>4, <2>5, <2>6, <2>7 DEF Serve
<1>4. ASSUME NEW i \in Restrictions, AddRestriction(i) PROVE ListComplete'
  <2>1. /\ restrictions'[i].addedAt = now
        /\ \A j \in Restrictions \ {i} : restrictions'[j] = restrictions[j]
        /\ request' = request
    BY <1>0, <1>4 DEF AddRestriction
  <2>2. \A r \in Requests : ~ now < request[r].at
    BY DEF Dated, TypeOK, Request
  <2> QED
    BY <2>1, <2>2
<1>5. ASSUME NEW i \in Restrictions, RemoveRestriction(i) \/ ExpireRestriction(i)
      PROVE ListComplete'
  <2>1. /\ restrictions'[i].status # "active"
        /\ \A j \in Restrictions \ {i} : restrictions'[j] = restrictions[j]
        /\ request' = request
    BY <1>0, <1>5 DEF RemoveRestriction, ExpireRestriction, Restriction
  <2> QED
    BY <2>1
<1>6. CASE ExpireDueRestrictions
  <2>1. /\ \A j \in Restrictions : restrictions'[j].status # "active" \/ restrictions'[j] = restrictions[j]
        /\ request' = request
    BY <1>0, <1>6 DEF ExpireDueRestrictions, Restriction
  <2> QED
    BY <2>1
<1>7. CASE UNCHANGED <<restrictions, request>>
  BY <1>7
<1> QED
  BY <1>1, <1>2, <1>3, <1>4, <1>5, <1>6, <1>7
  DEF Next, Tick, ChangeAccountStatus, KycMoves, KycLapses, vars, player

\* Every approval is given an expiry.
LEMMA VerifiedExpiresKept == TypeOK /\ VerifiedExpires /\ [Next]_vars => VerifiedExpires'
<1> SUFFICES ASSUME TypeOK, VerifiedExpires, [Next]_vars PROVE VerifiedExpires'
  OBVIOUS
<1> USE EligibilityAssumption DEF VerifiedExpires
<1>1. CASE KycMoves
  BY <1>1 DEF KycMoves, Becomes, TypeOK
<1>2. CASE KycLapses
  BY <1>2 DEF KycLapses, Lapse, Becomes
<1>3. ASSUME NEW r \in Requests, Decide(r) PROVE VerifiedExpires'
  BY <1>3 DEF Decide, Lapse, Becomes
<1>4. CASE UNCHANGED kyc
  BY <1>4
<1> QED
  BY <1>1, <1>2, <1>3, <1>4
  DEF Next, Serve, Tick, Arrive, Stop, LockIdentity, FindIdentity, Provision, UpdateProfile,
      BeginEvaluation, ListRestrictions, ChangeAccountStatus, AddRestriction, RemoveRestriction,
      ExpireRestriction, ExpireDueRestrictions, vars, player

-----------------------------------------------------------------------------
(* Theorems.                                                               *)

\* IInv holds in every reachable state.
THEOREM EligibilityInductive == Spec => []IInv
<1>1. Init => IInv
  <2> SUFFICES ASSUME Init PROVE IInv
    OBVIOUS
  <2>1. \A r \in Requests : request[r].stage = "idle" /\ request[r].at = 0
    BY DEF Init, NewRequest
  <2>2. Locking /\ Dated /\ AccountKnown /\ ListComplete /\ VerifiedExpires
    BY <2>1 DEF Init, Locking, Dated, AccountKnown, ListComplete, VerifiedExpires, Holding, Resolved
  <2> QED
    BY <2>2, EligibilityTypesInitially DEF IInv
<1>2. IInv /\ [Next]_vars => IInv'
  BY EligibilityTypesKept, LockingKept, DatedKept, AccountKnownKept, ListCompleteKept,
     VerifiedExpiresKept DEF IInv
<1> QED
  BY <1>1, <1>2, PTL DEF Spec

\* Rows and requests keep their shape, for any number of requests and
\* restrictions.
THEOREM EligibilityTypeCorrect == Spec => []TypeOK
<1>1. IInv => TypeOK
  BY DEF IInv
<1> QED
  BY <1>1, EligibilityInductive, PTL

\* A request that is about to insert a player finds none: the second of two
\* first requests waits for the lock and then finds the player of the first.
THEOREM ProvisioningSucceeds == Spec => []ProvisionNeverRefused
<1>1. IInv => ProvisionNeverRefused
  BY DEF IInv, Locking, ProvisionNeverRefused
<1> QED
  BY <1>1, EligibilityInductive, PTL

\* What a decision allows rests on a verification that has not elapsed, and
\* what stood from before the request until now was taken into account.
THEOREM NothingIsOverlooked == Spec => NothingStandingIsOverlooked
<1> DEFINE Permitted(r, op) ==
      /\ kyc.status = "verified" /\ kyc.expiresAt > now
      /\ account.status = "active" \/ account.since >= request[r].at
      /\ \A i \in Restrictions : Standing(i, r) => restrictions[i].type \notin Blocks[op]
<1> DEFINE Heeds ==
      \A r \in Requests :
        (request[r].stage = "listed" /\ request'[r].stage = "done")
        => \A op \in request'[r].allowed \cap FinancialOperation : Permitted(r, op)
<1>1. ASSUME IInv, [Next]_vars PROVE Heeds
  <2> SUFFICES ASSUME NEW r \in Requests,
                      request[r].stage = "listed", request'[r].stage = "done",
                      NEW op \in request'[r].allowed, op \in FinancialOperation
               PROVE  Permitted(r, op)
    OBVIOUS
  <2> USE <1>1 DEF IInv
  <2>1. Stop(r) \/ Decide(r)
    BY ArriveStep, LockIdentityStep, FindIdentityStep, ProvisionStep, UpdateProfileStep,
       BeginEvaluationStep, ListRestrictionsStep, DecideStep, StopStep
    DEF Next, Serve, Alone, Tick, ChangeAccountStatus, AddRestriction, RemoveRestriction,
        ExpireRestriction, ExpireDueRestrictions, KycMoves, KycLapses, vars, player
  <2>2. CASE Stop(r)
    BY <2>2 DEF Stop, NewRequest, TypeOK
  <2>3. CASE Decide(r)
    <3>1. op \in Policy(request[r].account, StatusForPlayer, request[r].types)
      BY <2>3 DEF Decide, NewRequest, TypeOK
    <3>2. /\ request[r].account = "active" /\ StatusForPlayer = "verified"
          /\ Blocks[op] \cap request[r].types = {}
      BY <3>1 DEF Policy, FinancialOperation, Blocks
    <3>3. kyc.status = "verified" /\ kyc.expiresAt > now
      BY <3>2 DEF StatusForPlayer, Lapsed, VerifiedExpires, TypeOK, Kyc
    <3>4. account.status = "active" \/ account.since >= request[r].at
      BY <3>2 DEF AccountKnown, Resolved
    <3>5. ASSUME NEW i \in Restrictions, Standing(i, r)
          PROVE  restrictions[i].type \notin Blocks[op]
      <4>1. InForce(i, request[r].asOf)
        BY <3>5 DEF Standing, InForce, Ended, Dated, TypeOK, Restriction, Request
      <4>2. restrictions[i].type \in request[r].types
        BY <3>5, <4>1 DEF Standing, ListComplete
      <4> QED
        BY <3>2, <4>2
    <3> QED
      BY <3>3, <3>4, <3>5
  <2> QED
    BY <2>1, <2>2, <2>3
<1>2. NothingStandingIsOverlooked <=> [][Heeds]_vars
  BY DEF NothingStandingIsOverlooked
<1> QED
  BY <1>1, <1>2, EligibilityInductive, PTL DEF Spec

\* A request that arrives after the account was closed is allowed nothing but
\* manage_profile, although it reads the status in a transaction of its own,
\* before the decision (evaluateEligibilityPolicy.ts, EvaluateEligibilityService.ts).
THEOREM ClosedStaysOut ==
  Spec => [][\A r \in Requests :
               /\ request[r].stage = "listed" /\ request'[r].stage = "done"
               /\ account.status = "closed" /\ account.since < request[r].at
               => request'[r].allowed \subseteq {"manage_profile"}]_vars
<1> DEFINE Out ==
      \A r \in Requests :
        /\ request[r].stage = "listed" /\ request'[r].stage = "done"
        /\ account.status = "closed" /\ account.since < request[r].at
        => request'[r].allowed \subseteq {"manage_profile"}
<1>1. ASSUME IInv, [Next]_vars PROVE Out
  <2> SUFFICES ASSUME NEW r \in Requests,
                      request[r].stage = "listed", request'[r].stage = "done",
                      account.status = "closed", account.since < request[r].at
               PROVE  request'[r].allowed \subseteq {"manage_profile"}
    OBVIOUS
  <2> USE <1>1 DEF IInv
  <2>1. Stop(r) \/ Decide(r)
    BY ArriveStep, LockIdentityStep, FindIdentityStep, ProvisionStep, UpdateProfileStep,
       BeginEvaluationStep, ListRestrictionsStep, DecideStep, StopStep
    DEF Next, Serve, Alone, Tick, ChangeAccountStatus, AddRestriction, RemoveRestriction,
        ExpireRestriction, ExpireDueRestrictions, KycMoves, KycLapses, vars, player
  <2>2. CASE Stop(r)
    BY <2>2 DEF Stop, NewRequest, TypeOK
  <2>3. CASE Decide(r)
    <3>1. request'[r].allowed = Policy(request[r].account, StatusForPlayer, request[r].types)
      BY <2>3 DEF Decide, NewRequest, TypeOK
    <3>2. account.since \in Nat /\ request[r].at \in Nat
      <4>1. account # Null
        BY DEF Locking, Resolved
      <4> QED
        BY <4>1 DEF TypeOK, Account, Request
    <3>3. request[r].account = "closed"
      BY <3>2 DEF AccountKnown, Resolved
    <3> QED
      BY <3>1, <3>3 DEF Policy
  <2> QED
    BY <2>1, <2>2, <2>3
<1> QED
  BY <1>1, EligibilityInductive, PTL DEF Spec

\* A restriction more, whatever its type, never allows an operation more
\* (evaluateEligibilityPolicy.ts): what a list of restrictions forbids, any
\* list that contains it forbids.
THEOREM RestrictionsOnlyTakeAway ==
  ASSUME NEW status, NEW kycStatus, NEW fewer, NEW more, fewer \subseteq more
  PROVE  Policy(status, kycStatus, more) \subseteq Policy(status, kycStatus, fewer)
BY DEF Policy

-----------------------------------------------------------------------------
(* The KYC lifecycle this module assumes.                                  *)

KycPromise == INSTANCE VerificationStatus WITH
  status  <- kyc.status,
  attempt <- kyc.attempt

\* The steps that stand here for the KYC lifecycle, the lapse on read among
\* them, are all steps that VerificationStatus allows, the specification that
\* KycVerification is proved to implement (PostgresKycStatusReader.ts): the
\* reader's expiry of an approval breaks no promise of the lifecycle.
THEOREM KycKeepsItsPromise == Spec => KycPromise!Spec
<1>1. Init => KycPromise!Init
  BY DEF Init, KycPromise!Init
<1>2. ASSUME IInv, [Next]_vars PROVE [KycPromise!Next]_<<kyc.status, kyc.attempt>>
  <2> USE DEF KycPromise!Next
  <2>1. CASE KycMoves
    <3>1. kyc.attempt \in Nat
      BY <1>2 DEF IInv, TypeOK, Kyc
    <3> QED
      BY <2>1, <3>1
      DEF KycMoves, Becomes, KycPromise!Start, KycPromise!Startable, KycPromise!Park,
          KycPromise!Resume, KycPromise!Conclude, KycPromise!UnderWay
  <2>2. ASSUME Lapsed, Lapse PROVE KycPromise!Lapse
    BY <2>2 DEF Lapsed, Lapse, Becomes, KycPromise!Lapse
  <2>3. CASE KycLapses
    BY <2>2, <2>3 DEF KycLapses
  <2>4. ASSUME NEW r \in Requests, Decide(r)
        PROVE  [KycPromise!Next]_<<kyc.status, kyc.attempt>>
    BY <2>2, <2>4 DEF Decide
  <2>5. CASE UNCHANGED kyc
    BY <2>5
  <2> QED
    BY <1>2, <2>1, <2>3, <2>4, <2>5
    DEF Next, Serve, Arrive, LockIdentity, FindIdentity, Provision, UpdateProfile, Stop,
        BeginEvaluation, ListRestrictions, Stage, Tick, ChangeAccountStatus, AddRestriction,
        RemoveRestriction, ExpireRestriction, ExpireDueRestrictions, vars, player
<1> QED
  BY <1>1, <1>2, EligibilityInductive, PTL DEF Spec, KycPromise!Spec
=============================================================================
