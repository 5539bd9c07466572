----------------------- MODULE KycVerificationProofs -----------------------
(***************************************************************************)
(* Theorems about KycVerification.  The inductive invariant is a           *)
(* conjunction of named parts: the rows of the player first, then what     *)
(* requests, deliveries and administrators still hold of them, then the    *)
(* history.                                                                *)
(***************************************************************************)
EXTENDS KycVerification, FiniteSetTheorems, TLAPS

Unopened == {"absent", "creating", "creation_failed"}
Startable == {"not_started", "failed", "expired"}

\* A session has an expiry once it was opened, and it is the provider's.
SessionShape ==
  \A s \in Attempts :
    /\ sessions[s].expiresAt = Null <=> sessions[s].status \in Unopened
    /\ sessions[s].expiresAt # Null => s \in DOMAIN hosted /\ sessions[s].expiresAt = hosted[s]
    /\ s \in DOMAIN hosted => sessions[s].status # "absent"

\* The unique index, and the order in which attempts are numbered.
OneHolding == \A s, q \in Attempts : Holds(s) /\ Holds(q) => s = q
InOrder ==
  \A s, q \in Attempts :
    q < s => /\ sessions[q].status = "absent" => sessions[s].status = "absent"
             /\ sessions[q].status = "creating" => sessions[s].status = "absent"

\* The profile has a current session once it was started, and it may start
\* again while a session is being created.
Started == profile.current = 0 <=> profile.status = "not_started"
CreatingFresh == \A s \in Attempts : sessions[s].status = "creating" => profile.status \in Startable

RowInv ==
  /\ SessionShape /\ OneHolding /\ InOrder /\ Started /\ CreatingFresh
  /\ ProfileFollowsSession /\ ReviewWhileParked

\* A request under way works on a session that exists; an answer carries the
\* provider's expiry.
RequestInv ==
  \A r \in Requests :
    /\ request[r].stage \in {"calling", "opened", "refused"} =>
         request[r].session \in Attempts /\ sessions[request[r].session].status # "absent"
    /\ request[r].stage = "opened" =>
         /\ request[r].session \in DOMAIN hosted
         /\ request[r].expiresAt = hosted[request[r].session]

\* The provider reports sessions it has opened; what is handled was sent.
DeliveryInv ==
  /\ \A e \in issued : e.session \in DOMAIN hosted
  /\ \A h \in Handlers : delivery[h] # Null => delivery[h].at <= now /\ delivery[h].event \in issued

\* While a transaction that decides a review may still be open, a session that
\* was verified meanwhile verifies the player, for longer than it may stay open.
DecisionInv ==
  \A a \in Admins :
    decision[a] # Null =>
      LET i == decision[a].review
          s == reviews[i].session
      IN /\ decision[a].at <= now
         /\ decision[a].outcome \in {"verified", "failed", "pending"}
         /\ reviews[i].status # "absent" /\ s \in Attempts
         /\ StillOpen(decision[a].at) /\ sessions[s].status = "verified" =>
              /\ profile.current = s /\ profile.status = "verified"
              /\ profile.expiresAt # Null
              /\ profile.expiresAt > decision[a].at + MaxOpen

\* No date that a later step may bring precedes the last verification.
DatesInv ==
  profile.verifiedAt # Null =>
    /\ profile.verifiedAt <= now
    /\ profile.expiresAt # Null => profile.expiresAt >= profile.verifiedAt
    /\ \A s \in DOMAIN hosted : Holds(s) => hosted[s] >= profile.verifiedAt
    /\ \A h \in Handlers :
         delivery[h] # Null /\ Holds(delivery[h].event.session)
         => delivery[h].at >= profile.verifiedAt

\* A transition that an event caused names it, and the session remembers a
\* time that is no earlier; an applied result has its transition.
Recorded(n) ==
  LET e == transitions[n].event
  IN e # Null =>
       /\ e \in DOMAIN filed /\ filed[e] = "processed" /\ e.result # "pending"
       /\ e.session = transitions[n].session
       /\ sessions[e.session].lastEventAt # Null
       /\ e.at <= sessions[e.session].lastEventAt
HistoryInv ==
  /\ \A n \in DOMAIN transitions : Recorded(n)
  /\ ResultsInProviderOrder
  /\ \A e \in DOMAIN filed :
       filed[e] = "processed" /\ e.result # "pending"
       => \E n \in DOMAIN transitions : transitions[n].event = e

IInv ==
  /\ TypeOK /\ RowInv /\ RequestInv /\ DeliveryInv /\ DecisionInv /\ DatesInv /\ HistoryInv

-----------------------------------------------------------------------------
(* Type correctness.                                                       *)

Claim == [event : Event, at : Nat]
Choice == [review : Reviews, outcome : KycStatus, at : Nat]

\* The initial state has the right types.
LEMMA KycTypesInitially == Init => TypeOK
<1> SUFFICES ASSUME Init PROVE TypeOK
  OBVIOUS
<1> USE DEF Init
<1>1. now \in Nat /\ profile \in Profile
  BY DEF Profile, KycStatus, Date
<1>2. sessions \in [Attempts -> Session] /\ reviews \in [Reviews -> Review]
  BY DEF Session, SessionStatus, Date, Review
<1>3. transitions \in Seq(Transition) /\ issued \subseteq Event
  OBVIOUS
<1>4. DOMAIN filed = {} /\ DOMAIN hosted = {}
  OBVIOUS
<1>5. request \in [Requests -> Request]
  BY DEF Blank, Request, Date
<1>6. /\ delivery \in [Handlers -> Claim \cup {Null}]
      /\ decision \in [Admins -> Choice \cup {Null}]
  OBVIOUS
<1> QED
  BY <1>1, <1>2, <1>3, <1>4, <1>5, <1>6 DEF TypeOK, Claim, Choice

\* A move keeps the types of the rows it writes.
LEMMA MoveTypes ==
  ASSUME TypeOK, NEW to, NEW s \in Attempts \cup {0}, NEW verifiedAt \in Date,
         NEW expiresAt \in Date, NEW e \in Event \cup {Null}, NEW i \in Reviews \cup {Null},
         Move(to, s, verifiedAt, expiresAt, e, i)
  PROVE  /\ to \in KycStatus
         /\ profile' \in Profile
         /\ transitions' \in Seq(Transition)
         /\ reviews' \in [Reviews -> Review]
<1>1. profile.status \in KycStatus /\ reviews \in [Reviews -> Review] /\ transitions \in Seq(Transition)
  BY DEF TypeOK, Profile
<1>2. to \in KycStatus
  BY <1>1 DEF Move, CanTransition, Edges, KycStatus
<1>3. profile' \in Profile
  BY <1>2 DEF Move, UpdateStatus, Profile
<1>4. transitions' \in Seq(Transition)
  <2>1. [from |-> profile.status, to |-> to, session |-> s, event |-> e] \in Transition
    BY <1>1, <1>2 DEF Transition
  <2> QED
    BY <1>1, <2>1 DEF Move, AppendTransition
<1>5. reviews' \in [Reviews -> Review]
  <2>1. CASE Requested(s)
    <3>1. PICK j \in Reviews :
            reviews' = [reviews EXCEPT ![j].status = "requested", ![j].session = s]
      BY <2>1 DEF Requested
    <3>2. [reviews[j] EXCEPT !.status = "requested", !.session = s] \in Review
      BY <1>1 DEF Review
    <3> QED
      BY <1>1, <3>1, <3>2
  <2>2. CASE Completed(to, i)
    BY <1>1, <1>2, <2>2 DEF Completed, Review
  <2>3. CASE UNCHANGED reviews
    BY <1>1, <2>3
  <2> QED
    BY <2>1, <2>2, <2>3 DEF Move, Reviewed
<1> QED
  BY <1>2, <1>3, <1>4, <1>5

\* So does a lapse.
LEMMA LapseTypes ==
  ASSUME TypeOK, Lapse \/ LapseIfDue
  PROVE  /\ profile' \in Profile
         /\ transitions' \in Seq(Transition)
         /\ reviews' \in [Reviews -> Review]
<1>1. CASE UNCHANGED <<profile, transitions, reviews>>
  BY <1>1 DEF TypeOK
<1>2. CASE Lapse
  <2>1. profile.current \in Attempts \cup {0} /\ profile.verifiedAt \in Date /\ profile.expiresAt \in Date
    BY DEF TypeOK, Profile
  <2> QED
    BY <1>2, <2>1, MoveTypes DEF Lapse
<1> QED
  BY <1>1, <1>2 DEF LapseIfDue

\* So does the expiry of a session and its profile.
LEMMA ExpireTypes ==
  ASSUME TypeOK, NEW s \in Attempts, NEW at \in Nat, Expire(s, at)
  PROVE  /\ profile' \in Profile
         /\ sessions' \in [Attempts -> Session]
         /\ transitions' \in Seq(Transition)
         /\ reviews' \in [Reviews -> Review]
<1>1. sessions' \in [Attempts -> Session]
  BY DEF TypeOK, Expire, Session, SessionStatus, Decided
<1>2. CASE UNCHANGED <<profile, transitions, reviews>>
  BY <1>1, <1>2 DEF TypeOK
<1>3. CASE Move("expired", s, profile.verifiedAt, sessions[s].expiresAt, Null, Null)
  <2>1. profile.verifiedAt \in Date /\ sessions[s].expiresAt \in Date
    BY DEF TypeOK, Profile, Session
  <2> QED
    BY <1>1, <1>3, <2>1, MoveTypes
<1> QED
  BY <1>2, <1>3 DEF Expire

\* And filing an event.
LEMMA MarkTypes ==
  ASSUME TypeOK, NEW h \in Handlers, delivery[h] # Null, NEW d \in Disposition, Mark(h, d)
  PROVE  /\ DOMAIN filed' \subseteq Event
         /\ \A e \in DOMAIN filed' : filed'[e] \in Disposition
         /\ delivery' \in [Handlers -> Claim \cup {Null}]
<1>1. delivery \in [Handlers -> Claim \cup {Null}]
  BY DEF TypeOK, Claim
<1>2. delivery[h].event \in Event
  BY <1>1 DEF Claim
<1>3. delivery' \in [Handlers -> Claim \cup {Null}]
  BY <1>1 DEF Mark
<1> QED
  BY <1>2, <1>3 DEF Mark, TypeOK

\* A session that takes a result keeps its type.
LEMMA UpdateTypes ==
  ASSUME TypeOK, NEW s \in Attempts, NEW status \in SessionStatus, NEW at \in Nat,
         UpdateFromEvent(s, status, at)
  PROVE  sessions' \in [Attempts -> Session]
<1>1. sessions \in [Attempts -> Session]
  BY DEF TypeOK
<1>2. sessions[s].lastEventAt \in Nat \cup {Null}
  BY <1>1 DEF Session, Date
<1>3. Later(s, at) \in Nat
  BY <1>2 DEF Later
<1>4. \A n \in Nat : [sessions[s] EXCEPT !.status = status, !.lastEventAt = n] \in Session
  BY <1>1 DEF Session, Date
<1>5. sessions' = [sessions EXCEPT ![s] = [@ EXCEPT !.status = status, !.lastEventAt = Later(s, at)]]
  BY <1>1 DEF UpdateFromEvent, Session
<1> QED
  BY <1>1, <1>3, <1>4, <1>5

\* A request's steps keep the types of requests and of what they write.
LEMMA RequestTypes ==
  ASSUME TypeOK, RequestInv, NEW r \in Requests, CheckEligibility(r) \/ ServeRequest(r) \/ CrashRequest(r)
  PROVE  TypeOK'
<1> USE KycAssumption, NullAssumption
<1>0. request \in [Requests -> Request] /\ sessions \in [Attempts -> Session] /\ now \in Nat
  BY DEF TypeOK
<1>1. Blank("done") \in Request
  BY DEF Blank, Request, Date
<1>2. Finish(r) => request' \in [Requests -> Request]
  BY <1>0, <1>1 DEF Finish
<1>3. CASE CheckEligibility(r)
  <2>1. PICK k \in Keys \cup {Null} :
          request' = [request EXCEPT ![r].stage = "checked", ![r].key = k, ![r].at = now]
    BY <1>3 DEF CheckEligibility
  <2>2. [request[r] EXCEPT !.stage = "checked", !.key = k, !.at = now] \in Request
    BY <1>0 DEF Request
  <2>3. request' \in [Requests -> Request]
    BY <1>0, <2>1, <2>2
  <2> QED
    BY <1>3, <2>3 DEF CheckEligibility, TypeOK, rows, outside
<1>4. CASE RefuseStart(r) \/ CrashRequest(r)
  BY <1>2, <1>4 DEF RefuseStart, CrashRequest, TypeOK, rows, outside
<1>5. CASE ReuseSession(r)
  <2>1. PICK s \in Attempts :
          \/ request' = [request EXCEPT ![r].stage = "calling", ![r].session = s]
          \/ Finish(r)
    BY <1>5 DEF ReuseSession
  <2>2. [request[r] EXCEPT !.stage = "calling", !.session = s] \in Request
    BY <1>0 DEF Request
  <2>3. request' \in [Requests -> Request]
    BY <1>0, <1>2, <2>1, <2>2
  <2> QED
    BY <1>5, <2>3, LapseTypes DEF ReuseSession, TypeOK, outside
<1>6. CASE CreateIntent(r)
  <2>1. PICK s \in Attempts :
          /\ sessions' = [sessions EXCEPT ![s].status = "creating",
                                          ![s].key = request[r].key,
                                          ![s].startedAt = request[r].at]
          /\ request' = [request EXCEPT ![r].stage = "calling", ![r].session = s]
    BY <1>6 DEF CreateIntent
  <2>2. [request[r] EXCEPT !.stage = "calling", !.session = s] \in Request
    BY <1>0 DEF Request
  <2>3. request' \in [Requests -> Request]
    BY <1>0, <2>1, <2>2
  <2>4. request[r].key \in Keys \cup {Null} /\ request[r].at \in Nat
    BY <1>0 DEF Request
  <2>5. [sessions[s] EXCEPT !.status = "creating", !.key = request[r].key,
                            !.startedAt = request[r].at] \in Session
    BY <1>0, <2>4 DEF Session, SessionStatus
  <2>6. sessions' \in [Attempts -> Session]
    BY <1>0, <2>1, <2>5
  <2> QED
    BY <1>6, <2>3, <2>6, LapseTypes DEF CreateIntent, TypeOK, outside
<1>7. CASE CreateVerificationSession(r)
  <2> DEFINE s == request[r].session
             expiresAt == IF s \in DOMAIN hosted THEN hosted[s] ELSE now + SessionTtl
  <2>1. s \in Attempts
    BY <1>7 DEF CreateVerificationSession, RequestInv
  <2>2. expiresAt \in Nat
    BY DEF TypeOK
  <2>3. \A at \in Nat : [request[r] EXCEPT !.stage = "opened", !.expiresAt = at] \in Request
    BY <1>0 DEF Request, Date
  <2>4. request' = [request EXCEPT ![r].stage = "opened", ![r].expiresAt = expiresAt]
    BY <1>7 DEF CreateVerificationSession
  <2>5. request' \in [Requests -> Request]
    BY <1>0, <2>2, <2>3, <2>4
  <2>6. hosted' = [q \in DOMAIN hosted \cup {s} |-> IF q = s THEN expiresAt ELSE hosted[q]]
    BY <1>7 DEF CreateVerificationSession
  <2>7. DOMAIN hosted' \subseteq Attempts /\ \A q \in DOMAIN hosted' : hosted'[q] \in Nat
    BY <2>1, <2>2, <2>6 DEF TypeOK
  <2> QED
    BY <1>7, <2>5, <2>7 DEF CreateVerificationSession, TypeOK, rows
<1>8. CASE ProviderFails(r)
  <2>1. request' \in [Requests -> Request]
    BY <1>0, <1>8 DEF ProviderFails, Request
  <2> QED
    BY <1>8, <2>1 DEF ProviderFails, TypeOK, rows, outside
<1>9. CASE MarkProviderFailure(r)
  <2>1. \A s \in Attempts : [sessions[s] EXCEPT !.status = "creation_failed"] \in Session
    BY <1>0 DEF Session, SessionStatus, Decided
  <2>2. sessions' \in [Attempts -> Session]
    BY <1>0, <1>9, <2>1 DEF MarkProviderFailure, RequestInv
  <2> QED
    BY <1>2, <1>9, <2>2 DEF MarkProviderFailure, TypeOK, outside
<1>10. CASE Activate(r)
  <2> DEFINE s == request[r].session
  <2>1. s \in Attempts /\ request[r].expiresAt \in Date /\ profile.verifiedAt \in Date
    BY <1>0, <1>10 DEF Activate, RequestInv, Request, TypeOK, Profile
  <2>2. CASE UNCHANGED rows
    BY <1>2, <1>10, <2>2 DEF Activate, TypeOK, rows, outside
  <2>3. CASE /\ sessions' = [sessions EXCEPT ![s].status = "pending",
                                              ![s].expiresAt = request[r].expiresAt]
             /\ Move("pending", s, profile.verifiedAt, Null, Null, Null)
    <3>1. [sessions[s] EXCEPT !.status = "pending", !.expiresAt = request[r].expiresAt] \in Session
      BY <1>0, <2>1 DEF Session, SessionStatus, Undecided
    <3>2. sessions' \in [Attempts -> Session]
      BY <1>0, <2>3, <3>1
    <3>3. Null \in Date
      BY DEF Date
    <3>4. profile' \in Profile /\ transitions' \in Seq(Transition) /\ reviews' \in [Reviews -> Review]
      BY <2>1, <2>3, <3>3, MoveTypes
    <3> QED
      BY <1>2, <1>10, <3>2, <3>4 DEF Activate, TypeOK, outside
  <2> QED
    BY <1>10, <2>2, <2>3 DEF Activate, Activated
<1> QED
  BY <1>3, <1>4, <1>5, <1>6, <1>7, <1>8, <1>9, <1>10 DEF ServeRequest

\* So do the steps of the provider and of its deliveries.
LEMMA DeliveryTypes ==
  ASSUME TypeOK, NEW h \in Handlers, Receive(h) \/ SubmitOutcome(h) \/ LoseDelivery(h) \/ ProcessEvent(h)
  PROVE  TypeOK'
<1> USE KycAssumption, NullAssumption
<1>0. /\ delivery \in [Handlers -> Claim \cup {Null}] /\ now \in Nat
      /\ sessions \in [Attempts -> Session] /\ issued \subseteq Event
  BY DEF TypeOK, Claim
<1>1. delivery[h] # Null => delivery[h] \in Claim
  BY <1>0
<1>2. CASE Receive(h)
  <2>1. PICK e \in issued : delivery' = [delivery EXCEPT ![h] = [event |-> e, at |-> now]]
    BY <1>2 DEF Receive
  <2>2. delivery' \in [Handlers -> Claim \cup {Null}]
    BY <1>0, <2>1 DEF Claim
  <2> QED
    BY <1>2, <2>2 DEF Receive, TypeOK, Claim, rows, outside
<1>3. CASE SubmitOutcome(h)
  <2>1. PICK s \in Attempts, result \in {"verified", "failed"} :
          /\ Emit([session |-> s, result |-> result, at |-> now, other |-> FALSE])
          /\ delivery' = [delivery EXCEPT ![h] =
               [event |-> [session |-> s, result |-> result, at |-> now, other |-> FALSE], at |-> now]]
    BY <1>3 DEF SubmitOutcome
  <2>2. [session |-> s, result |-> result, at |-> now, other |-> FALSE] \in Event
    BY <1>0 DEF Event, Result
  <2>3. delivery' \in [Handlers -> Claim \cup {Null}] /\ issued' \subseteq Event
    BY <1>0, <2>1, <2>2 DEF Claim, Emit
  <2> QED
    BY <1>3, <2>3 DEF SubmitOutcome, TypeOK, Claim, rows
<1>4. CASE LoseDelivery(h) \/ IgnoreDuplicate(h)
  <2>1. delivery' \in [Handlers -> Claim \cup {Null}]
    BY <1>0, <1>4 DEF LoseDelivery, IgnoreDuplicate
  <2> QED
    BY <1>4, <2>1 DEF LoseDelivery, IgnoreDuplicate, TypeOK, Claim, rows, outside
<1>5. CASE RejectEvent(h) \/ RejectMismatch(h) \/ IgnoreStale(h)
  <2>1. PICK d \in {"rejected", "ignored_stale"} : Mark(h, d) /\ delivery[h] # Null
    BY <1>5 DEF RejectEvent, RejectMismatch, IgnoreStale, Owned, Current, InScope, Insert
  <2>2. d \in Disposition
    BY DEF Disposition
  <2>3. /\ DOMAIN filed' \subseteq Event
        /\ \A e \in DOMAIN filed' : filed'[e] \in Disposition
        /\ delivery' \in [Handlers -> Claim \cup {Null}]
    BY <2>1, <2>2, MarkTypes
  <2> QED
    BY <1>5, <2>3 DEF RejectEvent, RejectMismatch, IgnoreStale, TypeOK, Claim, rows, outside
<1>6. CASE IgnoreExpired(h)
  <2>1. delivery[h] # Null /\ Mark(h, "ignored_expired") /\ "ignored_expired" \in Disposition
    BY <1>6 DEF IgnoreExpired, InScope, Insert, Disposition
  <2>2. /\ DOMAIN filed' \subseteq Event
        /\ \A e \in DOMAIN filed' : filed'[e] \in Disposition
        /\ delivery' \in [Handlers -> Claim \cup {Null}]
    BY <2>1, MarkTypes
  <2>3. delivery[h].event.session \in Attempts /\ delivery[h].at \in Nat
    BY <1>1, <2>1 DEF Claim, Event
  <2>4. /\ profile' \in Profile /\ sessions' \in [Attempts -> Session]
        /\ transitions' \in Seq(Transition) /\ reviews' \in [Reviews -> Review]
    BY <1>6, <2>3, ExpireTypes DEF IgnoreExpired
  <2> QED
    BY <1>6, <2>2, <2>4 DEF IgnoreExpired, TypeOK, Claim, outside
<1>7. CASE NotePending(h) \/ ApplyResult(h)
  <2>1. delivery[h] # Null /\ Mark(h, "processed") /\ "processed" \in Disposition
    BY <1>7 DEF NotePending, ApplyResult, Owned, Current, InScope, Insert, Disposition
  <2>2. /\ DOMAIN filed' \subseteq Event
        /\ \A e \in DOMAIN filed' : filed'[e] \in Disposition
        /\ delivery' \in [Handlers -> Claim \cup {Null}]
    BY <2>1, MarkTypes
  <2> DEFINE e == delivery[h].event
             at == delivery[h].at
  <2>3. e \in Event /\ e.session \in Attempts /\ e.at \in Nat /\ at \in Nat /\ e.result \in SessionStatus
    BY <1>1, <2>1 DEF Claim, Event, Result, SessionStatus, Undecided, Decided
  <2>4. UpdateFromEvent(e.session, e.result, e.at)
    BY <1>7 DEF NotePending, ApplyResult
  <2>5. sessions' \in [Attempts -> Session]
    BY <2>3, <2>4, UpdateTypes
  <2>6. CASE NotePending(h)
    BY <2>2, <2>5, <2>6 DEF NotePending, TypeOK, Claim, outside
  <2>7. CASE ApplyResult(h)
    <3> DEFINE verifiedAt == IF e.result = "verified" THEN at ELSE profile.verifiedAt
               expiresAt == CASE e.result = "verified" -> at + VerificationTtl
                              [] e.result = "expired" -> at
                              [] OTHER -> Null
    <3>1. verifiedAt \in Date /\ expiresAt \in Date
      BY <2>3 DEF TypeOK, Profile, Date
    <3>2. Move(e.result, e.session, verifiedAt, expiresAt, e, Null)
      BY <2>7 DEF ApplyResult
    <3>3. /\ profile' \in Profile
          /\ transitions' \in Seq(Transition) /\ reviews' \in [Reviews -> Review]
      <4> HIDE DEF verifiedAt, expiresAt
      <4> QED
        BY <2>3, <3>1, <3>2, MoveTypes
    <3> QED
      BY <2>2, <2>5, <2>7, <3>3 DEF ApplyResult, TypeOK, Claim, outside
  <2> QED
    BY <1>7, <2>6, <2>7
<1> QED
  BY <1>2, <1>3, <1>4, <1>5, <1>6, <1>7 DEF ProcessEvent

\* So do the steps of administrators.
LEMMA AdminTypes ==
  ASSUME TypeOK, DecisionInv, NEW a \in Admins, ReadReview(a) \/ Decide(a) \/ DropDecision(a)
  PROVE  TypeOK'
<1> USE KycAssumption, NullAssumption
<1>0. decision \in [Admins -> Choice \cup {Null}] /\ now \in Nat
  BY DEF TypeOK, Choice
<1>1. CASE ReadReview(a)
  <2>1. PICK i \in Reviews, outcome \in {"verified", "failed", "pending"} :
          decision' = [decision EXCEPT ![a] = [review |-> i, outcome |-> outcome, at |-> now]]
    BY <1>1 DEF ReadReview
  <2>2. decision' \in [Admins -> Choice \cup {Null}]
    BY <1>0, <2>1 DEF Choice, KycStatus
  <2> QED
    BY <1>1, <2>2 DEF ReadReview, TypeOK, Choice, rows, outside
<1>2. CASE DropDecision(a)
  <2>1. decision' \in [Admins -> Choice \cup {Null}]
    BY <1>0, <1>2 DEF DropDecision
  <2> QED
    BY <1>2, <2>1 DEF DropDecision, TypeOK, Choice, rows, outside
<1>3. CASE Decide(a)
  <2> DEFINE i == decision[a].review
             outcome == decision[a].outcome
             s == reviews[i].session
             verifiedAt == IF outcome = "verified" THEN now ELSE profile.verifiedAt
             expiresAt == IF outcome = "verified" THEN now + VerificationTtl ELSE Null
  <2>1. decision' \in [Admins -> Choice \cup {Null}]
    BY <1>0, <1>3 DEF Decide
  <2>2. i \in Reviews /\ s \in Attempts /\ outcome \in SessionStatus
    BY <1>0, <1>3 DEF Decide, Decidable, DecisionInv, Choice, SessionStatus, Undecided, Decided
  <2>3. verifiedAt \in Date /\ expiresAt \in Date
    BY <1>0 DEF TypeOK, Profile, Date
  <2>4. UpdateFromEvent(s, outcome, now) /\ Move(outcome, s, verifiedAt, expiresAt, Null, i)
    BY <1>3 DEF Decide
  <2>5. sessions' \in [Attempts -> Session]
    BY <1>0, <2>2, <2>4, UpdateTypes
  <2>6. /\ profile' \in Profile
        /\ transitions' \in Seq(Transition) /\ reviews' \in [Reviews -> Review]
    <3> HIDE DEF i, outcome, s, verifiedAt, expiresAt
    <3> QED
      BY <2>2, <2>3, <2>4, MoveTypes
  <2> QED
    BY <1>3, <2>1, <2>5, <2>6 DEF Decide, TypeOK, Choice, outside
<1> QED
  BY <1>1, <1>2, <1>3

\* Each step preserves the types.
LEMMA KycTypesKept == TypeOK /\ RequestInv /\ DecisionInv /\ [Next]_vars => TypeOK'
<1> SUFFICES ASSUME TypeOK, RequestInv, DecisionInv, [Next]_vars PROVE TypeOK'
  OBVIOUS
<1> USE KycAssumption, NullAssumption
<1>1. CASE Tick
  BY <1>1 DEF Tick, TypeOK, rows, outside
<1>2. CASE ReadStatus \/ ExpireVerification
  BY <1>2, LapseTypes DEF ReadStatus, ExpireVerification, TypeOK, outside
<1>3. CASE ProviderReports
  <2>1. PICK s \in DOMAIN hosted, result \in Result, at \in now .. now + MaxAhead, other \in Claims :
          Emit([session |-> s, result |-> result, at |-> at, other |-> other])
    BY <1>3 DEF ProviderReports
  <2>2. [session |-> s, result |-> result, at |-> at, other |-> other] \in Event
    BY DEF TypeOK, Event
  <2>3. issued' \subseteq Event
    BY <2>1, <2>2 DEF Emit, TypeOK
  <2> QED
    BY <1>3, <2>3 DEF ProviderReports, TypeOK, rows
<1>4. ASSUME NEW i \in Reviews, OpenReview(i) \/ AssignReview(i) PROVE TypeOK'
  <2>1. PICK status \in {"open", "assigned"} : reviews' = [reviews EXCEPT ![i].status = status]
    BY <1>4 DEF OpenReview, AssignReview, Opened
  <2>2. reviews' \in [Reviews -> Review]
    <3>1. reviews \in [Reviews -> Review]
      BY DEF TypeOK
    <3>2. [reviews[i] EXCEPT !.status = status] \in Review
      BY <3>1 DEF Review
    <3> QED
      BY <2>1, <3>1, <3>2
  <2> QED
    BY <1>4, <2>2 DEF OpenReview, AssignReview, TypeOK, outside
<1>5. ASSUME NEW s \in Attempts, ExpireSession(s) PROVE TypeOK'
  <2>1. now \in Nat /\ Expire(s, now)
    BY <1>5 DEF ExpireSession, TypeOK
  <2> QED
    BY <1>5, <2>1, ExpireTypes DEF ExpireSession, TypeOK, outside
<1>6. CASE UNCHANGED vars
  BY <1>6 DEF vars, TypeOK, rows, outside
<1> QED
  BY <1>1, <1>2, <1>3, <1>4, <1>5, <1>6, RequestTypes, DeliveryTypes, AdminTypes
  DEF Next, FindNothingDue

-----------------------------------------------------------------------------
(* What a step does to the rows.  Every invariant below is preserved by    *)
(* these kinds of step, whichever action takes them.                       *)

\* One session changes, to that status.
Changed(s, status) ==
  /\ sessions'[s].status = status
  /\ \A q \in Attempts \ {s} : sessions'[q] = sessions[q]

Moved(to, s, verifiedAt, expiresAt, e) ==
  /\ CanTransition(to)
  /\ profile' = [status |-> to, current |-> s, verifiedAt |-> verifiedAt, expiresAt |-> expiresAt]
  /\ transitions' = Append(transitions,
                           [from |-> profile.status, to |-> to, session |-> s, event |-> e])

Lapses ==
  /\ Lapsed
  /\ Moved("expired", profile.current, profile.verifiedAt, profile.expiresAt, Null)

MayLapse == Lapses \/ UNCHANGED <<profile, transitions>>

Creates(s) ==
  /\ Fresh(s)
  /\ \A q \in Attempts : ~Holds(q)
  /\ Changed(s, "creating")
  /\ sessions'[s].expiresAt = sessions[s].expiresAt
  /\ sessions'[s].lastEventAt = sessions[s].lastEventAt
  /\ Lapses \/ (profile.status # "verified" /\ UNCHANGED <<profile, transitions>>)

Fails(s) ==
  /\ sessions[s].status = "creating"
  /\ Changed(s, "creation_failed")
  /\ sessions'[s].expiresAt = sessions[s].expiresAt
  /\ sessions'[s].lastEventAt = sessions[s].lastEventAt
  /\ UNCHANGED <<profile, transitions>>

Activates(s) ==
  /\ sessions[s].status = "creating"
  /\ s \in DOMAIN hosted
  /\ Changed(s, "pending")
  /\ sessions'[s].expiresAt = hosted[s]
  /\ sessions'[s].lastEventAt = sessions[s].lastEventAt
  /\ Moved("pending", s, profile.verifiedAt, Null, Null)

\* The session of a profile under way expires with it, any other alone.
Expires(s) ==
  /\ sessions[s].status \in Undecided \cup {"expired"}
  /\ Changed(s, "expired")
  /\ sessions'[s].expiresAt = sessions[s].expiresAt
  /\ sessions'[s].lastEventAt = sessions[s].lastEventAt
  /\ IF profile.current = s /\ profile.status \in Undecided
     THEN Moved("expired", s, profile.verifiedAt, sessions[s].expiresAt, Null)
     ELSE UNCHANGED <<profile, transitions>>

Takes(s, status, at) ==
  /\ Changed(s, status)
  /\ sessions'[s].expiresAt = sessions[s].expiresAt
  /\ sessions'[s].lastEventAt = Later(s, at)

\* An event the processor accepts.
Accepts(h) ==
  LET e == delivery[h].event
  IN /\ delivery[h] # Null /\ delivery[h] \in Claim
     /\ StillOpen(delivery[h].at)
     /\ e \notin DOMAIN filed
     /\ sessions[e.session].expiresAt # Null
     /\ ~Elapsed(e.session, delivery[h].at)
     /\ ~TooFarAhead(e, delivery[h].at)
     /\ ~IsStale(e)
     /\ Takes(e.session, e.result, e.at)

Notes(h) ==
  /\ Accepts(h)
  /\ delivery[h].event.result = "pending"
  /\ UNCHANGED <<profile, transitions>>

Applies(h) ==
  LET e == delivery[h].event
      at == delivery[h].at
  IN /\ Accepts(h)
     /\ e.result # "pending"
     /\ Moved(e.result, e.session,
              IF e.result = "verified" THEN at ELSE profile.verifiedAt,
              CASE e.result = "verified" -> at + VerificationTtl
                [] e.result = "expired" -> at
                [] OTHER -> Null,
              e)

Decides(a) ==
  LET s == reviews[decision[a].review].session
      outcome == decision[a].outcome
  IN /\ decision[a] # Null /\ decision[a].review \in Reviews
     /\ StillOpen(decision[a].at)
     /\ s \in Attempts
     /\ outcome \in {"verified", "failed", "pending"}
     /\ sessions[s].status \in {"manual_review", "verified"}
     /\ Takes(s, outcome, now)
     /\ Moved(outcome, s,
              IF outcome = "verified" THEN now ELSE profile.verifiedAt,
              IF outcome = "verified" THEN now + VerificationTtl ELSE Null,
              Null)

\* What a step does to the reviews: nothing, or what a move does, or it opens
\* or assigns an active one.
ReviewsMove ==
  \/ /\ UNCHANGED reviews
     /\ profile' = profile
  \/ \E to \in KycStatus, s \in Attempts \cup {0}, verifiedAt, expiresAt \in Date,
        e \in Event \cup {Null}, i \in Reviews \cup {Null} :
       Move(to, s, verifiedAt, expiresAt, e, i)
  \/ /\ \E i \in Reviews, status \in {"open", "assigned"} :
          Active(i) /\ reviews' = [reviews EXCEPT ![i].status = status]
     /\ profile' = profile

\* A move reads like one.
LEMMA MoveMoves ==
  ASSUME NEW to, NEW s, NEW verifiedAt, NEW expiresAt, NEW e, NEW i,
         Move(to, s, verifiedAt, expiresAt, e, i)
  PROVE  Moved(to, s, verifiedAt, expiresAt, e)
  BY DEF Move, Moved, UpdateStatus, AppendTransition

LEMMA LapseMoves == Lapsed /\ Lapse => Lapses
  BY MoveMoves DEF Lapse, Lapses

LEMMA LapseIfDueMoves == LapseIfDue => MayLapse
  BY LapseMoves DEF LapseIfDue, MayLapse

\* What is left alone by the steps of requests and the worker.
Delivered == <<now, filed, hosted, issued, delivery, decision>>

LEMMA CreateIntentStep ==
  ASSUME TypeOK, NEW r \in Requests, CreateIntent(r)
  PROVE  \E s \in Attempts :
           /\ Creates(s) /\ UNCHANGED Delivered
           /\ request' = [request EXCEPT ![r].stage = "calling", ![r].session = s]
<1>1. PICK s \in Attempts :
        /\ Fresh(s)
        /\ sessions' = [sessions EXCEPT ![s].status = "creating",
                                        ![s].key = request[r].key,
                                        ![s].startedAt = request[r].at]
        /\ request' = [request EXCEPT ![r].stage = "calling", ![r].session = s]
  BY DEF CreateIntent
<1>2. sessions \in [Attempts -> Session]
  BY DEF TypeOK
<1>3. /\ Changed(s, "creating")
      /\ sessions'[s].expiresAt = sessions[s].expiresAt
      /\ sessions'[s].lastEventAt = sessions[s].lastEventAt
  BY <1>1, <1>2 DEF Changed, Session
<1>4. Lapses \/ (profile.status # "verified" /\ UNCHANGED <<profile, transitions>>)
  <2>1. CASE Lapsed
    BY <2>1, LapseMoves DEF CreateIntent, LapseIfDue
  <2>2. CASE ~Lapsed
    BY <2>2 DEF CreateIntent, LapseIfDue, StillVerified
  <2> QED
    BY <2>1, <2>2
<1> QED
  BY <1>1, <1>3, <1>4 DEF Creates, CreateIntent, Delivered, outside

LEMMA MarkProviderFailureStep ==
  ASSUME TypeOK, RequestInv, NEW r \in Requests, MarkProviderFailure(r)
  PROVE  /\ Finish(r) /\ UNCHANGED Delivered
         /\ Fails(request[r].session) \/ UNCHANGED <<profile, sessions, transitions>>
<1>1. sessions \in [Attempts -> Session] /\ request[r].session \in Attempts
  BY DEF TypeOK, RequestInv, MarkProviderFailure
<1>2. CASE sessions[request[r].session].status = "creating"
  <2>1. sessions' = [sessions EXCEPT ![request[r].session].status = "creation_failed"]
    BY <1>2 DEF MarkProviderFailure
  <2> QED
    BY <1>1, <1>2, <2>1 DEF MarkProviderFailure, Fails, Changed, Session, Delivered, outside
<1>3. CASE sessions[request[r].session].status # "creating"
  BY <1>3 DEF MarkProviderFailure, Delivered, outside
<1> QED
  BY <1>2, <1>3

LEMMA ActivateStep ==
  ASSUME TypeOK, RequestInv, NEW r \in Requests, Activate(r)
  PROVE  /\ Finish(r) /\ UNCHANGED Delivered
         /\ Activates(request[r].session) \/ UNCHANGED <<profile, sessions, transitions>>
<1> DEFINE s == request[r].session
<1>1. /\ sessions \in [Attempts -> Session] /\ s \in Attempts
      /\ s \in DOMAIN hosted /\ request[r].expiresAt = hosted[s]
  BY DEF TypeOK, RequestInv, Activate
<1>2. CASE sessions[s].status = "creating"
  <2>1. /\ sessions' = [sessions EXCEPT ![s].status = "pending",
                                        ![s].expiresAt = request[r].expiresAt]
        /\ Move("pending", s, profile.verifiedAt, Null, Null, Null)
    BY <1>2 DEF Activate, Activated
  <2>2. /\ Changed(s, "pending") /\ sessions'[s].expiresAt = hosted[s]
        /\ sessions'[s].lastEventAt = sessions[s].lastEventAt
    BY <1>1, <2>1 DEF Changed, Session
  <2>3. Activates(s)
    BY <1>1, <1>2, <2>1, <2>2, MoveMoves DEF Activates
  <2> QED
    BY <2>3 DEF Activate, Delivered, outside
<1>3. CASE sessions[s].status # "creating"
  BY <1>3 DEF Activate, Activated, rows, Delivered, outside
<1> QED
  BY <1>2, <1>3

\* An elapsed session expires, and one that has expired stays so.
LEMMA ExpireMoves ==
  ASSUME TypeOK, NEW s \in Attempts, NEW at, SessionExpired(s, at), Expire(s, at)
  PROVE  Expires(s)
<1>1. sessions \in [Attempts -> Session]
  BY DEF TypeOK
<1>2. sessions[s].status \in Undecided \cup {"expired"}
  BY DEF SessionExpired, Elapsed
<1>3. /\ Changed(s, "expired")
      /\ sessions'[s].expiresAt = sessions[s].expiresAt
      /\ sessions'[s].lastEventAt = sessions[s].lastEventAt
  <2>1. CASE Elapsed(s, at)
    BY <1>1, <2>1 DEF Expire, Changed, Session
  <2>2. CASE ~Elapsed(s, at)
    BY <2>2 DEF Expire, Changed, SessionExpired
  <2> QED
    BY <2>1, <2>2
<1> QED
  BY <1>2, <1>3, MoveMoves DEF Expire, Expires

\* A session that takes a result.
LEMMA UpdateTakes ==
  ASSUME TypeOK, NEW s \in Attempts, NEW status, NEW at, UpdateFromEvent(s, status, at)
  PROVE  Takes(s, status, at)
  BY DEF TypeOK, UpdateFromEvent, Takes, Changed, Session

\* An event is filed once and no other event is touched.
LEMMA MarkFiles ==
  ASSUME TypeOK, NEW h \in Handlers, Mark(h, "processed"), ~ (delivery[h].event \in DOMAIN filed)
  PROVE  /\ DOMAIN filed' = DOMAIN filed \cup {delivery[h].event}
         /\ filed'[delivery[h].event] = "processed"
         /\ \A e \in DOMAIN filed : filed'[e] = filed[e]
  BY DEF Mark

Resting == UNCHANGED <<profile, sessions, transitions>>

\* Requests, readers, reviewers and the worker, but for the provider's answer.
Serves ==
  /\ UNCHANGED Delivered
  /\ \/ MayLapse /\ UNCHANGED sessions
     \/ \E s \in Attempts : Creates(s) \/ Fails(s) \/ Activates(s) \/ Expires(s)

\* The provider opens a session, or says again which one it opened.
Hosts ==
  /\ Resting /\ UNCHANGED <<now, filed, issued, delivery, decision>>
  /\ \E s \in Attempts, expiresAt \in Nat :
       /\ sessions[s].status # "absent"
       /\ IF s \in DOMAIN hosted THEN expiresAt = hosted[s] ELSE expiresAt >= now
       /\ hosted' = [q \in DOMAIN hosted \cup {s} |-> IF q = s THEN expiresAt ELSE hosted[q]]

\* The provider sends an event; it may arrive.
Sends ==
  /\ Resting /\ UNCHANGED <<now, filed, hosted, decision>>
  /\ \E e \in Event :
       /\ e.session \in DOMAIN hosted
       /\ issued' = issued \cup {e}
       /\ \/ UNCHANGED delivery
          \/ \E h \in Handlers : delivery' = [delivery EXCEPT ![h] = [event |-> e, at |-> now]]

\* The handling of an event ends.
Handles(h) ==
  /\ delivery[h] # Null
  /\ delivery' = [delivery EXCEPT ![h] = Null]
  /\ UNCHANGED <<now, hosted, issued, decision>>
  /\ \/ Resting /\ UNCHANGED filed
     \/ \E d \in Disposition :
          /\ delivery[h].event \notin DOMAIN filed
          /\ DOMAIN filed' = DOMAIN filed \cup {delivery[h].event}
          /\ filed'[delivery[h].event] = d
          /\ \A e \in DOMAIN filed : filed'[e] = filed[e]
          /\ \/ d # "processed" /\ (Resting \/ Expires(delivery[h].event.session))
             \/ d = "processed" /\ (Notes(h) \/ Applies(h))

\* An administrator reads a review, decides it or gives up.
Administers(a) ==
  /\ UNCHANGED <<now, filed, hosted, issued, delivery>>
  /\ \/ /\ Resting
        /\ \E i \in Reviews, outcome \in {"verified", "failed", "pending"} :
             /\ Active(i)
             /\ decision' = [decision EXCEPT ![a] = [review |-> i, outcome |-> outcome, at |-> now]]
     \/ /\ Resting \/ Decides(a)
        /\ decision' = [decision EXCEPT ![a] = Null]

Ticks == Resting /\ now' = now + 1 /\ UNCHANGED <<filed, hosted, issued, delivery, decision>>

LEMMA ServeRequestStep ==
  ASSUME TypeOK, RequestInv, NEW r \in Requests, CheckEligibility(r) \/ ServeRequest(r) \/ CrashRequest(r)
  PROVE  Serves \/ Hosts
<1>1. CASE CheckEligibility(r) \/ RefuseStart(r) \/ ProviderFails(r) \/ CrashRequest(r)
  BY <1>1 DEF CheckEligibility, RefuseStart, ProviderFails, CrashRequest, rows, outside, Serves, MayLapse, Delivered
<1>2. CASE ReuseSession(r)
  BY <1>2, LapseIfDueMoves DEF ReuseSession, outside, Serves, Delivered
<1>3. CASE CreateIntent(r)
  BY <1>3, CreateIntentStep DEF Serves
<1>4. CASE CreateVerificationSession(r)
  <2> DEFINE s == request[r].session
             expiresAt == IF s \in DOMAIN hosted THEN hosted[s] ELSE now + SessionTtl
  <2>1. s \in Attempts /\ sessions[s].status # "absent"
    BY <1>4 DEF CreateVerificationSession, RequestInv
  <2>2. expiresAt \in Nat /\ (IF s \in DOMAIN hosted THEN expiresAt = hosted[s] ELSE expiresAt >= now)
    BY KycAssumption DEF TypeOK
  <2>3. hosted' = [q \in DOMAIN hosted \cup {s} |-> IF q = s THEN expiresAt ELSE hosted[q]]
    BY <1>4 DEF CreateVerificationSession
  <2>4. Resting /\ UNCHANGED <<now, filed, issued, delivery, decision>>
    BY <1>4 DEF CreateVerificationSession, Resting, rows
  <2> HIDE DEF s, expiresAt
  <2> QED
    BY <2>1, <2>2, <2>3, <2>4 DEF Hosts
<1>5. CASE MarkProviderFailure(r)
  BY <1>5, MarkProviderFailureStep DEF MarkProviderFailure, RequestInv, Serves, MayLapse
<1>6. CASE Activate(r)
  BY <1>6, ActivateStep DEF Activate, RequestInv, Serves, MayLapse
<1> QED
  BY <1>1, <1>2, <1>3, <1>4, <1>5, <1>6 DEF ServeRequest

LEMMA SubmitOutcomeStep ==
  ASSUME TypeOK, SessionShape, NEW h \in Handlers, SubmitOutcome(h)
  PROVE  Sends
<1>1. PICK s \in Attempts, result \in {"verified", "failed"} :
        /\ sessions[s].status = "pending"
        /\ Emit([session |-> s, result |-> result, at |-> now, other |-> FALSE])
        /\ delivery' = [delivery EXCEPT ![h] =
             [event |-> [session |-> s, result |-> result, at |-> now, other |-> FALSE], at |-> now]]
  BY DEF SubmitOutcome
<1> DEFINE e == [session |-> s, result |-> result, at |-> now, other |-> FALSE]
<1>2. e \in Event /\ e.session = s
  BY DEF Event, Result, TypeOK
<1>3. s \in DOMAIN hosted
  BY <1>1 DEF SessionShape, Unopened
<1>4. issued' = issued \cup {e} /\ delivery' = [delivery EXCEPT ![h] = [event |-> e, at |-> now]]
  BY <1>1 DEF Emit
<1>5. Resting /\ UNCHANGED <<now, filed, hosted, decision>>
  BY DEF SubmitOutcome, Resting, rows
<1> HIDE DEF e
<1> QED
  BY <1>2, <1>3, <1>4, <1>5 DEF Sends

LEMMA ProviderReportsStep ==
  ASSUME TypeOK, ProviderReports
  PROVE  Sends
<1> USE KycAssumption
<1>1. PICK s \in DOMAIN hosted, result \in Result, at \in now .. now + MaxAhead, other \in Claims :
        Emit([session |-> s, result |-> result, at |-> at, other |-> other])
  BY DEF ProviderReports
<1> DEFINE e == [session |-> s, result |-> result, at |-> at, other |-> other]
<1>2. e \in Event /\ e.session \in DOMAIN hosted
  BY DEF Event, TypeOK
<1>3. issued' = issued \cup {e}
  BY <1>1 DEF Emit
<1>4. Resting /\ UNCHANGED <<now, filed, hosted, delivery, decision>>
  BY DEF ProviderReports, Resting, rows
<1> HIDE DEF e
<1> QED
  BY <1>2, <1>3, <1>4 DEF Sends

LEMMA ReceiveStep ==
  ASSUME TypeOK, DeliveryInv, NEW h \in Handlers, Receive(h)
  PROVE  Sends
<1>1. PICK e \in issued : delivery' = [delivery EXCEPT ![h] = [event |-> e, at |-> now]]
  BY DEF Receive
<1>2. e \in Event /\ e.session \in DOMAIN hosted /\ issued' = issued \cup {e}
  BY DEF Receive, outside, TypeOK, DeliveryInv
<1>3. Resting /\ UNCHANGED <<now, filed, hosted, decision>>
  BY DEF Receive, Resting, rows, outside
<1> QED
  BY <1>1, <1>2, <1>3 DEF Sends

LEMMA ProcessEventStep ==
  ASSUME TypeOK, NEW h \in Handlers, LoseDelivery(h) \/ ProcessEvent(h)
  PROVE  Handles(h)
<1> DEFINE e == delivery[h].event
<1> DEFINE Files(d) ==
      /\ delivery[h] # Null
      /\ delivery' = [delivery EXCEPT ![h] = Null]
      /\ e \notin DOMAIN filed
      /\ DOMAIN filed' = DOMAIN filed \cup {e}
      /\ filed'[e] = d
      /\ \A f \in DOMAIN filed : filed'[f] = filed[f]
<1>0. ASSUME NEW d, Insert(h), Mark(h, d) PROVE Files(d)
  BY <1>0 DEF Insert, Mark
<1>1. CASE LoseDelivery(h) \/ IgnoreDuplicate(h)
  BY <1>1 DEF LoseDelivery, IgnoreDuplicate, Handles, Resting, rows, outside
<1>2. ASSUME NEW d \in Disposition, d # "processed", Insert(h), Mark(h, d),
             UNCHANGED <<now, hosted, issued, decision>>, Resting \/ Expires(e.session)
      PROVE  Handles(h)
  <2>1. Files(d)
    BY <1>0, <1>2
  <2> QED
    BY <1>2, <2>1 DEF Handles
<1>3. CASE RejectEvent(h) \/ RejectMismatch(h) \/ IgnoreStale(h)
  <2>1. Insert(h) /\ (Mark(h, "rejected") \/ Mark(h, "ignored_stale"))
    BY <1>3 DEF RejectEvent, RejectMismatch, IgnoreStale, Owned, Current, InScope
  <2>2. Resting /\ UNCHANGED <<now, hosted, issued, decision>>
    BY <1>3 DEF RejectEvent, RejectMismatch, IgnoreStale, Resting, rows, outside
  <2> QED
    BY <1>2, <2>1, <2>2 DEF Disposition
<1>4. CASE IgnoreExpired(h)
  <2>1. Insert(h) /\ Mark(h, "ignored_expired")
    BY <1>4 DEF IgnoreExpired, InScope
  <2>2. e.session \in Attempts
    BY <2>1 DEF Insert, TypeOK, Event
  <2>3. Expires(e.session)
    BY <1>4, <2>2, ExpireMoves DEF IgnoreExpired
  <2> QED
    BY <1>2, <1>4, <2>1, <2>3 DEF IgnoreExpired, Disposition, outside
<1>5. CASE NotePending(h) \/ ApplyResult(h)
  <2>1. Owned(h) /\ Mark(h, "processed") /\ ~IsStale(e) /\ UpdateFromEvent(e.session, e.result, e.at)
    BY <1>5 DEF NotePending, ApplyResult
  <2>2. Insert(h) /\ ~TooFarAhead(e, delivery[h].at) /\ ~Unknown(e) /\ ~SessionExpired(e.session, delivery[h].at)
    BY <2>1 DEF Owned, Current, InScope
  <2>3. delivery[h] \in Claim /\ delivery[h] # Null /\ e.session \in Attempts
    BY <2>2 DEF Insert, TypeOK, Claim, Event
  <2>4. Files("processed")
    BY <1>0, <2>1, <2>2
  <2>5. Accepts(h)
    BY <2>1, <2>2, <2>3, UpdateTakes DEF Accepts, Insert, Unknown, SessionExpired
  <2>6. Notes(h) \/ Applies(h)
    BY <1>5, <2>5, MoveMoves DEF NotePending, ApplyResult, Notes, Applies
  <2>7. UNCHANGED <<now, hosted, issued, decision>>
    BY <1>5 DEF NotePending, ApplyResult, outside
  <2> QED
    BY <2>4, <2>6, <2>7 DEF Handles, Disposition
<1> QED
  BY <1>1, <1>3, <1>4, <1>5 DEF ProcessEvent

LEMMA DecideStep ==
  ASSUME TypeOK, DecisionInv, NEW a \in Admins, ReadReview(a) \/ Decide(a) \/ DropDecision(a)
  PROVE  Administers(a)
<1>1. CASE ReadReview(a)
  BY <1>1 DEF ReadReview, Administers, Resting, rows, outside
<1>2. CASE DropDecision(a)
  BY <1>2 DEF DropDecision, Administers, Resting, rows, outside
<1>3. CASE Decide(a)
  <2> DEFINE s == reviews[decision[a].review].session
             outcome == decision[a].outcome
  <2>1. /\ decision[a] # Null /\ decision[a].review \in Reviews /\ s \in Attempts
        /\ outcome \in {"verified", "failed", "pending"}
    BY <1>3 DEF Decide, Decidable, DecisionInv, TypeOK
  <2>2. UpdateFromEvent(s, outcome, now)
    BY <1>3 DEF Decide
  <2>3. Takes(s, outcome, now)
    BY <2>1, <2>2, UpdateTakes
  <2>4. Decides(a)
    BY <1>3, <2>1, <2>3, MoveMoves DEF Decide, Decidable, Decides
  <2> QED
    BY <1>3, <2>4 DEF Decide, Administers, outside
<1> QED
  BY <1>1, <1>2, <1>3

\* Every step is one of these.
LEMMA Kinds ==
  ASSUME IInv, [Next]_vars
  PROVE  \/ Ticks \/ Serves \/ Hosts \/ Sends
         \/ \E h \in Handlers : Handles(h)
         \/ \E a \in Admins : Administers(a)
<1> USE DEF IInv, RowInv
<1>1. CASE Tick
  BY <1>1 DEF Tick, Ticks, Resting, rows, outside
<1>2. CASE ReadStatus \/ ExpireVerification
  BY <1>2, LapseMoves DEF ReadStatus, ExpireVerification, DueVerified, Serves, MayLapse, Delivered, outside
<1>3. ASSUME NEW i \in Reviews, OpenReview(i) \/ AssignReview(i) PROVE Serves
  BY <1>3 DEF OpenReview, AssignReview, Serves, MayLapse, Delivered, outside
<1>4. ASSUME NEW s \in Attempts, ExpireSession(s) PROVE Serves
  BY <1>4, ExpireMoves DEF ExpireSession, Due, SessionExpired, Serves, Delivered, outside
<1>5. CASE UNCHANGED vars
  BY <1>5 DEF vars, Serves, MayLapse, Delivered, rows, outside
<1> QED
  BY <1>1, <1>2, <1>3, <1>4, <1>5, ServeRequestStep, SubmitOutcomeStep, ProviderReportsStep,
     ReceiveStep, ProcessEventStep, DecideStep
  DEF Next, FindNothingDue

-----------------------------------------------------------------------------
(* The rows of the player.                                                 *)

\* What a lapse, an expiry, a result or a decision does to the reviews.
LEMMA ReviewsKinds == TypeOK /\ DecisionInv /\ RequestInv /\ [Next]_vars => ReviewsMove
<1> SUFFICES ASSUME TypeOK, DecisionInv, RequestInv, [Next]_vars PROVE ReviewsMove
  OBVIOUS
<1> DEFINE Moves ==
      \E to \in KycStatus, s \in Attempts \cup {0}, verifiedAt, expiresAt \in Date,
         e \in Event \cup {Null}, i \in Reviews \cup {Null} :
        Move(to, s, verifiedAt, expiresAt, e, i)
<1>0. Null \in Date /\ profile.verifiedAt \in Date /\ profile.expiresAt \in Date
      /\ profile.current \in Attempts \cup {0} /\ sessions \in [Attempts -> Session] /\ now \in Nat
  BY DEF TypeOK, Profile, Date
<1>1. ASSUME NEW to, NEW s \in Attempts \cup {0}, NEW verifiedAt \in Date, NEW expiresAt \in Date,
             NEW e \in Event \cup {Null}, NEW i \in Reviews \cup {Null},
             Move(to, s, verifiedAt, expiresAt, e, i)
      PROVE  Moves
  <2>1. to \in KycStatus
    BY <1>1, MoveTypes
  <2> QED
    BY <1>1, <2>1
<1>2. CASE UNCHANGED <<profile, reviews>>
  BY <1>2 DEF ReviewsMove
<1>3. CASE Lapse
  <2>1. Moves
    BY <1>0, <1>1, <1>3 DEF Lapse
  <2> QED
    BY <2>1 DEF ReviewsMove
<1>4. ASSUME NEW s \in Attempts, NEW at, Expire(s, at) PROVE ReviewsMove
  <2>1. sessions[s].expiresAt \in Date
    BY <1>0 DEF Session
  <2>2. CASE Move("expired", s, profile.verifiedAt, sessions[s].expiresAt, Null, Null)
    <3>1. Moves
      BY <1>0, <1>1, <2>1, <2>2
    <3> QED
      BY <3>1 DEF ReviewsMove
  <2> QED
    BY <1>2, <1>4, <2>2 DEF Expire
<1>5. ASSUME NEW r \in Requests, Activate(r) PROVE ReviewsMove
  <2>1. request[r].session \in Attempts
    BY <1>5 DEF Activate, RequestInv
  <2>2. CASE Move("pending", request[r].session, profile.verifiedAt, Null, Null, Null)
    <3>1. Moves
      BY <1>0, <1>1, <2>1, <2>2
    <3> QED
      BY <3>1 DEF ReviewsMove
  <2> QED
    BY <1>2, <1>5, <2>2 DEF Activate, Activated, rows
<1>6. ASSUME NEW h \in Handlers, ApplyResult(h) PROVE ReviewsMove
  <2> DEFINE e == delivery[h].event
             at == delivery[h].at
             verifiedAt == IF e.result = "verified" THEN at ELSE profile.verifiedAt
             expiresAt == CASE e.result = "verified" -> at + VerificationTtl
                            [] e.result = "expired" -> at
                            [] OTHER -> Null
  <2>1. delivery[h] # Null
    BY <1>6 DEF ApplyResult, Owned, Current, InScope, Insert
  <2>2. e \in Event /\ e.session \in Attempts /\ at \in Nat
    BY <2>1 DEF TypeOK, Event
  <2>3. verifiedAt \in Date /\ expiresAt \in Date
    BY <1>0, <2>2, KycAssumption DEF Date
  <2>4. Move(e.result, e.session, verifiedAt, expiresAt, e, Null)
    BY <1>6 DEF ApplyResult
  <2>5. Moves
    <3> HIDE DEF e, at, verifiedAt, expiresAt, Moves
    <3> QED
      BY <1>1, <2>2, <2>3, <2>4
  <2> QED
    BY <2>5 DEF ReviewsMove
<1>7. ASSUME NEW a \in Admins, Decide(a) PROVE ReviewsMove
  <2> DEFINE i == decision[a].review
             outcome == decision[a].outcome
             s == reviews[i].session
             verifiedAt == IF outcome = "verified" THEN now ELSE profile.verifiedAt
             expiresAt == IF outcome = "verified" THEN now + VerificationTtl ELSE Null
  <2>1. i \in Reviews /\ s \in Attempts
    BY <1>7 DEF Decide, Decidable, DecisionInv, TypeOK
  <2>2. verifiedAt \in Date /\ expiresAt \in Date
    BY <1>0, KycAssumption DEF Date
  <2>3. Move(outcome, s, verifiedAt, expiresAt, Null, i)
    BY <1>7 DEF Decide
  <2>4. Moves
    <3> HIDE DEF i, outcome, s, verifiedAt, expiresAt, Moves
    <3> QED
      BY <1>1, <2>1, <2>2, <2>3
  <2> QED
    BY <2>4 DEF ReviewsMove
<1>8. ASSUME NEW i \in Reviews, OpenReview(i) \/ AssignReview(i) PROVE ReviewsMove
  BY <1>8 DEF OpenReview, AssignReview, Opened, ReviewsMove
<1>9. ASSUME NEW r \in Requests, CheckEligibility(r) \/ ServeRequest(r) \/ CrashRequest(r)
      PROVE  ReviewsMove
  BY <1>2, <1>3, <1>5, <1>9
  DEF CheckEligibility, ServeRequest, CrashRequest, RefuseStart, ReuseSession, CreateIntent,
      CreateVerificationSession, ProviderFails, MarkProviderFailure, LapseIfDue, rows
<1>10. ASSUME NEW h \in Handlers, Receive(h) \/ SubmitOutcome(h) \/ LoseDelivery(h) \/ ProcessEvent(h)
       PROVE  ReviewsMove
  <2>1. CASE IgnoreExpired(h)
    <3>1. delivery[h].event.session \in Attempts
      BY <2>1 DEF IgnoreExpired, InScope, Insert, TypeOK, Event
    <3> QED
      BY <1>4, <2>1, <3>1 DEF IgnoreExpired
  <2> QED
    BY <1>2, <1>6, <1>10, <2>1
    DEF Receive, SubmitOutcome, LoseDelivery, ProcessEvent, IgnoreDuplicate, RejectEvent,
        RejectMismatch, IgnoreStale, NotePending, rows
<1> QED
  BY <1>2, <1>3, <1>4, <1>7, <1>8, <1>9, <1>10
  DEF Next, Tick, ReadStatus, ProviderReports, ReadReview, DropDecision, ExpireSession,
      ExpireVerification, FindNothingDue, vars, rows

\* The active review follows the profile into and out of manual review.
LEMMA ReviewWhileParkedKept == TypeOK /\ ReviewWhileParked /\ ReviewsMove => ReviewWhileParked'
<1> SUFFICES ASSUME TypeOK, ReviewWhileParked, ReviewsMove PROVE ReviewWhileParked'
  OBVIOUS
<1>0. reviews \in [Reviews -> Review]
  BY DEF TypeOK
<1>1. CASE UNCHANGED <<reviews, profile>>
  BY <1>1 DEF ReviewWhileParked, Active
<1>2. ASSUME NEW to \in KycStatus, NEW s, NEW verifiedAt, NEW expiresAt, NEW e, NEW i,
             Move(to, s, verifiedAt, expiresAt, e, i)
      PROVE  ReviewWhileParked'
  <2>1. profile'.status = to /\ profile'.current = s
    BY <1>2 DEF Move, UpdateStatus
  <2>2. CASE profile.status # "manual_review" /\ to = "manual_review"
    <3>1. PICK j \in Reviews :
            /\ reviews[j].status = "absent"
            /\ reviews' = [reviews EXCEPT ![j].status = "requested", ![j].session = s]
      BY <1>2, <2>2 DEF Move, Reviewed, Requested
    <3>2. reviews'[j].status = "requested" /\ reviews'[j].session = s
      BY <1>0, <3>1 DEF Review
    <3>3. \A k \in Reviews \ {j} : ~Active(k)'
      BY <1>0, <2>2, <3>1 DEF ReviewWhileParked, Active
    <3> QED
      BY <2>1, <2>2, <3>2, <3>3 DEF ReviewWhileParked, Active
  <2>3. CASE profile.status = "manual_review" /\ to # "manual_review"
    <3>1. reviews' = [j \in Reviews |->
                        IF Active(j)
                        THEN [reviews[j] EXCEPT !.status = "completed", !.outcome = to]
                        ELSE reviews[j]]
      BY <1>2, <2>3 DEF Move, Reviewed, Completed
    <3>2. \A j \in Reviews : ~Active(j)'
      BY <1>0, <3>1 DEF Active, Review
    <3> QED
      BY <2>1, <2>3, <3>2 DEF ReviewWhileParked
  <2>4. CASE profile.status # "manual_review" /\ to # "manual_review"
    BY <1>2, <2>1, <2>4 DEF Move, Reviewed, ReviewWhileParked, Active
  <2>5. CASE profile.status = "manual_review" /\ to = "manual_review"
    BY <1>2, <2>5 DEF Move, CanTransition, Edges
  <2> QED
    BY <2>2, <2>3, <2>4, <2>5
<1>3. ASSUME NEW i \in Reviews, NEW status \in {"open", "assigned"},
             Active(i), reviews' = [reviews EXCEPT ![i].status = status], profile' = profile
      PROVE  ReviewWhileParked'
  <2>1. /\ \A j \in Reviews : Active(j)' <=> Active(j)
        /\ \A j \in Reviews : reviews'[j].session = reviews[j].session
    BY <1>0, <1>3 DEF Active, Review
  <2> QED
    BY <1>3, <2>1 DEF ReviewWhileParked
<1> QED
  BY <1>1, <1>2, <1>3 DEF ReviewsMove

\* A review keeps its session, and is never deleted.
LEMMA ReviewsStay ==
  ASSUME TypeOK, ReviewsMove, NEW i \in Reviews, reviews[i].status # "absent"
  PROVE  reviews'[i].status # "absent" /\ reviews'[i].session = reviews[i].session
<1>0. reviews \in [Reviews -> Review]
  BY DEF TypeOK
<1>1. ASSUME NEW to, NEW s, NEW j, Reviewed(to, s, j)
      PROVE  reviews'[i].status # "absent" /\ reviews'[i].session = reviews[i].session
  <2>1. CASE Requested(s)
    BY <1>0, <2>1 DEF Requested, Review
  <2>2. CASE Completed(to, j)
    BY <1>0, <2>2 DEF Completed, Review
  <2>3. CASE UNCHANGED reviews
    BY <2>3
  <2> QED
    BY <1>1, <2>1, <2>2, <2>3 DEF Reviewed
<1>2. ASSUME NEW j \in Reviews, NEW status \in {"open", "assigned"},
             reviews' = [reviews EXCEPT ![j].status = status]
      PROVE  reviews'[i].status # "absent" /\ reviews'[i].session = reviews[i].session
  BY <1>0, <1>2 DEF Review
<1> QED
  BY <1>1, <1>2 DEF ReviewsMove, Move

\* What an event may conclude, it finds under way and current.
LEMMA AcceptsUnder ==
  ASSUME TypeOK, RowInv, NEW h \in Handlers, Accepts(h)
  PROVE  LET s == delivery[h].event.session
         IN /\ delivery[h].event \in Event /\ delivery[h].at \in Nat
            /\ s \in Attempts /\ Under(s)
            /\ profile.current = s /\ profile.status = sessions[s].status
            /\ delivery[h].event.result \in Result
<1> DEFINE e == delivery[h].event
<1>1. e \in Event /\ delivery[h].at \in Nat /\ e.session \in Attempts /\ e.result \in Result
  BY DEF Accepts, Claim, Event
<1>2. profile.current = e.session /\ sessions[e.session].status \notin Decided
  BY DEF Accepts, IsStale
<1>3. sessions[e.session].status \notin Unopened /\ sessions[e.session].status \in SessionStatus
  BY <1>1 DEF Accepts, RowInv, SessionShape, TypeOK, Session
<1>4. Under(e.session)
  BY <1>2, <1>3 DEF Under, SessionStatus, Unopened, Decided
<1>5. profile.status = sessions[e.session].status
  BY <1>1, <1>2, <1>4, KycAssumption DEF RowInv, ProfileFollowsSession, Under, Undecided
<1> QED
  BY <1>1, <1>2, <1>4, <1>5

\* So does a decision, while its transaction may be open.
LEMMA DecidesUnder ==
  ASSUME TypeOK, RowInv, DecisionInv, NEW a \in Admins, Decides(a)
  PROVE  LET s == reviews[decision[a].review].session
         IN /\ s \in Attempts /\ sessions[s].status = "manual_review"
            /\ profile.current = s /\ profile.status = "manual_review"
<1> DEFINE s == reviews[decision[a].review].session
<1>1. s \in Attempts /\ s # 0
  BY KycAssumption DEF Decides
<1>2. CASE sessions[s].status = "verified"
  <2>1. profile.status = "verified"
    BY <1>2 DEF Decides, DecisionInv
  <2> QED
    BY <2>1 DEF Decides, Moved, CanTransition, Edges
<1>3. CASE sessions[s].status = "manual_review"
  <2>1. profile.current = s
    BY <1>1, <1>3 DEF RowInv, ProfileFollowsSession, Under, Undecided
  <2> QED
    BY <1>1, <1>3, <2>1 DEF RowInv, ProfileFollowsSession
<1> QED
  BY <1>2, <1>3 DEF Decides

\* Nothing changes in what sessions and the profile say.
Same ==
  /\ profile' = profile
  /\ \A q \in Attempts : /\ sessions'[q].status = sessions[q].status
                         /\ sessions'[q].expiresAt = sessions[q].expiresAt

\* The session under way and the profile change together.
Concludes(s, to) ==
  /\ Under(s) /\ profile.current = s /\ profile.status = sessions[s].status
  /\ to \in Result
  /\ Changed(s, to)
  /\ sessions'[s].expiresAt = sessions[s].expiresAt
  /\ profile'.status = to /\ profile'.current = s

LEMMA ExpiresKinds ==
  ASSUME TypeOK, RowInv, NEW s \in Attempts, Expires(s)
  PROVE  Same \/ Concludes(s, "expired")
<1>1. s # 0
  BY KycAssumption
<1>2. CASE profile.current = s /\ profile.status \in Undecided
  <2>1. profile.status = sessions[s].status
    BY <1>1, <1>2 DEF RowInv, ProfileFollowsSession, Undecided
  <2> QED
    BY <1>2, <2>1 DEF Expires, Moved, Concludes, Under, Result
<1>3. CASE ~(profile.current = s /\ profile.status \in Undecided)
  <2>1. sessions[s].status \notin Undecided
    BY <1>1, <1>3 DEF RowInv, ProfileFollowsSession, Under, Undecided
  <2> QED
    BY <1>3, <2>1 DEF Expires, Same, Changed, Undecided
<1> QED
  BY <1>2, <1>3

LEMMA NotesKinds ==
  ASSUME TypeOK, RowInv, NEW h \in Handlers, Notes(h)
  PROVE  Same
<1> DEFINE s == delivery[h].event.session
<1>1. s \in Attempts /\ sessions[s].status = "pending"
  BY AcceptsUnder DEF Notes, Accepts, IsStale
<1> QED
  BY <1>1 DEF Notes, Accepts, Takes, Changed, Same

LEMMA AppliesKinds ==
  ASSUME TypeOK, RowInv, NEW h \in Handlers, Applies(h)
  PROVE  Concludes(delivery[h].event.session, delivery[h].event.result)
<1>1. Accepts(h)
  BY DEF Applies
<1> QED
  BY <1>1, AcceptsUnder DEF Applies, Accepts, Takes, Moved, Concludes

LEMMA DecidesKinds ==
  ASSUME TypeOK, RowInv, DecisionInv, NEW a \in Admins, Decides(a)
  PROVE  Concludes(reviews[decision[a].review].session, decision[a].outcome)
  BY DecidesUnder DEF Decides, Takes, Moved, Concludes, Under, Undecided, Result

\* What the rows of sessions and profile do in a step.
RowStep ==
  \/ Same
  \/ Lapses /\ UNCHANGED sessions
  \/ \E s \in Attempts : Creates(s) \/ Fails(s) \/ Activates(s)
  \/ \E s \in Attempts, to \in Result : Concludes(s, to)

LEMMA RowKinds == IInv /\ [Next]_vars => RowStep
<1> SUFFICES ASSUME IInv, [Next]_vars PROVE RowStep
  OBVIOUS
<1> USE DEF IInv
<1>1. CASE Resting
  BY <1>1 DEF Resting, Same, RowStep
<1>2. CASE Serves
  <2>1. ASSUME NEW s \in Attempts, Expires(s) PROVE RowStep
    BY <2>1, ExpiresKinds DEF RowStep, Result
  <2> QED
    BY <1>2, <2>1 DEF Serves, MayLapse, RowStep, Same
<1>3. ASSUME NEW h \in Handlers, Handles(h) PROVE RowStep
  <2> DEFINE e == delivery[h].event
  <2>1. delivery[h] # Null => e.session \in Attempts /\ e.result \in Result
    BY DEF TypeOK, Event
  <2>2. CASE Expires(e.session)
    BY <1>3, <2>1, <2>2, ExpiresKinds DEF Handles, RowStep, Result
  <2>3. CASE Notes(h)
    BY <2>3, NotesKinds DEF RowStep
  <2>4. CASE Applies(h)
    BY <1>3, <2>1, <2>4, AppliesKinds DEF Handles, RowStep
  <2> QED
    BY <1>1, <1>3, <2>2, <2>3, <2>4 DEF Handles
<1>4. ASSUME NEW a \in Admins, Administers(a) PROVE RowStep
  <2>1. CASE Decides(a)
    BY <2>1, DecidesKinds, DecidesUnder DEF Decides, RowStep, Result
  <2> QED
    BY <1>1, <1>4, <2>1 DEF Administers
<1> QED
  BY <1>1, <1>2, <1>3, <1>4, Kinds DEF Ticks, Hosts, Sends

\* The session a profile rests on was opened.
LEMMA CurrentOpened ==
  ASSUME TypeOK, RowInv, profile.current # 0
  PROVE  profile.current \in Attempts /\ sessions[profile.current].status \in Result
  BY DEF TypeOK, Profile, RowInv, ProfileFollowsSession, Started, KycStatus, Result

Attempted == OneHolding /\ InOrder /\ Started /\ CreatingFresh /\ ProfileFollowsSession

\* The index, the numbering and the agreement of session and profile are kept.
LEMMA AttemptedKept == TypeOK /\ RowInv /\ RowStep => Attempted'
<1> SUFFICES ASSUME TypeOK, RowInv, RowStep PROVE Attempted'
  OBVIOUS
<1> USE DEF RowInv
<1>0. /\ profile.status \in KycStatus /\ profile.current \in Attempts \cup {0}
      /\ \A q \in Attempts : q \in Nat /\ q # 0 /\ sessions[q].status \in SessionStatus
  BY KycAssumption DEF TypeOK, Profile, Session
<1>1. CASE Same
  <2>1. profile' = profile /\ \A q \in Attempts : sessions'[q].status = sessions[q].status
    BY <1>1 DEF Same
  <2>2. OneHolding' /\ CreatingFresh' /\ Started'
    BY <2>1 DEF OneHolding, CreatingFresh, Started, Holds
  <2>3. InOrder'
    BY <2>1 DEF InOrder
  <2>4. ProfileFollowsSession'
    BY <1>0, <2>1 DEF ProfileFollowsSession, Under
  <2> QED
    BY <2>2, <2>3, <2>4 DEF Attempted
<1>2. CASE Lapses /\ UNCHANGED sessions
  <2>1. /\ profile.status = "verified" /\ profile'.status = "expired"
        /\ profile'.current = profile.current
    BY <1>2 DEF Lapses, Moved, Lapsed
  <2> QED
    BY <1>0, <1>2, <2>1
    DEF Attempted, OneHolding, InOrder, Started, CreatingFresh, ProfileFollowsSession,
        Holds, Under, Startable, Undecided
<1>3. ASSUME NEW s \in Attempts, Creates(s) PROVE Attempted'
  <2>1. profile'.current = profile.current /\ profile.current # s
    BY <1>0, <1>3, CurrentOpened DEF Creates, Lapses, Moved, Fresh, Result
  <2>2. profile'.status \in Startable
    <3>1. profile.current # 0 => sessions[profile.current].status \notin Undecided
      BY <1>3, CurrentOpened DEF Creates, Holds, Holding, Undecided
    <3>2. profile.status \notin Undecided
      BY <1>0, <3>1 DEF ProfileFollowsSession, Started, Undecided
    <3> QED
      BY <1>0, <1>3, <3>2 DEF Creates, Lapses, Moved, Startable, KycStatus, Undecided
  <2>3. profile'.status = profile.status \/ (profile.status = "verified" /\ profile'.status = "expired")
    BY <1>3 DEF Creates, Lapses, Moved, Lapsed
  <2>4. OneHolding' /\ CreatingFresh'
    BY <1>3, <2>2 DEF Creates, Changed, OneHolding, Holds, Holding, CreatingFresh
  <2>5. InOrder'
    BY <1>0, <1>3 DEF Creates, Changed, Fresh, InOrder, Holds, Holding
  <2>6. Started' /\ ProfileFollowsSession'
    BY <1>0, <1>3, <2>1, <2>3
    DEF Creates, Changed, Started, ProfileFollowsSession, Under, Undecided, Holds, Holding
  <2> QED
    BY <2>4, <2>5, <2>6 DEF Attempted
<1>4. ASSUME NEW s \in Attempts, Fails(s) PROVE Attempted'
  <2>1. profile.current # s
    BY <1>0, <1>4, CurrentOpened DEF Fails, Result
  <2> QED
    BY <1>0, <1>4, <2>1
    DEF Fails, Changed, Attempted, OneHolding, InOrder, Started, CreatingFresh,
        ProfileFollowsSession, Holds, Holding, Under, Undecided
<1>5. ASSUME NEW s \in Attempts, Activates(s) PROVE Attempted'
  <2>1. \A q \in Attempts \ {s} : ~Holds(q)
    BY <1>5 DEF Activates, OneHolding, Holds, Holding
  <2>2. profile'.status = "pending" /\ profile'.current = s
    BY <1>5 DEF Activates, Moved
  <2>3. sessions'[s].status = "pending" /\ \A q \in Attempts \ {s} : sessions'[q] = sessions[q]
    BY <1>5 DEF Activates, Changed
  <2>4. OneHolding' /\ CreatingFresh'
    BY <2>1, <2>3 DEF OneHolding, CreatingFresh, Holds, Holding
  <2>5. InOrder'
    BY <1>0, <1>5, <2>3 DEF Activates, InOrder
  <2>6. Started' /\ ProfileFollowsSession'
    BY <1>0, <2>1, <2>2, <2>3
    DEF Started, ProfileFollowsSession, Under, Undecided, Holds, Holding
  <2> QED
    BY <2>4, <2>5, <2>6 DEF Attempted
<1>6. ASSUME NEW s \in Attempts, NEW to \in Result, Concludes(s, to) PROVE Attempted'
  <2>1. \A q \in Attempts \ {s} : ~Holds(q)
    BY <1>6 DEF Concludes, OneHolding, Holds, Holding, Under
  <2>2. profile'.status = to /\ profile'.current = s
    BY <1>6 DEF Concludes
  <2>3. sessions'[s].status = to /\ \A q \in Attempts \ {s} : sessions'[q] = sessions[q]
    BY <1>6 DEF Concludes, Changed
  <2>4. OneHolding' /\ CreatingFresh'
    BY <2>1, <2>3 DEF OneHolding, CreatingFresh, Holds, Holding, Result
  <2>5. InOrder'
    BY <1>0, <1>6, <2>3 DEF Concludes, InOrder, Under, Undecided, Result
  <2>6. Started' /\ ProfileFollowsSession'
    BY <1>0, <2>1, <2>2, <2>3
    DEF Started, ProfileFollowsSession, Under, Undecided, Holds, Holding, Result
  <2> QED
    BY <2>4, <2>5, <2>6 DEF Attempted
<1> QED
  BY <1>1, <1>2, <1>3, <1>4, <1>5, <1>6 DEF RowStep

\* A session keeps its expiry from its activation on, and once created is
\* never absent again.
LEMMA SessionsStay ==
  ASSUME TypeOK, RowInv, RowStep, NEW s \in Attempts
  PROVE  /\ sessions[s].status # "absent" => sessions'[s].status # "absent"
         /\ sessions[s].expiresAt # Null => sessions'[s].expiresAt = sessions[s].expiresAt
         /\ Holds(s)' => Holds(s) \/ (sessions[s].status = "absent" /\ Creates(s))
<1>1. CASE Same
  BY <1>1 DEF Same, Holds
<1>2. CASE UNCHANGED sessions
  BY <1>2 DEF Holds
<1>3. ASSUME NEW q \in Attempts, Creates(q)
      PROVE  /\ sessions[s].status # "absent" => sessions'[s].status # "absent"
             /\ sessions'[s].expiresAt = sessions[s].expiresAt
             /\ Holds(s)' => Holds(s) \/ (sessions[s].status = "absent" /\ Creates(s))
  BY <1>3 DEF Creates, Changed, Holds, Fresh
<1>4. ASSUME NEW q \in Attempts, Fails(q)
      PROVE  /\ sessions[s].status # "absent" => sessions'[s].status # "absent"
             /\ sessions'[s].expiresAt = sessions[s].expiresAt
             /\ Holds(s)' => Holds(s)
  BY <1>4 DEF Fails, Changed, Holds, Holding, Undecided
<1>5. ASSUME NEW q \in Attempts, Activates(q)
      PROVE  /\ sessions[s].status # "absent" => sessions'[s].status # "absent"
             /\ sessions[s].expiresAt # Null => sessions'[s].expiresAt = sessions[s].expiresAt
             /\ Holds(s)' => Holds(s)
  BY <1>5 DEF Activates, Changed, Holds, Holding, RowInv, SessionShape, Unopened
<1>6. ASSUME NEW q \in Attempts, NEW to \in Result, Concludes(q, to)
      PROVE  /\ sessions[s].status # "absent" => sessions'[s].status # "absent"
             /\ sessions'[s].expiresAt = sessions[s].expiresAt
             /\ Holds(s)' => Holds(s)
  BY <1>6 DEF Concludes, Changed, Holds, Holding, Result, Under
<1> QED
  BY <1>1, <1>2, <1>3, <1>4, <1>5, <1>6 DEF RowStep

\* The provider never forgets a session, nor changes its expiry.
LEMMA HostedStays ==
  ASSUME IInv, [Next]_vars
  PROVE  /\ \A s \in DOMAIN hosted : s \in DOMAIN hosted' /\ hosted'[s] = hosted[s]
         /\ \A s \in DOMAIN hosted' : s \in DOMAIN hosted \/ (hosted'[s] >= now /\ sessions[s].status # "absent")
<1>1. CASE UNCHANGED hosted
  BY <1>1
<1>2. CASE Hosts
  BY <1>2 DEF Hosts
<1> QED
  BY <1>1, <1>2, Kinds DEF Ticks, Serves, Delivered, Sends, Handles, Administers

\* A session has its provider's expiry, from its activation on.
LEMMA SessionShapeKept == IInv /\ [Next]_vars => SessionShape'
<1> SUFFICES ASSUME IInv, [Next]_vars PROVE SessionShape'
  OBVIOUS
<1> USE DEF IInv, RowInv
<1>1. RowStep
  BY RowKinds
<1>2. \A s \in Attempts : s \in DOMAIN hosted' => sessions'[s].status # "absent"
  BY <1>1, HostedStays, SessionsStay DEF SessionShape
<1>3. ASSUME NEW s \in Attempts
      PROVE  /\ sessions'[s].expiresAt = Null <=> sessions'[s].status \in Unopened
             /\ sessions'[s].expiresAt # Null =>
                  s \in DOMAIN hosted' /\ sessions'[s].expiresAt = hosted'[s]
  <2>1. CASE /\ sessions'[s].status \in Unopened <=> sessions[s].status \in Unopened
             /\ sessions'[s].expiresAt = sessions[s].expiresAt
    BY <2>1, HostedStays DEF SessionShape
  <2>2. CASE Activates(s)
    <3>1. hosted[s] \in Nat /\ s \in DOMAIN hosted' /\ hosted'[s] = hosted[s]
      BY <2>2, HostedStays DEF Activates, TypeOK
    <3>2. sessions'[s].expiresAt = hosted[s] /\ sessions'[s].status = "pending"
      BY <2>2 DEF Activates, Changed
    <3> QED
      BY <3>1, <3>2, NullAssumption DEF Unopened
  <2>3. CASE Same \/ UNCHANGED sessions
    BY <2>1, <2>3 DEF Same
  <2>4. CASE \E q \in Attempts : Creates(q) \/ Fails(q) \/ (Activates(q) /\ q # s)
    BY <2>1, <2>4 DEF Creates, Fails, Activates, Changed, Fresh, Unopened
  <2>5. CASE \E q \in Attempts, to \in Result : Concludes(q, to)
    BY <2>1, <2>5 DEF Concludes, Changed, Under, Undecided, Unopened, Result
  <2> QED
    BY <1>1, <2>2, <2>3, <2>4, <2>5 DEF RowStep
<1> QED
  BY <1>2, <1>3 DEF SessionShape

LEMMA RowInvKept == IInv /\ [Next]_vars => RowInv'
  BY RowKinds, AttemptedKept, SessionShapeKept, ReviewsKinds, ReviewWhileParkedKept
  DEF IInv, RowInv, Attempted

-----------------------------------------------------------------------------
(* What requests, deliveries and administrators hold.                      *)

LEMMA RequestInvKept == IInv /\ [Next]_vars => RequestInv'
<1> SUFFICES ASSUME IInv, [Next]_vars PROVE RequestInv'
  OBVIOUS
<1> USE DEF IInv
<1>0. request \in [Requests -> Request]
  BY DEF TypeOK
<1>1. \A s \in Attempts : sessions[s].status # "absent" => sessions'[s].status # "absent"
  BY RowKinds, SessionsStay
<1>2. \A s \in DOMAIN hosted : s \in DOMAIN hosted' /\ hosted'[s] = hosted[s]
  BY HostedStays
<1> DEFINE Kept(q) ==
      /\ request'[q].stage \in {"calling", "opened", "refused"} =>
           request'[q].session \in Attempts /\ sessions'[request'[q].session].status # "absent"
      /\ request'[q].stage = "opened" =>
           /\ request'[q].session \in DOMAIN hosted'
           /\ request'[q].expiresAt = hosted'[request'[q].session]
<1>3. ASSUME NEW q \in Requests, request'[q] = request[q] PROVE Kept(q)
  BY <1>1, <1>2, <1>3 DEF RequestInv
<1>4. ASSUME NEW q \in Requests, request'[q].stage \in {"checked", "done"} PROVE Kept(q)
  BY <1>4
<1>5. ASSUME NEW r \in Requests, CheckEligibility(r) \/ ServeRequest(r) \/ CrashRequest(r)
      PROVE  Kept(r) /\ \A q \in Requests \ {r} : request'[q] = request[q]
  <2>1. CASE CheckEligibility(r)
    BY <1>0, <1>4, <2>1 DEF CheckEligibility, Request
  <2>2. CASE Finish(r)
    BY <1>0, <1>4, <2>2 DEF Finish, Blank
  <2>3. CASE ProviderFails(r)
    <3>1. /\ request'[r].stage = "refused" /\ request'[r].session = request[r].session
          /\ \A q \in Requests \ {r} : request'[q] = request[q]
      BY <1>0, <2>3 DEF ProviderFails, Request
    <3> QED
      BY <1>1, <2>3, <3>1 DEF ProviderFails, RequestInv
  <2>4. CASE CreateVerificationSession(r)
    <3> DEFINE s == request[r].session
               expiresAt == IF s \in DOMAIN hosted THEN hosted[s] ELSE now + SessionTtl
    <3>1. request' = [request EXCEPT ![r].stage = "opened", ![r].expiresAt = expiresAt]
      BY <2>4 DEF CreateVerificationSession
    <3>2. /\ request'[r].session = s /\ request'[r].expiresAt = expiresAt
          /\ \A q \in Requests \ {r} : request'[q] = request[q]
      BY <1>0, <3>1 DEF Request
    <3>3. hosted' = [q \in DOMAIN hosted \cup {s} |-> IF q = s THEN expiresAt ELSE hosted[q]]
      BY <2>4 DEF CreateVerificationSession
    <3>4. s \in DOMAIN hosted' /\ hosted'[s] = expiresAt
      BY <3>3
    <3> QED
      BY <1>1, <2>4, <3>2, <3>4 DEF CreateVerificationSession, RequestInv
  <2>5. ASSUME NEW s \in Attempts, sessions'[s].status # "absent",
               request' = [request EXCEPT ![r].stage = "calling", ![r].session = s]
        PROVE  Kept(r) /\ \A q \in Requests \ {r} : request'[q] = request[q]
    BY <1>0, <2>5 DEF Request
  <2>6. CASE CreateIntent(r)
    <3>1. PICK s \in Attempts :
            Creates(s) /\ request' = [request EXCEPT ![r].stage = "calling", ![r].session = s]
      BY <2>6, CreateIntentStep
    <3> QED
      BY <2>5, <3>1 DEF Creates, Changed
  <2>7. CASE ReuseSession(r)
    <3>1. PICK s \in Attempts :
            \/ /\ sessions[s].status = "creating"
               /\ request' = [request EXCEPT ![r].stage = "calling", ![r].session = s]
            \/ Finish(r)
      BY <2>7 DEF ReuseSession
    <3> QED
      BY <2>2, <2>5, <2>7, <3>1 DEF ReuseSession
  <2> QED
    BY <1>5, <2>1, <2>2, <2>3, <2>4, <2>6, <2>7
    DEF ServeRequest, RefuseStart, MarkProviderFailure, Activate, CrashRequest
<1>6. CASE UNCHANGED request
  BY <1>3, <1>6 DEF RequestInv
<1>7. \A q \in Requests : Kept(q)
  BY <1>3, <1>5, <1>6
  DEF Next, Tick, ReadStatus, ProviderReports, Receive, SubmitOutcome, LoseDelivery, ProcessEvent,
      IgnoreDuplicate, RejectEvent, IgnoreExpired, RejectMismatch, IgnoreStale, NotePending,
      ApplyResult, OpenReview, AssignReview, ReadReview, Decide, DropDecision, ExpireSession,
      ExpireVerification, FindNothingDue, vars
<1> QED
  BY <1>7 DEF RequestInv

LEMMA DeliveryInvKept == IInv /\ [Next]_vars => DeliveryInv'
<1> SUFFICES ASSUME IInv, [Next]_vars PROVE DeliveryInv'
  OBVIOUS
<1> USE DEF IInv, DeliveryInv
<1>0. now \in Nat /\ delivery \in [Handlers -> Claim \cup {Null}]
  BY DEF TypeOK, Claim
<1>1. \A s \in DOMAIN hosted : s \in DOMAIN hosted'
  BY HostedStays
<1>2. CASE UNCHANGED <<issued, delivery, now>>
  BY <1>1, <1>2
<1>3. CASE Ticks
  <2>1. \A h \in Handlers : delivery[h] # Null => delivery[h].at \in Nat
    BY <1>0 DEF Claim
  <2> QED
    BY <1>0, <1>1, <1>3, <2>1 DEF Ticks
<1>4. CASE Sends
  <2>1. PICK e \in Event :
          /\ e.session \in DOMAIN hosted
          /\ issued' = issued \cup {e}
          /\ \/ UNCHANGED delivery
             \/ \E h \in Handlers : delivery' = [delivery EXCEPT ![h] = [event |-> e, at |-> now]]
    BY <1>4 DEF Sends
  <2>2. now' = now
    BY <1>4 DEF Sends
  <2>3. \A f \in issued' : f.session \in DOMAIN hosted'
    BY <1>1, <2>1
  <2>4. ASSUME NEW q \in Handlers, delivery'[q] # Null
        PROVE  delivery'[q].at <= now' /\ delivery'[q].event \in issued'
    <3>1. CASE delivery'[q] = delivery[q]
      BY <2>1, <2>2, <2>4, <3>1
    <3>2. CASE delivery'[q] = [event |-> e, at |-> now]
      BY <1>0, <2>1, <2>2, <3>2
    <3> QED
      BY <1>0, <2>1, <3>1, <3>2
  <2> QED
    BY <2>3, <2>4
<1>5. ASSUME NEW h \in Handlers, Handles(h) PROVE DeliveryInv'
  BY <1>0, <1>1, <1>5 DEF Handles
<1> QED
  BY <1>2, <1>3, <1>4, <1>5, Kinds DEF Serves, Delivered, Hosts, Administers

\* The clock never runs back.
LEMMA ClockAdvances ==
  ASSUME IInv, [Next]_vars
  PROVE  now \in Nat /\ now' \in Nat /\ now' >= now
<1>1. now \in Nat
  BY DEF IInv, TypeOK
<1>2. now' = now \/ now' = now + 1
  BY Kinds DEF Ticks, Serves, Delivered, Hosts, Sends, Handles, Administers
<1> QED
  BY <1>1, <1>2

\* An event that is handled after a step was handled before or arrives in it.
LEMMA DeliveryEffect ==
  ASSUME IInv, [Next]_vars, NEW h \in Handlers, delivery'[h] # Null
  PROVE  delivery'[h] = delivery[h] \/ delivery'[h].at = now
<1>0. delivery \in [Handlers -> Claim \cup {Null}]
  BY DEF IInv, TypeOK, Claim
<1>1. CASE Sends
  <2>1. PICK e \in Event :
          \/ UNCHANGED delivery
          \/ \E q \in Handlers : delivery' = [delivery EXCEPT ![q] = [event |-> e, at |-> now]]
    BY <1>1 DEF Sends
  <2> QED
    BY <1>0, <2>1
<1>2. ASSUME NEW q \in Handlers, Handles(q) PROVE delivery'[h] = delivery[h]
  BY <1>0, <1>2 DEF Handles
<1>3. CASE UNCHANGED delivery
  BY <1>3
<1> QED
  BY <1>1, <1>2, <1>3, Kinds DEF Ticks, Serves, Delivered, Hosts, Administers

\* A review that is being decided after a step was before, or is read in it.
LEMMA DecisionEffect ==
  ASSUME IInv, [Next]_vars, NEW a \in Admins, decision'[a] # Null, decision'[a] # decision[a]
  PROVE  \E i \in Reviews, outcome \in {"verified", "failed", "pending"} :
           /\ Active(i)
           /\ decision'[a] = [review |-> i, outcome |-> outcome, at |-> now]
           /\ Resting /\ now' = now
<1>0. decision \in [Admins -> Choice \cup {Null}]
  BY DEF IInv, TypeOK, Choice
<1>1. PICK b \in Admins : Administers(b)
  BY Kinds DEF Ticks, Serves, Delivered, Hosts, Sends, Handles
<1>2. decision' # [decision EXCEPT ![b] = Null]
  BY <1>0
<1>3. PICK i \in Reviews, outcome \in {"verified", "failed", "pending"} :
        /\ Active(i) /\ Resting /\ now' = now
        /\ decision' = [decision EXCEPT ![b] = [review |-> i, outcome |-> outcome, at |-> now]]
  BY <1>1, <1>2 DEF Administers
<1> QED
  BY <1>0, <1>3

\* A session is verified with its profile, for longer than a transaction that
\* was open at the time may stay open.
LEMMA Verifies ==
  ASSUME IInv, [Next]_vars, NEW s \in Attempts,
         sessions[s].status # "verified", sessions'[s].status = "verified"
  PROVE  /\ profile'.current = s /\ profile'.status = "verified"
         /\ profile'.expiresAt \in Nat /\ profile'.expiresAt > now + MaxOpen
         /\ now' = now
<1> USE KycAssumption DEF IInv
<1>0. now \in Nat
  BY DEF TypeOK
<1>1. ASSUME NEW h \in Handlers, Applies(h)
      PROVE  /\ profile'.current = s /\ profile'.status = "verified"
             /\ profile'.expiresAt \in Nat /\ profile'.expiresAt > now + MaxOpen
  <2> DEFINE e == delivery[h].event
             at == delivery[h].at
  <2>1. Changed(e.session, e.result) /\ StillOpen(at) /\ at \in Nat
    BY <1>1, AcceptsUnder DEF Applies, Accepts, Takes
  <2>2. s = e.session /\ e.result = "verified"
    BY <2>1 DEF Changed
  <2>3. profile' = [status |-> "verified", current |-> s, verifiedAt |-> at,
                    expiresAt |-> at + VerificationTtl]
    BY <1>1, <2>2 DEF Applies, Moved
  <2>4. at + VerificationTtl > now + MaxOpen
    BY <1>0, <2>1 DEF StillOpen
  <2> QED
    BY <2>1, <2>3, <2>4
<1>2. ASSUME NEW a \in Admins, Decides(a)
      PROVE  /\ profile'.current = s /\ profile'.status = "verified"
             /\ profile'.expiresAt \in Nat /\ profile'.expiresAt > now + MaxOpen
  <2> DEFINE i == decision[a].review
             outcome == decision[a].outcome
  <2>1. Changed(reviews[i].session, outcome)
    BY <1>2 DEF Decides, Takes
  <2>2. s = reviews[i].session /\ outcome = "verified"
    BY <2>1 DEF Changed
  <2>3. profile' = [status |-> "verified", current |-> s, verifiedAt |-> now,
                    expiresAt |-> now + VerificationTtl]
    BY <1>2, <2>2 DEF Decides, Moved
  <2> QED
    BY <1>0, <2>3
<1>3. CASE UNCHANGED sessions
  BY <1>3
<1>4. ASSUME NEW q, Expires(q) PROVE FALSE
  BY <1>4 DEF Expires, Changed
<1>5. ASSUME NEW h \in Handlers, Notes(h) PROVE FALSE
  BY <1>5 DEF Notes, Accepts, Takes, Changed
<1>6. CASE Serves
  BY <1>3, <1>4, <1>6 DEF Serves, Creates, Fails, Activates, Changed
<1> QED
  BY <1>1, <1>2, <1>3, <1>4, <1>5, <1>6, Kinds DEF Ticks, Hosts, Sends, Handles, Administers, Resting

LEMMA DecisionInvKept == IInv /\ [Next]_vars => DecisionInv'
<1> SUFFICES ASSUME IInv, [Next]_vars, NEW a \in Admins, decision'[a] # Null
             PROVE  LET i == decision'[a].review
                        s == reviews'[i].session
                    IN /\ decision'[a].at <= now'
                       /\ decision'[a].outcome \in {"verified", "failed", "pending"}
                       /\ reviews'[i].status # "absent" /\ s \in Attempts
                       /\ now' <= decision'[a].at + MaxOpen /\ sessions'[s].status = "verified" =>
                            /\ profile'.current = s /\ profile'.status = "verified"
                            /\ profile'.expiresAt # Null
                            /\ profile'.expiresAt > decision'[a].at + MaxOpen
  BY DEF DecisionInv, StillOpen
<1> USE KycAssumption, NullAssumption DEF IInv
<1>0. /\ now \in Nat /\ decision \in [Admins -> Choice \cup {Null}]
      /\ now' \in Nat /\ now' >= now
  BY ClockAdvances DEF TypeOK, Choice
<1>1. ReviewsMove /\ RowStep
  BY ReviewsKinds, RowKinds
<1>2. CASE decision'[a] = decision[a]
  <2> DEFINE i == decision[a].review
             s == reviews[i].session
  <2>1. i \in Reviews /\ decision[a].at \in Nat /\ decision[a].at <= now
    BY <1>0, <1>2 DEF Choice, DecisionInv
  <2>2. reviews'[i].status # "absent" /\ reviews'[i].session = s /\ s \in Attempts
    BY <1>1, <1>2, <2>1, ReviewsStay DEF DecisionInv
  <2>3. ASSUME now' <= decision[a].at + MaxOpen, sessions'[s].status = "verified"
        PROVE  /\ profile'.current = s /\ profile'.status = "verified"
               /\ profile'.expiresAt # Null
               /\ profile'.expiresAt > decision[a].at + MaxOpen
    <3>1. CASE sessions[s].status # "verified"
      <4>1. /\ profile'.current = s /\ profile'.status = "verified"
            /\ profile'.expiresAt \in Nat /\ profile'.expiresAt > now + MaxOpen
        BY <2>2, <2>3, <3>1, Verifies
      <4> HIDE DEF s
      <4> QED
        BY <1>0, <2>1, <4>1
    <3>2. CASE sessions[s].status = "verified"
      <4>1. now <= decision[a].at + MaxOpen
        BY <1>0, <2>1, <2>3
      <4>2. /\ profile.current = s /\ profile.status = "verified"
            /\ profile.expiresAt # Null
            /\ profile.expiresAt > decision[a].at + MaxOpen
        BY <1>2, <3>2, <4>1 DEF DecisionInv, StillOpen
      <4>3. profile.expiresAt \in Nat
        BY <4>2 DEF TypeOK, Profile, Date
      <4>4. ~Lapses
        BY <1>0, <2>1, <4>1, <4>2, <4>3 DEF Lapses, Lapsed
      <4>5. profile' = profile
        BY <1>1, <4>2, <4>4
        DEF RowStep, Same, Creates, Fails, Activates, Moved, CanTransition, Edges,
            Concludes, Under, Undecided
      <4> QED
        BY <4>2, <4>5
    <3> QED
      BY <3>1, <3>2
  <2> QED
    BY <1>0, <1>2, <2>1, <2>2, <2>3 DEF DecisionInv
<1>3. CASE decision'[a] # decision[a]
  <2>1. PICK i \in Reviews, outcome \in {"verified", "failed", "pending"} :
          /\ Active(i)
          /\ decision'[a] = [review |-> i, outcome |-> outcome, at |-> now]
          /\ Resting /\ now' = now
    BY <1>3, DecisionEffect
  <2>2. /\ reviews[i].status # "absent" /\ profile.status = "manual_review"
        /\ reviews[i].session = profile.current
    BY <2>1 DEF Active, RowInv, ReviewWhileParked
  <2>3. profile.current \in Attempts /\ profile.current # 0
    BY <2>2 DEF RowInv, Started, TypeOK, Profile
  <2>4. sessions[profile.current].status = "manual_review"
    BY <2>2, <2>3 DEF RowInv, ProfileFollowsSession
  <2>5. reviews'[i].status # "absent" /\ reviews'[i].session = profile.current
    BY <1>1, <2>2, ReviewsStay
  <2> QED
    BY <1>0, <2>1, <2>3, <2>4, <2>5 DEF Resting
<1> QED
  BY <1>2, <1>3

\* Nothing changes in what holds a session.
LEMMA DatesInvKept == IInv /\ [Next]_vars => DatesInv'
<1> SUFFICES ASSUME IInv, [Next]_vars, profile'.verifiedAt # Null
             PROVE  /\ profile'.verifiedAt <= now'
                    /\ profile'.expiresAt # Null => profile'.expiresAt >= profile'.verifiedAt
                    /\ \A s \in DOMAIN hosted' : Holds(s)' => hosted'[s] >= profile'.verifiedAt
                    /\ \A h \in Handlers :
                         delivery'[h] # Null /\ Holds(delivery[h].event.session)'
                         => delivery'[h].at >= profile'.verifiedAt
  BY DEF DatesInv
<1> USE KycAssumption, NullAssumption DEF IInv
<1>0. /\ now \in Nat /\ now' \in Nat /\ now' >= now
      /\ delivery \in [Handlers -> Claim \cup {Null}]
      /\ profile.verifiedAt \in Date /\ profile.expiresAt \in Date
  BY ClockAdvances DEF TypeOK, Profile, Claim
<1>1. RowStep /\ RowInv' /\ TypeOK'
  BY RowKinds, RowInvKept, KycTypesKept
\* What is delivered when the step ends either was before or arrives now.
<1>2. ASSUME NEW h \in Handlers, delivery'[h] # Null
      PROVE  /\ delivery'[h] \in Claim /\ delivery'[h].event.session \in Attempts
             /\ delivery'[h] = delivery[h] \/ delivery'[h].at = now
             /\ delivery'[h].event.session \in DOMAIN hosted'
  <2>1. delivery'[h] \in Claim /\ delivery'[h].event.session \in Attempts
    BY <1>1, <1>2 DEF TypeOK, Claim, Event
  <2>2. delivery'[h] = delivery[h] \/ delivery'[h].at = now
    BY <1>2, DeliveryEffect
  <2>3. DeliveryInv'
    BY DeliveryInvKept
  <2> QED
    BY <1>2, <2>1, <2>2, <2>3 DEF DeliveryInv
\* Only a session with no event and no expiry yet comes to hold the index.
<1>3. ASSUME NEW s \in Attempts, Holds(s)', s \in DOMAIN hosted PROVE Holds(s)
  BY <1>1, <1>3, SessionsStay DEF RowInv, SessionShape
<1>4. CASE profile'.verifiedAt = profile.verifiedAt
  <2>0. /\ profile.verifiedAt \in Nat /\ profile.verifiedAt <= now
    BY <1>0, <1>4 DEF DatesInv, Date
  <2>1. \A s \in DOMAIN hosted' : Holds(s)' => hosted'[s] >= profile.verifiedAt
    <3> SUFFICES ASSUME NEW s \in DOMAIN hosted', Holds(s)' PROVE hosted'[s] >= profile.verifiedAt
      OBVIOUS
    <3>1. s \in Attempts /\ hosted'[s] \in Nat
      BY <1>1 DEF TypeOK
    <3>2. CASE s \in DOMAIN hosted
      BY <1>3, <1>4, <3>1, <3>2, HostedStays DEF DatesInv
    <3>3. CASE s \notin DOMAIN hosted
      BY <1>0, <2>0, <3>1, <3>3, HostedStays
    <3> QED
      BY <3>2, <3>3
  <2>2. ASSUME NEW h \in Handlers, delivery'[h] # Null, Holds(delivery[h].event.session)'
        PROVE  delivery'[h].at >= profile.verifiedAt
    <3>1. CASE delivery'[h].at = now
      BY <1>0, <2>0, <3>1
    <3>2. CASE delivery'[h] = delivery[h]
      <4>1. delivery[h].event.session \in DOMAIN hosted
        BY <2>2, <3>2 DEF DeliveryInv, TypeOK
      <4>2. Holds(delivery[h].event.session)
        BY <1>2, <1>3, <2>2, <3>2, <4>1
      <4> QED
        BY <1>4, <2>2, <3>2, <4>2 DEF DatesInv
    <3> QED
      BY <1>2, <2>2, <3>1, <3>2
  <2>3. ASSUME profile'.expiresAt # Null PROVE profile'.expiresAt >= profile.verifiedAt
    <3>1. CASE profile'.expiresAt = profile.expiresAt
      BY <1>4, <2>3, <3>1 DEF DatesInv
    <3>2. ASSUME NEW s \in Attempts, Under(s), sessions[s].expiresAt # Null,
                 profile'.expiresAt = sessions[s].expiresAt
          PROVE  profile'.expiresAt >= profile.verifiedAt
      BY <1>4, <3>2 DEF DatesInv, RowInv, SessionShape, Holds, Holding, Under
    <3>3. ASSUME NEW s \in Attempts, Expires(s) PROVE profile'.expiresAt >= profile.verifiedAt
      <4>1. CASE profile.current = s /\ profile.status \in Undecided
        <5>1. Under(s)
          BY <4>1 DEF RowInv, ProfileFollowsSession, Under, Undecided
        <5>2. profile'.expiresAt = sessions[s].expiresAt
          BY <3>3, <4>1 DEF Expires, Moved
        <5> QED
          BY <2>3, <3>2, <5>1, <5>2
      <4>2. CASE ~(profile.current = s /\ profile.status \in Undecided)
        BY <3>1, <3>3, <4>2 DEF Expires
      <4> QED
        BY <4>1, <4>2
    <3>4. CASE Serves
      <4>1. CASE MayLapse \/ \E s \in Attempts : Creates(s) \/ Fails(s)
        BY <3>1, <4>1 DEF MayLapse, Creates, Fails, Lapses, Moved
      <4>2. CASE \E s \in Attempts : Activates(s)
        BY <2>3, <4>2 DEF Activates, Moved
      <4> QED
        BY <3>3, <3>4, <4>1, <4>2 DEF Serves
    <3>5. ASSUME NEW h \in Handlers, Handles(h) PROVE profile'.expiresAt >= profile.verifiedAt
      <4> DEFINE e == delivery[h].event
                 at == delivery[h].at
      <4>1. CASE Expires(e.session)
        BY <3>3, <3>5, <4>1 DEF Handles, TypeOK, Event
      <4>2. CASE Applies(h)
        <5>1. /\ e.session \in Attempts /\ Holds(e.session) /\ at \in Nat /\ delivery[h] # Null
          BY <4>2, AcceptsUnder DEF Applies, Accepts, Under, Holds, Holding
        <5>2. at >= profile.verifiedAt
          BY <1>4, <5>1 DEF DatesInv
        <5>3. profile'.expiresAt = at + VerificationTtl \/ profile'.expiresAt = at
          BY <2>3, <4>2 DEF Applies, Moved
        <5> QED
          BY <2>0, <5>1, <5>2, <5>3
      <4> QED
        BY <3>1, <3>5, <4>1, <4>2 DEF Handles, Resting, Notes
    <3>6. ASSUME NEW a \in Admins, Administers(a) PROVE profile'.expiresAt >= profile.verifiedAt
      <4>1. CASE Decides(a)
        <5>1. profile'.expiresAt = now + VerificationTtl
          BY <2>3, <4>1 DEF Decides, Moved
        <5> QED
          BY <1>0, <2>0, <5>1
      <4> QED
        BY <3>1, <3>6, <4>1 DEF Administers, Resting
    <3> QED
      BY <3>1, <3>4, <3>5, <3>6, Kinds DEF Ticks, Hosts, Sends, Resting
  <2> QED
    BY <1>0, <1>4, <2>0, <2>1, <2>2, <2>3
<1>5. CASE profile'.verifiedAt # profile.verifiedAt
  <2>1. \/ \E h \in Handlers : Applies(h) /\ delivery[h].event.result = "verified"
        \/ \E a \in Admins : Decides(a) /\ decision[a].outcome = "verified"
    <3>1. ~Resting /\ ~Serves /\ \A h \in Handlers : ~Notes(h) /\ ~Expires(delivery[h].event.session)
      <4>1. profile' # profile /\ ~Lapses
        BY <1>5 DEF Lapses, Moved
      <4>2. \A s : ~Creates(s) /\ ~Fails(s) /\ ~Activates(s) /\ ~Expires(s)
        BY <1>5, <4>1 DEF Creates, Fails, Activates, Expires, Moved
      <4> QED
        BY <4>1, <4>2 DEF Resting, Serves, MayLapse, Notes
    <3>2. \/ \E h \in Handlers : Applies(h)
          \/ \E a \in Admins : Decides(a)
      BY <3>1, Kinds DEF Ticks, Hosts, Sends, Handles, Administers
    <3>3. ASSUME NEW h \in Handlers, Applies(h) PROVE delivery[h].event.result = "verified"
      BY <1>5, <3>3 DEF Applies, Moved
    <3>4. ASSUME NEW a \in Admins, Decides(a) PROVE decision[a].outcome = "verified"
      BY <1>5, <3>4 DEF Decides, Moved
    <3> QED
      BY <3>2, <3>3, <3>4
  <2>2. /\ profile'.verifiedAt \in Nat /\ profile'.verifiedAt <= now
        /\ profile'.expiresAt = profile'.verifiedAt + VerificationTtl
    <3>1. ASSUME NEW h \in Handlers, Applies(h), delivery[h].event.result = "verified"
          PROVE  /\ profile'.verifiedAt \in Nat /\ profile'.verifiedAt <= now
                 /\ profile'.expiresAt = profile'.verifiedAt + VerificationTtl
      BY <3>1, AcceptsUnder DEF Applies, Accepts, Moved, DeliveryInv
    <3>2. ASSUME NEW a \in Admins, Decides(a), decision[a].outcome = "verified"
          PROVE  /\ profile'.verifiedAt \in Nat /\ profile'.verifiedAt <= now
                 /\ profile'.expiresAt = profile'.verifiedAt + VerificationTtl
      BY <1>0, <3>2 DEF Decides, Moved
    <3> QED
      BY <2>1, <3>1, <3>2
  \* The verified session held the index: no session holds it now.
  <2>3. PICK s \in Attempts : Concludes(s, "verified")
    BY <2>1, AppliesKinds, DecidesKinds, AcceptsUnder, DecidesUnder DEF Applies
  <2>4. \A q \in Attempts : ~Holds(q)'
    BY <2>3 DEF Concludes, Changed, Under, Holds, Holding, Undecided, RowInv, OneHolding
  <2>5. \A q \in DOMAIN hosted' : q \in Attempts
    BY <1>1 DEF TypeOK
  <2>6. profile'.verifiedAt <= now' /\ profile'.expiresAt >= profile'.verifiedAt
    BY <1>0, <2>2
  <2>7. \A h \in Handlers : delivery'[h] # Null => ~Holds(delivery[h].event.session)'
    BY <1>2, <2>4 DEF Holds
  <2> QED
    BY <2>4, <2>5, <2>6, <2>7
<1> QED
  BY <1>4, <1>5

-----------------------------------------------------------------------------
(* The history.                                                            *)

\* What is filed stays filed; only an accepted event is filed as processed.
LEMMA FiledStays ==
  ASSUME IInv, [Next]_vars
  PROVE  /\ \A e \in DOMAIN filed : e \in DOMAIN filed' /\ filed'[e] = filed[e]
         /\ \A e \in DOMAIN filed' \ DOMAIN filed :
              filed'[e] = "processed" =>
                \E h \in Handlers :
                  delivery[h].event = e /\ Handles(h) /\ (Notes(h) \/ Applies(h))
<1>1. CASE UNCHANGED filed
  BY <1>1
<1>2. ASSUME NEW h \in Handlers, Handles(h), ~ UNCHANGED filed
      PROVE  /\ \A e \in DOMAIN filed : e \in DOMAIN filed' /\ filed'[e] = filed[e]
             /\ \A e \in DOMAIN filed' \ DOMAIN filed :
                  filed'[e] = "processed" => delivery[h].event = e /\ (Notes(h) \/ Applies(h))
  BY <1>2 DEF Handles
<1> QED
  BY <1>1, <1>2, Kinds DEF Ticks, Serves, Delivered, Hosts, Sends, Administers

\* The time of the last event never runs back and is never forgotten.
LEMMA LastEventAdvances ==
  ASSUME IInv, [Next]_vars, NEW s \in Attempts, sessions[s].lastEventAt # Null
  PROVE  sessions'[s].lastEventAt \in Nat /\ sessions'[s].lastEventAt >= sessions[s].lastEventAt
<1> USE NullAssumption DEF IInv
<1>0. sessions[s].lastEventAt \in Nat /\ now \in Nat
  BY DEF TypeOK, Session, Date
<1>1. CASE sessions'[s].lastEventAt = sessions[s].lastEventAt
  BY <1>0, <1>1
<1>2. ASSUME NEW q \in Attempts, NEW to, NEW at \in Nat, Takes(q, to, at)
      PROVE  sessions'[s].lastEventAt \in Nat /\ sessions'[s].lastEventAt >= sessions[s].lastEventAt
  <2>1. CASE q = s
    BY <1>0, <1>2, <2>1 DEF Takes, Later
  <2>2. CASE q # s
    BY <1>1, <1>2, <2>2 DEF Takes, Changed
  <2> QED
    BY <2>1, <2>2
<1>3. ASSUME NEW q \in Attempts, Creates(q) \/ Fails(q) \/ Activates(q) \/ Expires(q)
      PROVE  sessions'[s].lastEventAt = sessions[s].lastEventAt
  BY <1>3 DEF Creates, Fails, Activates, Expires, Changed
<1>4. ASSUME NEW h \in Handlers, Handles(h)
      PROVE  sessions'[s].lastEventAt \in Nat /\ sessions'[s].lastEventAt >= sessions[s].lastEventAt
  <2>1. CASE Accepts(h)
    <3>1. delivery[h].event.at \in Nat /\ delivery[h].event.session \in Attempts
      BY <2>1, AcceptsUnder DEF Event
    <3> QED
      BY <1>2, <2>1, <3>1 DEF Accepts
  <2>2. CASE Expires(delivery[h].event.session)
    BY <1>1, <1>3, <1>4, <2>2 DEF Handles, TypeOK, Event
  <2> QED
    BY <1>1, <1>4, <2>1, <2>2 DEF Handles, Notes, Applies, Resting
<1>5. ASSUME NEW a \in Admins, Administers(a)
      PROVE  sessions'[s].lastEventAt \in Nat /\ sessions'[s].lastEventAt >= sessions[s].lastEventAt
  BY <1>0, <1>1, <1>2, <1>5 DEF Administers, Decides, Resting
<1>6. CASE Resting
  BY <1>1, <1>6 DEF Resting
<1>7. CASE Serves
  BY <1>1, <1>3, <1>7 DEF Serves
<1> QED
  BY <1>4, <1>5, <1>6, <1>7, Kinds DEF Ticks, Hosts, Sends

\* A step appends one transition at most, and one that names an event only
\* when it applies the event.
LEMMA TransitionsGrow ==
  ASSUME IInv, [Next]_vars
  PROVE  \/ UNCHANGED transitions
         \/ \E t \in Transition : transitions' = Append(transitions, t) /\ t.event = Null
         \/ \E h \in Handlers : Handles(h) /\ Applies(h)
<1> USE DEF IInv
<1>1. ASSUME NEW to, NEW s \in Attempts \cup {0}, NEW verifiedAt, NEW expiresAt,
             Moved(to, s, verifiedAt, expiresAt, Null)
      PROVE  \E t \in Transition : transitions' = Append(transitions, t) /\ t.event = Null
  <2> DEFINE t == [from |-> profile.status, to |-> to, session |-> s, event |-> Null]
  <2>1. t \in Transition
    BY <1>1 DEF Moved, CanTransition, Edges, Transition, TypeOK, Profile, KycStatus
  <2> QED
    BY <1>1, <2>1 DEF Moved
<1>2. profile.current \in Attempts \cup {0}
  BY DEF TypeOK, Profile
<1> DEFINE Grows == \/ UNCHANGED transitions
                    \/ \E t \in Transition : transitions' = Append(transitions, t) /\ t.event = Null
<1>3. Lapses => Grows
  BY <1>1, <1>2 DEF Lapses
<1>4. ASSUME NEW s \in Attempts, Creates(s) \/ Fails(s) \/ Activates(s) \/ Expires(s) PROVE Grows
  BY <1>1, <1>3, <1>4 DEF Creates, Fails, Activates, Expires
<1>5. ASSUME NEW a \in Admins, Decides(a) PROVE Grows
  BY <1>1, <1>5 DEF Decides
<1>6. CASE Serves
  BY <1>3, <1>4, <1>6 DEF Serves, MayLapse
<1>7. ASSUME NEW h \in Handlers, Handles(h), ~Applies(h) PROVE Grows
  <2>1. CASE Expires(delivery[h].event.session)
    BY <1>4, <1>7, <2>1 DEF Handles, TypeOK, Event
  <2> HIDE DEF Grows
  <2>2. UNCHANGED transitions => Grows
    BY DEF Grows
  <2> QED
    BY <1>7, <2>1, <2>2 DEF Handles, Resting, Notes
<1> QED
  BY <1>5, <1>6, <1>7, Kinds DEF Ticks, Hosts, Sends, Administers, Resting

LEMMA HistoryInvKept == IInv /\ [Next]_vars => HistoryInv'
<1> SUFFICES ASSUME IInv, [Next]_vars PROVE HistoryInv'
  OBVIOUS
<1> USE NullAssumption DEF IInv
<1>0. transitions \in Seq(Transition)
  BY DEF TypeOK
\* Old transitions stay recorded.
<1>1. ASSUME NEW n \in DOMAIN transitions, transitions'[n] = transitions[n] PROVE Recorded(n)'
  <2> DEFINE e == transitions[n].event
  <2>1. SUFFICES ASSUME e # Null
                 PROVE  /\ e \in DOMAIN filed' /\ filed'[e] = "processed" /\ e.result # "pending"
                        /\ e.session = transitions[n].session
                        /\ sessions'[e.session].lastEventAt # Null
                        /\ e.at <= sessions'[e.session].lastEventAt
    BY <1>1 DEF Recorded
  <2>2. /\ e \in DOMAIN filed /\ filed[e] = "processed" /\ e.result # "pending"
        /\ e.session = transitions[n].session
        /\ sessions[e.session].lastEventAt # Null
        /\ e.at <= sessions[e.session].lastEventAt
    BY <2>1 DEF HistoryInv, Recorded
  <2>3. e \in Event /\ e.session \in Attempts /\ e.at \in Nat
    BY <2>2 DEF TypeOK, Event
  <2>4. sessions[e.session].lastEventAt \in Nat
    BY <2>2, <2>3 DEF TypeOK, Session, Date
  <2> HIDE DEF e
  <2> QED
    BY <2>2, <2>3, <2>4, FiledStays, LastEventAdvances
<1>2. CASE ~ \E h \in Handlers : Handles(h) /\ Applies(h)
  <2>1. \A n \in DOMAIN transitions : n \in DOMAIN transitions' /\ transitions'[n] = transitions[n]
    BY <1>0, <1>2, TransitionsGrow
  <2>2. \A n \in DOMAIN transitions' \ DOMAIN transitions : transitions'[n].event = Null
    BY <1>0, <1>2, TransitionsGrow
  <2>3. \A n \in DOMAIN transitions' : Recorded(n)'
    BY <1>1, <2>1, <2>2 DEF Recorded
  <2>4. ResultsInProviderOrder'
    BY <2>1, <2>2 DEF HistoryInv, ResultsInProviderOrder
  <2>5. ASSUME NEW e \in DOMAIN filed', filed'[e] = "processed", e.result # "pending"
        PROVE  \E n \in DOMAIN transitions' : transitions'[n].event = e
    <3>1. e \in DOMAIN filed /\ filed[e] = "processed"
      BY <1>2, <2>5, FiledStays DEF Notes
    <3> QED
      BY <2>1, <2>5, <3>1 DEF HistoryInv
  <2> QED
    BY <2>3, <2>4, <2>5 DEF HistoryInv
<1>3. ASSUME NEW h \in Handlers, Handles(h), Applies(h) PROVE HistoryInv'
  <2> DEFINE e == delivery[h].event
             s == e.session
             last == Len(transitions) + 1
             t == [from |-> profile.status, to |-> e.result, session |-> s, event |-> e]
  <2>1. /\ e \in Event /\ s \in Attempts /\ e.at \in Nat /\ e.result # "pending" /\ e # Null
    BY <1>3, AcceptsUnder DEF Applies, Event
  <2>2. transitions' = Append(transitions, t) /\ t \in Transition
    BY <1>3, <2>1 DEF Applies, Moved, CanTransition, Edges, TypeOK, Profile, Transition, KycStatus
  <2>3. /\ DOMAIN transitions' = DOMAIN transitions \cup {last} /\ last \notin DOMAIN transitions
        /\ transitions'[last].event = e /\ transitions'[last].session = s
        /\ \A n \in DOMAIN transitions : n < last /\ transitions'[n] = transitions[n]
    BY <1>0, <2>2
  <2>4. /\ sessions'[s].lastEventAt # Null /\ e.at <= sessions'[s].lastEventAt
        /\ sessions[s].lastEventAt # Null => sessions[s].lastEventAt < e.at
    <3>1. sessions'[s].lastEventAt = Later(s, e.at)
      BY <1>3 DEF Applies, Accepts, Takes
    <3>2. sessions[s].lastEventAt \in Date
      BY <2>1 DEF TypeOK, Session
    <3>3. sessions[s].lastEventAt # Null => ~(e.at <= sessions[s].lastEventAt)
      BY <1>3 DEF Applies, Accepts, IsStale
    <3> HIDE DEF e, s
    <3> QED
      BY <2>1, <3>1, <3>2, <3>3 DEF Later, Date
  <2>5. e \in DOMAIN filed' /\ filed'[e] = "processed"
    <3>1. ~Resting /\ ~Expires(s)
      BY <2>1, <2>2, <2>3 DEF Resting, Expires, Moved
    <3> QED
      BY <1>3, <3>1 DEF Handles
  <2>6. ASSUME NEW n \in DOMAIN transitions' PROVE Recorded(n)'
    <3>1. CASE n = last
      BY <2>1, <2>3, <2>4, <2>5, <3>1 DEF Recorded
    <3>2. CASE n \in DOMAIN transitions
      BY <1>1, <2>3, <3>2
    <3> QED
      BY <2>3, <3>1, <3>2
  <2>7. ASSUME NEW m \in DOMAIN transitions, NEW n \in DOMAIN transitions', m < n,
               transitions'[m].event # Null, transitions'[n].event # Null,
               transitions'[m].session = transitions'[n].session
        PROVE  transitions'[m].event.at < transitions'[n].event.at
    <3>1. CASE n \in DOMAIN transitions
      BY <2>3, <2>7, <3>1 DEF HistoryInv, ResultsInProviderOrder
    <3>2. CASE n = last
      <4> DEFINE f == transitions[m].event
      <4>1. f # Null /\ transitions[m].session = s
        BY <2>3, <2>7, <3>2
      <4>2. /\ f \in DOMAIN filed /\ f.session = s
            /\ sessions[s].lastEventAt # Null /\ f.at <= sessions[s].lastEventAt
        BY <4>1 DEF HistoryInv, Recorded
      <4>3. f.at \in Nat /\ sessions[s].lastEventAt \in Nat
        BY <2>1, <4>2 DEF TypeOK, Event, Session, Date
      <4>4. f.at < e.at
        <5> HIDE DEF e, s, f
        <5> QED
          BY <2>1, <2>4, <4>2, <4>3
      <4> QED
        BY <2>3, <3>2, <4>4
    <3> QED
      BY <2>3, <3>1, <3>2
  <2>8. ResultsInProviderOrder'
    <3> SUFFICES ASSUME NEW m \in DOMAIN transitions', NEW n \in DOMAIN transitions', m < n,
                        transitions'[m].event # Null, transitions'[n].event # Null,
                        transitions'[m].session = transitions'[n].session
                 PROVE  transitions'[m].event.at < transitions'[n].event.at
      BY DEF ResultsInProviderOrder
    <3>1. m # last
      BY <1>0, <2>3
    <3> QED
      BY <2>3, <2>7, <3>1
  <2>9. ASSUME NEW f \in DOMAIN filed', filed'[f] = "processed", f.result # "pending"
        PROVE  \E n \in DOMAIN transitions' : transitions'[n].event = f
    <3>1. CASE f \in DOMAIN filed
      BY <2>3, <2>9, <3>1, FiledStays DEF HistoryInv
    <3>2. CASE f \notin DOMAIN filed
      <4>1. f = e
        BY <1>3, <2>9, <3>2 DEF Handles
      <4> QED
        BY <2>3, <4>1
    <3> QED
      BY <3>1, <3>2
  <2> QED
    BY <2>6, <2>8, <2>9 DEF HistoryInv
<1> QED
  BY <1>2, <1>3

-----------------------------------------------------------------------------
(* Theorems.                                                               *)

\* IInv holds in every reachable state.
THEOREM KycInductive == Spec => []IInv
<1>1. Init => IInv
  <2> SUFFICES ASSUME Init PROVE IInv
    OBVIOUS
  <2> USE NullAssumption
  <2>1. /\ \A s \in Attempts : /\ sessions[s].status = "absent" /\ sessions[s].expiresAt = Null
        /\ \A i \in Reviews : reviews[i].status = "absent"
        /\ \A r \in Requests : request[r].stage = "idle"
        /\ profile.status = "not_started" /\ profile.current = 0 /\ profile.verifiedAt = Null
        /\ \A h \in Handlers : delivery[h] = Null
        /\ \A a \in Admins : decision[a] = Null
        /\ DOMAIN hosted = {} /\ DOMAIN filed = {} /\ DOMAIN transitions = {} /\ issued = {}
    BY DEF Init, Blank
  <2>2. RowInv
    BY <2>1 DEF RowInv, SessionShape, Unopened, OneHolding, InOrder, Holds, Holding, Undecided,
                Started, CreatingFresh, ProfileFollowsSession, Under, ReviewWhileParked, Active
  <2>3. RequestInv /\ DeliveryInv /\ DecisionInv /\ DatesInv
    BY <2>1 DEF RequestInv, DeliveryInv, DecisionInv, DatesInv
  <2>4. HistoryInv
    BY <2>1 DEF HistoryInv, ResultsInProviderOrder
  <2> QED
    BY <2>2, <2>3, <2>4, KycTypesInitially DEF IInv
<1>2. IInv /\ [Next]_vars => IInv'
  BY KycTypesKept, RowInvKept, RequestInvKept, DeliveryInvKept, DecisionInvKept, DatesInvKept,
     HistoryInvKept DEF IInv
<1> QED
  BY <1>1, <1>2, PTL DEF Spec

\* The rows, and what requests, deliveries and administrators hold, keep their
\* types.
THEOREM KycTypeCorrect == Spec => []TypeOK
<1>1. IInv => TypeOK
  BY DEF IInv
<1> QED
  BY <1>1, KycInductive, PTL

\* The profile and its current session agree, for any number of attempts,
\* requests, deliveries and administrators.
THEOREM ProfileAgrees == Spec => []ProfileFollowsSession
<1>1. IInv => ProfileFollowsSession
  BY DEF IInv, RowInv
<1> QED
  BY <1>1, KycInductive, PTL

\* The transition table never refuses an activation that finds its session
\* still being created.
THEOREM ActivationSucceeds == Spec => []ActivationNeverRefused
<1>1. IInv => ActivationNeverRefused
  BY DEF IInv, RowInv, CreatingFresh, Startable, ActivationNeverRefused, CanTransition, Edges
<1> QED
  BY <1>1, KycInductive, PTL

\* A profile in manual review has exactly one active review, of its session.
THEOREM OneActiveReview == Spec => []ReviewWhileParked
<1>1. IInv => ReviewWhileParked
  BY DEF IInv, RowInv
<1> QED
  BY <1>1, KycInductive, PTL

\* The date constraint of the profile's row is never violated.
THEOREM DatesHold == Spec => []DatesConsistent
<1>1. IInv => DatesConsistent
  BY DEF IInv, DatesInv, DatesConsistent
<1> QED
  BY <1>1, KycInductive, PTL

\* The results of one session are applied in the provider's order, however
\* they arrive.
THEOREM ProviderOrderKept == Spec => []ResultsInProviderOrder
<1>1. IInv => ResultsInProviderOrder
  BY DEF IInv, HistoryInv
<1> QED
  BY <1>1, KycInductive, PTL

\* However often an event is delivered, it moves the profile once if it was
\* applied and never if it was not.
THEOREM EventsMoveOnce == Spec => []EachEventMovesOnce
<1>1. IInv => EachEventMovesOnce
  <2> SUFFICES ASSUME IInv, NEW e \in issued
               PROVE  Cardinality({n \in DOMAIN transitions : transitions[n].event = e}) =
                        IF e \in DOMAIN filed /\ filed[e] = "processed" /\ e.result # "pending" THEN 1 ELSE 0
    BY DEF EachEventMovesOnce
  <2> DEFINE moves == {n \in DOMAIN transitions : transitions[n].event = e}
  <2> USE NullAssumption DEF IInv
  <2>1. e # Null /\ e.at \in Nat /\ \A n \in DOMAIN transitions : n \in Nat
    BY DEF TypeOK, Event
  <2>2. \A n \in moves :
          /\ e \in DOMAIN filed /\ filed[e] = "processed" /\ e.result # "pending"
          /\ transitions[n].session = e.session
    BY <2>1 DEF HistoryInv, Recorded
  <2>3. \A m, n \in moves : m = n
    <3> SUFFICES ASSUME NEW m \in moves, NEW n \in moves, m < n PROVE FALSE
      BY <2>1
    <3> QED
      BY <2>1, <2>2 DEF HistoryInv, ResultsInProviderOrder
  <2>4. CASE e \in DOMAIN filed /\ filed[e] = "processed" /\ e.result # "pending"
    <3>1. PICK n \in moves : TRUE
      BY <2>4 DEF HistoryInv
    <3>2. moves = {n}
      BY <2>3, <3>1
    <3> QED
      BY <2>4, <3>2, FS_Singleton
  <2>5. CASE ~(e \in DOMAIN filed /\ filed[e] = "processed" /\ e.result # "pending")
    <3>1. moves = {}
      BY <2>2, <2>5
    <3> QED
      BY <2>5, <3>1, FS_EmptySet
  <2> QED
    BY <2>4, <2>5
<1> QED
  BY <1>1, KycInductive, PTL

\* No delivery verifies a player on a session that had elapsed when the event
\* arrived, nor by an event dated beyond the skew.
THEOREM VerificationInTime == Spec => VerifiedInTime
<1> DEFINE InTime ==
      \A h \in Handlers :
        (delivery[h] # Null /\ profile.status # "verified" /\ profile'.status = "verified"
           /\ delivery'[h] = Null)
        => /\ sessions[delivery[h].event.session].expiresAt > delivery[h].at
           /\ delivery[h].event.at <= delivery[h].at + MaxSkew
<1>1. ASSUME IInv, [Next]_vars PROVE InTime
  <2> SUFFICES ASSUME NEW h \in Handlers, delivery[h] # Null, delivery'[h] = Null,
                      profile.status # "verified", profile'.status = "verified"
               PROVE  /\ sessions[delivery[h].event.session].expiresAt > delivery[h].at
                      /\ delivery[h].event.at <= delivery[h].at + MaxSkew
    OBVIOUS
  <2> USE KycAssumption, NullAssumption, <1>1 DEF IInv
  <2> DEFINE e == delivery[h].event
             at == delivery[h].at
  <2>1. Handles(h)
    <3>1. delivery \in [Handlers -> Claim \cup {Null}] /\ now \in Nat
      BY DEF TypeOK, Claim
    <3>2. ~Sends
      BY <3>1 DEF Sends, Resting
    <3>3. \A q \in Handlers : Handles(q) => q = h
      BY <3>1 DEF Handles
    <3> QED
      BY <3>2, <3>3, Kinds DEF Ticks, Serves, Delivered, Hosts, Administers
  <2>2. Applies(h)
    BY <2>1 DEF Handles, Resting, Expires, Moved, Notes
  <2>3. Accepts(h)
    BY <2>2 DEF Applies
  <2>4. /\ e \in Event /\ at \in Nat /\ Under(e.session) /\ e.session \in Attempts
    BY <2>3, AcceptsUnder
  <2>5. ~(sessions[e.session].expiresAt <= at) /\ sessions[e.session].expiresAt \in Nat
    BY <2>3, <2>4 DEF Accepts, Elapsed, Under, TypeOK, Session, Date
  <2>6. ~(e.at > at + MaxSkew) /\ e.at \in Nat
    BY <2>3, <2>4 DEF Accepts, TooFarAhead, Event
  <2> QED
    BY <2>4, <2>5, <2>6
<1>2. VerifiedInTime <=> [][InTime]_vars
  BY DEF VerifiedInTime
<1> QED
  BY <1>1, <1>2, KycInductive, PTL DEF Spec

\* A decided session is never decided again, whoever is late, and the expiry of
\* a session is never moved.
THEOREM DecisionsStand == Spec => DecidedForGood
<1> DEFINE Stands ==
      \A s \in Attempts :
        /\ sessions[s].status \in Decided => sessions'[s].status = sessions[s].status
        /\ sessions[s].expiresAt # Null => sessions'[s].expiresAt = sessions[s].expiresAt
<1>1. ASSUME IInv, [Next]_vars PROVE Stands
  <2> SUFFICES ASSUME NEW s \in Attempts
               PROVE  /\ sessions[s].status \in Decided => sessions'[s].status = sessions[s].status
                      /\ sessions[s].expiresAt # Null => sessions'[s].expiresAt = sessions[s].expiresAt
    OBVIOUS
  <2>1. RowStep
    BY <1>1, RowKinds
  <2>2. sessions[s].expiresAt # Null => sessions'[s].expiresAt = sessions[s].expiresAt
    BY <1>1, <2>1, SessionsStay DEF IInv
  <2>3. ASSUME sessions[s].status \in Decided PROVE sessions'[s].status = sessions[s].status
    BY <2>1, <2>3 DEF RowStep, Same, Creates, Fresh, Fails, Activates, Concludes, Changed, Under,
                      Undecided, Decided
  <2> QED
    BY <2>2, <2>3
<1>2. DecidedForGood <=> [][Stands]_vars
  BY DEF DecidedForGood
<1> QED
  BY <1>1, <1>2, KycInductive, PTL DEF Spec

\* An administrator's decision closes the review they read, with their outcome.
THEOREM DecisionsCloseTheirReview == Spec => DecidesWhatWasRead
<1> DEFINE Closing ==
      \A a \in Admins :
        (decision[a] # Null /\ decision'[a] = Null /\ rows' # rows)
        => LET i == decision[a].review
           IN Active(i) /\ reviews'[i].outcome = decision[a].outcome
<1>1. ASSUME IInv, [Next]_vars PROVE Closing
  <2> SUFFICES ASSUME NEW a \in Admins, decision[a] # Null, decision'[a] = Null, rows' # rows
               PROVE  /\ Active(decision[a].review)
                      /\ reviews'[decision[a].review].outcome = decision[a].outcome
    OBVIOUS
  <2> USE KycAssumption, NullAssumption, <1>1 DEF IInv
  <2> DEFINE i == decision[a].review
             outcome == decision[a].outcome
             s == reviews[i].session
  <2>0. decision \in [Admins -> Choice \cup {Null}] /\ reviews \in [Reviews -> Review]
    BY DEF TypeOK, Choice
  <2>1. decision[a] \in Choice /\ i \in Reviews /\ i # Null
    BY <2>0 DEF Choice
  <2>2. UNCHANGED decision => FALSE
    OBVIOUS
  <2>3. ASSUME NEW b \in Admins, ReadReview(b) \/ DropDecision(b) PROVE FALSE
    BY <2>3 DEF ReadReview, DropDecision
  <2>4. \A b \in Admins : Decide(b) => b = a
    BY <2>0 DEF Decide
  <2>5. Decide(a)
    BY <2>2, <2>3, <2>4
    DEF Next, vars, Tick, ReadStatus, CheckEligibility, ServeRequest, CrashRequest, RefuseStart,
        ReuseSession, CreateIntent, CreateVerificationSession, ProviderFails, MarkProviderFailure,
        Activate, ProviderReports, Receive, SubmitOutcome, LoseDelivery, ProcessEvent,
        IgnoreDuplicate, RejectEvent, IgnoreExpired, RejectMismatch, IgnoreStale, NotePending,
        ApplyResult, OpenReview, AssignReview, ExpireSession, ExpireVerification, FindNothingDue
  <2>6. profile.status = "manual_review" /\ outcome \in {"verified", "failed", "pending"}
    <3>1. Administers(a)
      BY <2>5, DecideStep
    <3>2. ~Resting
      <4>1. transitions' # transitions
        BY <2>5 DEF Decide, Move, AppendTransition, TypeOK
      <4> QED
        BY <4>1 DEF Resting
    <3>3. Decides(a)
      BY <3>1, <3>2 DEF Administers
    <3> QED
      BY <3>3, DecidesUnder DEF Decides
  <2>7. Completed(outcome, i)
    BY <2>5, <2>6 DEF Decide, Move, Reviewed
  <2>8. Active(i)
    BY <2>1, <2>7 DEF Completed, Closes
  <2> QED
    BY <2>0, <2>1, <2>7, <2>8 DEF Completed, Review
<1>2. DecidesWhatWasRead <=> [][Closing]_vars
  BY DEF DecidesWhatWasRead
<1> QED
  BY <1>1, <1>2, KycInductive, PTL DEF Spec

\* Attempts are numbered from 1; a profile rests on one of them or on none.
LEMMA AttemptNumbers == TypeOK => profile.current \in Nat /\ \A s \in Attempts : s \in Nat /\ s > 0
<1> SUFFICES ASSUME TypeOK PROVE profile.current \in Nat /\ \A s \in Attempts : s \in Nat /\ s > 0
  OBVIOUS
<1>1. \A s \in Attempts : s \in Nat /\ s > 0
  BY KycAssumption
<1>2. profile.current \in Attempts \/ profile.current = 0
  BY DEF TypeOK, Profile
<1> QED
  BY <1>1, <1>2

\* The profile behaves as VerificationStatus promises: a later attempt for
\* every new start, and no second decision of an attempt.
THEOREM KycImplements == Spec => ImplementsVerificationStatus
<1>1. Init => KycPromise!Init
  BY DEF Init, KycPromise!Init
<1>2. ASSUME IInv, [Next]_vars PROVE [KycPromise!Next]_<<profile.status, profile.current>>
  <2> USE KycAssumption, <1>2 DEF IInv
  <2>0. RowStep
    BY RowKinds
  <2>1. CASE profile' = profile
    BY <2>1
  <2>2. CASE Lapses
    BY <2>2 DEF Lapses, Lapsed, Moved, KycPromise!Next, KycPromise!Lapse
  <2>3. ASSUME NEW s \in Attempts, Activates(s) PROVE KycPromise!Start
    <3>1. profile.status \in Startable
      BY <2>3 DEF Activates, RowInv, CreatingFresh
    <3>2. profile.current = 0 \/ profile.current < s
      <4> SUFFICES ASSUME profile.current # 0 PROVE profile.current < s
        OBVIOUS
      <4>1. profile.current \in Attempts /\ sessions[profile.current].status \in Result
        BY CurrentOpened
      <4>2. profile.current # s /\ ~(s < profile.current)
        BY <2>3, <4>1 DEF Activates, RowInv, InOrder, Result
      <4>3. s \in Nat /\ profile.current \in Nat
        BY <4>1
      <4> QED
        BY <4>2, <4>3
    <3>3. s \in Nat /\ s > 0 /\ profile.current \in Nat
      BY AttemptNumbers
    <3>4. s > profile.current
      BY <3>2, <3>3
    <3>5. profile'.status = "pending" /\ profile'.current = s
      BY <2>3 DEF Activates, Moved
    <3> QED
      BY <3>1, <3>3, <3>4, <3>5 DEF KycPromise!Start, KycPromise!Startable, Startable
  <2>4. ASSUME NEW s \in Attempts, NEW to \in Result, Concludes(s, to)
        PROVE  [KycPromise!Next]_<<profile.status, profile.current>>
    <3>1. /\ profile.status \in Undecided /\ profile.current = s
          /\ profile'.status = to /\ profile'.current = s
      BY <2>4 DEF Concludes, Under
    <3> QED
      BY <3>1 DEF Undecided, Result, KycPromise!Next, KycPromise!Park, KycPromise!Resume,
                  KycPromise!Conclude, KycPromise!UnderWay
  <2> QED
    BY <2>0, <2>1, <2>2, <2>3, <2>4 DEF RowStep, Same, Creates, Fails, KycPromise!Next
<1> QED
  BY <1>1, <1>2, KycInductive, PTL DEF Spec, ImplementsVerificationStatus, KycPromise!Spec
\* A player's standing rests on ever newer attempts: the profile never goes
\* back to an earlier session, and while it rests on one a failed or expired
\* verification stays so and an approval only lapses, whatever late events,
\* decisions and workers do (ProcessKycProviderEventService.ts,
\* KycManualReviewService.ts, ExpireKycSessionsService.ts).
THEOREM StandingMovesForward ==
  Spec => [][/\ profile'.current >= profile.current
             /\ profile'.current = profile.current /\ profile.status \in {"verified", "failed", "expired"}
                => \/ profile'.status = profile.status
                   \/ profile.status = "verified" /\ profile'.status = "expired"]_vars
<1> DEFINE Forward ==
      /\ profile'.current >= profile.current
      /\ profile'.current = profile.current /\ profile.status \in {"verified", "failed", "expired"}
         => \/ profile'.status = profile.status
            \/ profile.status = "verified" /\ profile'.status = "expired"
<1>1. ASSUME IInv, [KycPromise!Next]_<<profile.status, profile.current>> PROVE Forward
  <2>1. profile.current \in Nat
    BY <1>1, AttemptNumbers DEF IInv
  <2> QED
    BY <1>1, <2>1
    DEF KycPromise!Next, KycPromise!Start, KycPromise!Startable, KycPromise!Park, KycPromise!Resume,
        KycPromise!Conclude, KycPromise!UnderWay, KycPromise!Lapse
<1>2. [][KycPromise!Next]_<<profile.status, profile.current>> /\ []IInv => [][Forward]_vars
  BY <1>1, PTL
<1> QED
  BY <1>2, KycInductive, KycImplements, PTL DEF ImplementsVerificationStatus, KycPromise!Spec
=============================================================================
