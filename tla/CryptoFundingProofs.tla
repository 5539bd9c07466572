------------------------ MODULE CryptoFundingProofs ------------------------
(***************************************************************************)
(* Theorems about CryptoFunding for every number of intents, requests and  *)
(* events, every repertoire of provider reports and every bound.           *)
(***************************************************************************)
EXTENDS CryptoFunding, TLAPS

-----------------------------------------------------------------------------
(* The inductive invariant *)

\* A request beyond its first transaction works on an intent that exists.
RequestsHaveIntents ==
  \A r \in Requests : requests[r] # Null => intents[requests[r].key] # Null

\* A transaction in progress has not committed its event, and one that missed
\* its reference has a claim to go on with.
FlightsUncommitted ==
  \A e \in Events : flights[e] # Null =>
    /\ events[e] = Null
    /\ flights[e].missed => flights[e].report.claim # Null

\* A reference and leaving provider_pending are written together.
PendingHasNoReference ==
  \A k \in Intents :
    intents[k] # Null /\ intents[k].status = "provider_pending" => intents[k].ref = Null

IInv ==
  /\ TypeOK
  /\ RequestsHaveIntents
  /\ FlightsUncommitted
  /\ PendingHasNoReference
  /\ ConfirmedIsAttested
  /\ ConfirmedBeforeExpiry

-----------------------------------------------------------------------------
(* What the functions on intent rows do *)

\* What any transaction may do to a row that is there: identity and a known
\* reference stay, history grows, a terminal row keeps all but its reference,
\* and a provider_pending row has no reference.
Keeps(i, j) ==
  /\ j.hash = i.hash /\ j.createdAt = i.createdAt
  /\ i.log \subseteq j.log
  /\ i.ref # Null => j.ref = i.ref
  /\ j.status = "provider_pending" => j.ref = Null
  /\ i.status \in Terminal =>
       /\ j.status = i.status /\ j.version = i.version /\ j.log = i.log
       /\ j.confirmedAt = i.confirmedAt /\ j.lastEventAt = i.lastEventAt

\* A change that neither confirms a row nor touches a confirmation.
Unconfirming(i, j) ==
  /\ Keeps(i, j)
  /\ j.confirmedAt = i.confirmedAt
  /\ j.status = "confirmed" <=> i.status = "confirmed"

LEMMA EdgeTypes ==
  ASSUME NEW from, NEW to, CanTransition(from, to)
  PROVE  /\ from \in Status \ Terminal
         /\ to \in Status
         /\ to # "provider_pending"
BY DEF CanTransition, Edges, Status, Terminal

\* Any open row may expire.
LEMMA OpenCanExpire ==
  ASSUME NEW s \in Status \ Terminal
  PROVE  CanTransition(s, "expired")
BY DEF CanTransition, Edges, Status, Terminal

LEMMA MoveType ==
  ASSUME NEW i \in Intent, NEW to \in Status, NEW trigger \in Trigger,
         NEW e \in Events \cup {Null}
  PROVE  LET j == Move(i, to, trigger, e) IN
         /\ j \in Intent
         /\ j.status = to
         /\ i.log \subseteq j.log
         /\ j.hash = i.hash /\ j.ref = i.ref /\ j.session = i.session
         /\ j.createdAt = i.createdAt /\ j.confirmedAt = i.confirmedAt
         /\ j.lastEventAt = i.lastEventAt
<1> DEFINE t == [from |-> i.status, to |-> to, version |-> i.version + 1,
                 trigger |-> trigger, event |-> e]
           j == [i EXCEPT !.status = to, !.version = i.version + 1,
                          !.log = i.log \cup {t}]
<1>1. t \in Transition
  BY DEF Intent, Transition
<1>2. i.log \cup {t} \in SUBSET Transition
  BY <1>1 DEF Intent
<1> HIDE DEF t
<1>3. i.version + 1 \in Nat
  BY DEF Intent
<1>4. ASSUME NEW n \in Nat, NEW L \in SUBSET Transition
      PROVE  [i EXCEPT !.status = to, !.version = n, !.log = L] \in Intent
  BY DEF Intent
<1>5. j \in Intent
  BY <1>3, <1>2, <1>4
<1>6. /\ j.status = to /\ i.log \subseteq j.log
      /\ j.hash = i.hash /\ j.ref = i.ref /\ j.session = i.session
      /\ j.createdAt = i.createdAt /\ j.confirmedAt = i.confirmedAt
      /\ j.lastEventAt = i.lastEventAt
  BY DEF Intent
<1>7. Move(i, to, trigger, e) = j
  BY DEF Move, t
<1>8. QED
  BY <1>5, <1>6, <1>7

\* A move along an edge that does not end in confirmed.
LEMMA MoveKeeps ==
  ASSUME NEW i \in Intent, NEW to, NEW trigger \in Trigger,
         NEW e \in Events \cup {Null}, CanTransition(i.status, to), to # "confirmed"
  PROVE  /\ Move(i, to, trigger, e) \in Intent
         /\ Unconfirming(i, Move(i, to, trigger, e))
         /\ Move(i, to, trigger, e).ref = i.ref
<1> DEFINE j == Move(i, to, trigger, e)
<1>1. i.status \in Status \ Terminal /\ to \in Status /\ to # "provider_pending"
  BY EdgeTypes
<1>2. /\ j \in Intent
      /\ j.status = to
      /\ i.log \subseteq j.log
      /\ j.hash = i.hash /\ j.ref = i.ref
      /\ j.createdAt = i.createdAt /\ j.confirmedAt = i.confirmedAt
  BY <1>1, MoveType
<1>3. i.status # "confirmed"
  BY <1>1 DEF Terminal
<1> HIDE DEF j
<1>4. Unconfirming(i, j)
  BY <1>1, <1>2, <1>3 DEF Unconfirming, Keeps
<1>5. QED
  BY <1>2, <1>4 DEF j

LEMMA UnconfirmingTransitive ==
  ASSUME NEW i, NEW j, NEW k, Unconfirming(i, j), Unconfirming(j, k)
  PROVE  Unconfirming(i, k)
BY DEF Unconfirming, Keeps

LEMMA WithReferenceType ==
  ASSUME NEW i \in Intent, NEW ref \in Reference
  PROVE  LET j == WithReference(i, ref) IN
         /\ j \in Intent
         /\ j.ref = ref
         /\ j.status = i.status /\ j.version = i.version /\ j.log = i.log
         /\ j.hash = i.hash /\ j.createdAt = i.createdAt
         /\ j.confirmedAt = i.confirmedAt /\ j.lastEventAt = i.lastEventAt
BY DEF WithReference, Intent

\* The rows the transactions of a request and of an event leave behind.
LEMMA ActivatedRow ==
  ASSUME NEW k \in Intents, NEW i \in Intent, i.ref \in {Null, k}
  PROVE  /\ Activated(i, k) \in Intent
         /\ Unconfirming(i, Activated(i, k))
<1> DEFINE j == WithReference(i, k)
<1>1. k \in Reference
  BY DEF Reference
<1>2. /\ j \in Intent
      /\ j.ref = k
      /\ j.status = i.status /\ j.version = i.version /\ j.log = i.log
      /\ j.hash = i.hash /\ j.createdAt = i.createdAt
      /\ j.confirmedAt = i.confirmedAt /\ j.lastEventAt = i.lastEventAt
  BY <1>1, WithReferenceType
<1> HIDE DEF j
<1>3. CASE i.status = "provider_pending"
  <2> DEFINE m == Move(j, "awaiting_payment", "PROVIDER_SESSION_CREATED", Null)
  <2>1. CanTransition(j.status, "awaiting_payment")
    BY <1>2, <1>3 DEF CanTransition, Edges
  <2>2. "PROVIDER_SESSION_CREATED" \in Trigger /\ "awaiting_payment" \in Status
    BY DEF Trigger, Status
  <2>3. /\ m \in Intent
        /\ m.status = "awaiting_payment"
        /\ j.log \subseteq m.log
        /\ m.hash = j.hash /\ m.ref = j.ref
        /\ m.createdAt = j.createdAt /\ m.confirmedAt = j.confirmedAt
    BY <1>2, <2>2, MoveType
  <2> HIDE DEF m
  <2>4. Unconfirming(i, m)
    BY <1>2, <1>3, <2>3 DEF Unconfirming, Keeps, Terminal
  <2>5. QED
    BY <1>3, <2>3, <2>4 DEF Activated, j, m
<1>4. CASE i.status # "provider_pending"
  <2>1. Unconfirming(i, j)
    BY <1>2, <1>4 DEF Unconfirming, Keeps
  <2>2. QED
    BY <1>2, <1>4, <2>1 DEF Activated, j
<1>5. QED
  BY <1>3, <1>4

LEMMA CreationFailedRow ==
  ASSUME NEW i \in Intent, i.status = "provider_pending" => i.ref = Null
  PROVE  /\ CreationFailed(i) \in Intent
         /\ Unconfirming(i, CreationFailed(i))
<1>1. CASE i.status = "provider_pending"
  <2> DEFINE j == [i EXCEPT !.session = IF i.session = "creating" THEN "creation_failed"
                                        ELSE i.session]
             m == Move(j, "creation_failed", "PROVIDER_CREATION_FAILED", Null)
  <2>1. /\ j \in Intent
        /\ j.status = i.status /\ j.ref = i.ref /\ j.log = i.log
        /\ j.hash = i.hash /\ j.createdAt = i.createdAt /\ j.confirmedAt = i.confirmedAt
    BY DEF Intent
  <2> HIDE DEF j
  <2>2. "PROVIDER_CREATION_FAILED" \in Trigger /\ "creation_failed" \in Status
    BY DEF Trigger, Status
  <2>3. /\ m \in Intent
        /\ m.status = "creation_failed"
        /\ j.log \subseteq m.log
        /\ m.hash = j.hash /\ m.ref = j.ref
        /\ m.createdAt = j.createdAt /\ m.confirmedAt = j.confirmedAt
    BY <2>1, <2>2, MoveType
  <2> HIDE DEF m
  <2>4. Unconfirming(i, m)
    BY <1>1, <2>1, <2>3 DEF Unconfirming, Keeps, Terminal
  <2>5. QED
    BY <1>1, <2>3, <2>4 DEF CreationFailed, j, m
<1>2. CASE i.status # "provider_pending"
  BY <1>2 DEF CreationFailed, Unconfirming, Keeps
<1>3. QED
  BY <1>1, <1>2

LEMMA RecoveredRow ==
  ASSUME NEW i \in Intent, i.status = "provider_pending", i.ref = Null,
         NEW e \in Events, NEW ref \in Reference
  PROVE  /\ Recovered(i, e, ref) \in Intent
         /\ Unconfirming(i, Recovered(i, e, ref))
         /\ Recovered(i, e, ref).ref = ref
<1> DEFINE j == WithReference(i, ref)
           m == Move(j, "awaiting_payment", "PROVIDER_EVENT_BEFORE_SESSION_RESPONSE", e)
<1>1. /\ j \in Intent
      /\ j.ref = ref
      /\ j.status = i.status /\ j.log = i.log
      /\ j.hash = i.hash /\ j.createdAt = i.createdAt /\ j.confirmedAt = i.confirmedAt
  BY WithReferenceType
<1> HIDE DEF j
<1>2. "PROVIDER_EVENT_BEFORE_SESSION_RESPONSE" \in Trigger /\ "awaiting_payment" \in Status
  BY DEF Trigger, Status
<1>3. /\ m \in Intent
      /\ m.status = "awaiting_payment"
      /\ j.log \subseteq m.log
      /\ m.hash = j.hash /\ m.ref = j.ref
      /\ m.createdAt = j.createdAt /\ m.confirmedAt = j.confirmedAt
  BY <1>1, <1>2, MoveType
<1> HIDE DEF m
<1>4. Unconfirming(i, m)
  BY <1>1, <1>3 DEF Unconfirming, Keeps, Terminal
<1>5. QED
  BY <1>1, <1>3, <1>4 DEF Recovered, j, m

LEMMA ExpiredRow ==
  ASSUME NEW i \in Intent, i.status = "provider_pending" => i.ref = Null
  PROVE  /\ ExpiredByEvent(i) \in Intent
         /\ Unconfirming(i, ExpiredByEvent(i))
<1>1. CASE CanTransition(i.status, "expired")
  <2>1. "PROVIDER_EVENT_EXPIRY_GUARD" \in Trigger
    BY DEF Trigger
  <2>2. QED
    BY <1>1, <2>1, MoveKeeps DEF ExpiredByEvent
<1>2. CASE ~CanTransition(i.status, "expired")
  BY <1>2 DEF ExpiredByEvent, Unconfirming, Keeps
<1>3. QED
  BY <1>1, <1>2

LEMMA ParkedRow ==
  ASSUME NEW i \in Intent, i.status = "provider_pending" => i.ref = Null,
         NEW e \in Events, NEW at \in Nat
  PROVE  /\ Parked(i, e, at) \in Intent
         /\ Unconfirming(i, Parked(i, e, at))
<1>1. CASE CanTransition(i.status, "reconciliation_required")
  <2> DEFINE j == Move(i, "reconciliation_required", "PROVIDER_DISCREPANCY", e)
  <2>1. "PROVIDER_DISCREPANCY" \in Trigger
    BY DEF Trigger
  <2>2. j \in Intent /\ Unconfirming(i, j)
    BY <1>1, <2>1, MoveKeeps
  <2>3. i.status \notin Terminal
    BY <1>1, EdgeTypes
  <2> HIDE DEF j
  <2> DEFINE m == [j EXCEPT !.lastEventAt = at]
  <2>4. /\ m \in Intent
        /\ m.status = j.status /\ m.version = j.version /\ m.log = j.log /\ m.ref = j.ref
        /\ m.hash = j.hash /\ m.createdAt = j.createdAt /\ m.confirmedAt = j.confirmedAt
    BY <2>2 DEF Intent
  <2> HIDE DEF m
  <2>5. Unconfirming(i, m)
    BY <2>2, <2>3, <2>4 DEF Unconfirming, Keeps
  <2>6. QED
    BY <1>1, <2>4, <2>5 DEF Parked, j, m
<1>2. CASE ~CanTransition(i.status, "reconciliation_required")
  BY <1>2 DEF Parked, Unconfirming, Keeps
<1>3. QED
  BY <1>1, <1>2

LEMMA AdvancedRow ==
  ASSUME NEW i \in Intent, NEW e \in Events, NEW f \in Flight,
         CanTransition(i.status, TargetStatus(f.report))
  PROVE  LET m == Advanced(i, e, f) IN
         /\ m \in Intent
         /\ Keeps(i, m)
         /\ m.ref = i.ref
         /\ f.report.status = "confirmed" =>
              m.status = "confirmed" /\ m.confirmedAt = f.receivedAt
         /\ f.report.status # "confirmed" => Unconfirming(i, m)
<1> DEFINE to == TargetStatus(f.report)
           j == Move(i, to, "PROVIDER_EVENT", e)
           c == IF f.report.status = "confirmed" THEN f.receivedAt ELSE i.confirmedAt
           m == [j EXCEPT !.lastEventAt = f.report.at, !.confirmedAt = c]
<1>1. i.status \in Status \ Terminal /\ to \in Status /\ to # "provider_pending"
  BY EdgeTypes
<1>2. /\ f.report.at \in Nat /\ f.receivedAt \in Nat
      /\ "PROVIDER_EVENT" \in Trigger
      /\ f.report.status \in {"payment_detected", "confirming", "confirmed", "failed", "expired"}
  BY DEF Flight, Report, Trigger
<1>3. to = "confirmed" <=> f.report.status = "confirmed"
  BY <1>2 DEF TargetStatus
<1> HIDE DEF to
<1>4. /\ j \in Intent
      /\ j.status = to
      /\ i.log \subseteq j.log
      /\ j.hash = i.hash /\ j.ref = i.ref
      /\ j.createdAt = i.createdAt /\ j.confirmedAt = i.confirmedAt
  BY <1>1, <1>2, MoveType
<1> HIDE DEF j
<1>5. c \in Nat \cup {Null}
  BY <1>2 DEF Intent
<1> HIDE DEF c
<1>6. /\ m \in Intent
      /\ m.status = j.status /\ m.log = j.log /\ m.ref = j.ref
      /\ m.hash = j.hash /\ m.createdAt = j.createdAt /\ m.confirmedAt = c
  BY <1>2, <1>4, <1>5 DEF Intent
<1> HIDE DEF m
<1>7. Keeps(i, m)
  BY <1>1, <1>4, <1>6 DEF Keeps
<1>8. f.report.status = "confirmed" => m.status = "confirmed" /\ m.confirmedAt = f.receivedAt
  BY <1>3, <1>4, <1>6 DEF c
<1>9. f.report.status # "confirmed" => Unconfirming(i, m)
  BY <1>1, <1>3, <1>4, <1>6, <1>7 DEF c, Unconfirming, Terminal
<1>10. j.confirmedAt = i.confirmedAt
  BY <1>4
<1>11. Advanced(i, e, f) = m
  BY <1>10 DEF Advanced, m, j, to, c
<1>12. QED
  BY <1>4, <1>6, <1>7, <1>8, <1>9, <1>11

-----------------------------------------------------------------------------
(* The three kinds of step there are *)

QuietRows ==
  \A k \in Intents :
    /\ intents[k] = Null => intents'[k] = Null
    /\ intents[k] # Null => intents'[k] # Null /\ Unconfirming(intents[k], intents'[k])

EventsStay == \A e \in Events : events[e] # Null => events'[e] = events[e]

\* Nothing is created or confirmed.
QuietStep == QuietRows /\ EventsStay /\ attestations' = attestations

\* Intent k appears.
CreateStep(k, h) ==
  /\ intents[k] = Null
  /\ intents' = [intents EXCEPT ![k] = NewIntent(h)]
  /\ UNCHANGED <<events, attestations>>

\* Event e confirms the open intent k and issues its attestation.
ConfirmStep(e, k) ==
  /\ intents[k] # Null /\ intents[k].status \notin Terminal
  /\ intents'[k] # Null /\ Keeps(intents[k], intents'[k])
  /\ \A n \in Intents \ {k} : intents'[n] = intents[n]
  /\ intents'[k].status = "confirmed"
  /\ attestations[k] = Null
  /\ attestations' = [attestations EXCEPT
       ![k] = [event |-> e, ref |-> intents'[k].ref, confirmedAt |-> intents'[k].confirmedAt]]
  /\ events[e] = Null
  /\ EventsStay
  /\ events'[e] # Null
  /\ LET ev == events'[e] IN
     /\ ev.intent = k /\ ev.verdict = "processed"
     /\ ev.report.status = "confirmed" /\ ev.report.value = "EXACT"
     /\ Owned(k, ev.report)
     /\ ev.report.ref = intents'[k].ref
     /\ ev.receivedAt = intents'[k].confirmedAt
     /\ intents'[k].createdAt <= ev.report.at
  /\ intents'[k].confirmedAt < ExpiresAt(intents'[k])

\* What every step establishes before the kinds are told apart.
Sound == TypeOK' /\ RequestsHaveIntents' /\ FlightsUncommitted'

LEMMA SameRows ==
  ASSUME IInv, UNCHANGED intents
  PROVE  QuietRows
<1>1. ASSUME NEW k \in Intents, intents[k] # Null
      PROVE  Unconfirming(intents[k], intents[k])
  BY <1>1 DEF IInv, PendingHasNoReference, Unconfirming, Keeps
<1>2. QED
  BY <1>1 DEF QuietRows

LEMMA OneRow ==
  ASSUME IInv, NEW k \in Intents, NEW i \in Intent, intents[k] # Null,
         Unconfirming(intents[k], i), intents' = [intents EXCEPT ![k] = i]
  PROVE  /\ intents' \in [Intents -> Intent \cup {Null}]
         /\ QuietRows
<1>1. intents \in [Intents -> Intent \cup {Null}]
  BY DEF IInv, TypeOK
<1>2. intents'[k] = i /\ \A n \in Intents \ {k} : intents'[n] = intents[n]
  BY <1>1
<1>3. i # Null
  BY NullAssumption
<1>4. ASSUME NEW n \in Intents, intents[n] # Null
      PROVE  Unconfirming(intents[n], intents[n])
  BY <1>4 DEF IInv, PendingHasNoReference, Unconfirming, Keeps
<1>5. QED
  BY <1>1, <1>2, <1>3, <1>4 DEF QuietRows

\* Intents never vanish, so requests that stay keep theirs.
LEMMA RequestsKept ==
  ASSUME IInv, QuietRows, UNCHANGED requests
  PROVE  RequestsHaveIntents'
<1>1. \A r \in Requests : requests[r] # Null => requests[r].key \in Intents
  BY DEF IInv, TypeOK, Request
<1>2. QED
  BY <1>1 DEF IInv, RequestsHaveIntents, QuietRows

\* Committing an event's verdict.
LEMMA RecordStep ==
  ASSUME IInv, NEW e \in Events, flights[e] # Null, NEW k \in Intents \cup {Null},
         NEW verdict \in Verdict,
         NEW types \in SUBSET (Discrepancy \cup {"PAYMENT_AFTER_EXPIRY",
                                 "PAYMENT_ON_TERMINAL_INTENT", "UNKNOWN_PROVIDER_REFERENCE"}),
         Record(e, k, verdict, types)
  PROVE  /\ events' \in [Events -> EventRow \cup {Null}]
         /\ reconciliations' \subseteq Reconciliation
         /\ flights' \in [Events -> Flight \cup {Null}]
         /\ UNCHANGED <<now, requests, sessions>>
         /\ FlightsUncommitted'
         /\ EventsStay
         /\ events[e] = Null
         /\ events'[e] # Null
         /\ events'[e].report = flights[e].report
         /\ events'[e].receivedAt = flights[e].receivedAt
         /\ events'[e].intent = k
         /\ events'[e].verdict = verdict
<1> DEFINE row == [report |-> flights[e].report, receivedAt |-> flights[e].receivedAt,
                   intent |-> k, verdict |-> verdict]
           recs == {[intent |-> k, event |-> e, type |-> t] : t \in types}
<1>1. flights[e] \in Flight
  BY DEF IInv, TypeOK
<1>2. row \in EventRow
  BY <1>1 DEF Flight, EventRow
<1>3. recs \subseteq Reconciliation
  BY DEF Reconciliation
<1>4. /\ events' = [events EXCEPT ![e] = row]
      /\ reconciliations' = reconciliations \cup recs
      /\ flights' = [flights EXCEPT ![e] = Null]
      /\ UNCHANGED <<now, requests, sessions>>
  BY DEF Record
<1>5. /\ row.report = flights[e].report /\ row.receivedAt = flights[e].receivedAt
      /\ row.intent = k /\ row.verdict = verdict
  OBVIOUS
<1> HIDE DEF row, recs
<1>6. /\ events \in [Events -> EventRow \cup {Null}]
      /\ reconciliations \subseteq Reconciliation
      /\ flights \in [Events -> Flight \cup {Null}]
      /\ events[e] = Null
  BY DEF IInv, TypeOK, FlightsUncommitted
<1>7. /\ events' \in [Events -> EventRow \cup {Null}]
      /\ events'[e] = row
      /\ \A d \in Events \ {e} : events'[d] = events[d]
  BY <1>2, <1>4, <1>6
<1>8. reconciliations' \subseteq Reconciliation
  BY <1>3, <1>4, <1>6
<1>9. /\ flights' \in [Events -> Flight \cup {Null}]
      /\ flights'[e] = Null
      /\ \A d \in Events \ {e} : flights'[d] = flights[d]
  BY <1>4, <1>6
<1>10. row # Null
  BY <1>2, NullAssumption
<1>11. FlightsUncommitted'
  BY <1>7, <1>9 DEF IInv, FlightsUncommitted
<1>12. EventsStay
  BY <1>6, <1>7 DEF EventsStay
<1>13. QED
  BY <1>4, <1>5, <1>6, <1>7, <1>8, <1>9, <1>10, <1>11, <1>12

\* A verdict that leaves the intent with a row that is no confirmation.
LEMMA QuietVerdict ==
  ASSUME IInv, NEW e \in Events, flights[e] # Null,
         NEW k \in Intents, intents[k] # Null,
         NEW j \in Intent, Unconfirming(intents[k], j),
         intents' = [intents EXCEPT ![k] = j], UNCHANGED attestations,
         NEW verdict \in Verdict,
         NEW types \in SUBSET (Discrepancy \cup {"PAYMENT_AFTER_EXPIRY",
                                 "PAYMENT_ON_TERMINAL_INTENT", "UNKNOWN_PROVIDER_REFERENCE"}),
         Record(e, k, verdict, types)
  PROVE  Sound /\ QuietStep
<1>1. intents' \in [Intents -> Intent \cup {Null}] /\ QuietRows
  BY OneRow
<1>2. /\ events' \in [Events -> EventRow \cup {Null}]
      /\ reconciliations' \subseteq Reconciliation
      /\ flights' \in [Events -> Flight \cup {Null}]
      /\ UNCHANGED <<now, requests, sessions>>
      /\ FlightsUncommitted'
      /\ EventsStay
  BY RecordStep
<1>3. RequestsHaveIntents'
  BY <1>1, <1>2, RequestsKept
<1>4. TypeOK'
  BY <1>1, <1>2 DEF IInv, TypeOK
<1>5. QED
  BY <1>1, <1>2, <1>3, <1>4 DEF Sound, QuietStep

\* A verdict on no intent at all.
LEMMA NoIntentVerdict ==
  ASSUME IInv, NEW e \in Events, flights[e] # Null,
         UNCHANGED <<intents, attestations>>,
         NEW verdict \in Verdict,
         NEW types \in SUBSET {"UNKNOWN_PROVIDER_REFERENCE"},
         Record(e, Null, verdict, types)
  PROVE  Sound /\ QuietStep
<1>1. QuietRows
  BY SameRows
<1>2. /\ events' \in [Events -> EventRow \cup {Null}]
      /\ reconciliations' \subseteq Reconciliation
      /\ flights' \in [Events -> Flight \cup {Null}]
      /\ UNCHANGED <<now, requests, sessions>>
      /\ FlightsUncommitted'
      /\ EventsStay
  BY RecordStep
<1>3. RequestsHaveIntents'
  BY <1>1, <1>2, RequestsKept
<1>4. TypeOK'
  BY <1>2 DEF IInv, TypeOK
<1>5. QED
  BY <1>1, <1>2, <1>3, <1>4 DEF Sound, QuietStep

\* The accepted confirmation of an intent, whose row i the transaction holds.
LEMMA AcceptStep ==
  ASSUME IInv, NEW e \in Events, flights[e] # Null,
         NEW k \in Intents, intents[k] # Null,
         NEW i \in Intent, Unconfirming(intents[k], i), i.ref = flights[e].report.ref,
         Accept(e, k, i)
  PROVE  Sound /\ (QuietStep \/ ConfirmStep(e, k))
<1> DEFINE f == flights[e]
           m == Advanced(i, e, f)
<1>1. f \in Flight
  BY DEF IInv, TypeOK
<1>2. CanTransition(i.status, TargetStatus(f.report))
  BY DEF Accept
<1>3. /\ m \in Intent /\ Keeps(i, m) /\ m.ref = i.ref
      /\ f.report.status = "confirmed" => m.status = "confirmed" /\ m.confirmedAt = f.receivedAt
      /\ f.report.status # "confirmed" => Unconfirming(i, m)
  BY <1>1, <1>2, AdvancedRow
<1>4. /\ intents' = [intents EXCEPT ![k] = m]
      /\ attestations' = Attested(k, i, e, f)
      /\ Record(e, k, "processed", {})
  BY DEF Accept
<1> HIDE DEF m
<1>5. "processed" \in Verdict
  BY DEF Verdict
<1>6. CASE f.report.status # "confirmed"
  <2>1. UNCHANGED attestations
    BY <1>4, <1>6 DEF Attested
  <2>2. Unconfirming(intents[k], m)
    BY <1>3, <1>6, UnconfirmingTransitive
  <2>3. QED
    BY <1>3, <1>4, <1>5, <2>1, <2>2, QuietVerdict
<1>7. CASE f.report.status = "confirmed"
  <2>1. intents[k].status \notin Terminal
    BY <1>2, EdgeTypes DEF Unconfirming, Keeps
  <2>2. attestations[k] = Null
    BY <2>1 DEF IInv, ConfirmedIsAttested, IsConfirmed, Terminal
  <2>3. Keeps(intents[k], m) /\ m.status = "confirmed" /\ m.confirmedAt = f.receivedAt
        /\ m.createdAt = i.createdAt
    BY <1>3, <1>7 DEF Unconfirming, Keeps
  <2>4. m # Null
    BY <1>3, NullAssumption
  <2>5. /\ intents \in [Intents -> Intent \cup {Null}]
        /\ attestations \in [Intents -> Attestation \cup {Null}]
    BY DEF IInv, TypeOK
  <2>6. /\ intents' \in [Intents -> Intent \cup {Null}]
        /\ intents'[k] = m
        /\ \A n \in Intents \ {k} : intents'[n] = intents[n]
    BY <1>3, <1>4, <2>5
  <2>7. attestations' = [attestations EXCEPT
          ![k] = [event |-> e, ref |-> m.ref, confirmedAt |-> m.confirmedAt]]
    BY <1>3, <1>4, <1>7, <2>2, <2>3 DEF Attested
  <2>8. [event |-> e, ref |-> m.ref, confirmedAt |-> m.confirmedAt] \in Attestation
    BY <1>1, <1>3, <2>3 DEF Attestation, Flight, Report
  <2>9. attestations' \in [Intents -> Attestation \cup {Null}]
    BY <2>5, <2>7, <2>8
  <2>10. /\ events' \in [Events -> EventRow \cup {Null}]
         /\ reconciliations' \subseteq Reconciliation
         /\ flights' \in [Events -> Flight \cup {Null}]
         /\ UNCHANGED <<now, requests, sessions>>
         /\ FlightsUncommitted'
         /\ EventsStay
         /\ events[e] = Null /\ events'[e] # Null
         /\ events'[e].report = f.report /\ events'[e].receivedAt = f.receivedAt
         /\ events'[e].intent = k /\ events'[e].verdict = "processed"
    BY <1>4, <1>5, RecordStep
  <2>11. RequestsHaveIntents'
    <3>1. \A r \in Requests : requests[r] # Null => requests[r].key \in Intents
      BY DEF IInv, TypeOK, Request
    <3>2. QED
      BY <2>4, <2>6, <2>10, <3>1 DEF IInv, RequestsHaveIntents
  <2>12. TypeOK'
    BY <2>6, <2>9, <2>10 DEF IInv, TypeOK
  <2>13. /\ Owned(k, f.report) /\ ~Lapsed(i, f.receivedAt)
         /\ ~Discrepant(f.report) /\ ~IsStale(i, f.report)
    BY DEF Accept
  <2>14. f.report.value = "EXACT"
    BY <1>7, <2>13 DEF Discrepant, Moved
  <2>15. i.createdAt <= f.report.at
    BY <1>1, <2>13 DEF IsStale, Intent, Flight, Report
  <2>16. f.receivedAt < ExpiresAt(i)
    <3>1. i.status # "confirmed"
      BY <1>2, EdgeTypes DEF Terminal
    <3>2. ~(ExpiresAt(i) <= f.receivedAt)
      BY <2>13, <3>1 DEF Lapsed
    <3>3. ExpiresAt(i) \in Nat /\ f.receivedAt \in Nat
      BY <1>1, ConstantsAssumption DEF ExpiresAt, Intent, Flight
    <3>4. QED
      BY <3>2, <3>3
  <2>17. ExpiresAt(m) = ExpiresAt(i)
    BY <2>3 DEF ExpiresAt
  <2>18. ConfirmStep(e, k)
    BY <1>3, <1>7, <2>1, <2>2, <2>3, <2>4, <2>6, <2>7, <2>10, <2>13, <2>14, <2>15, <2>16, <2>17
       DEF ConfirmStep
  <2>19. QED
    BY <2>10, <2>11, <2>12, <2>18 DEF Sound
<1>8. QED
  BY <1>6, <1>7

LEMMA ResolveStep ==
  ASSUME IInv, NEW e \in Events, flights[e] # Null,
         NEW k \in Intents, intents[k] # Null,
         NEW i \in Intent, Unconfirming(intents[k], i), i.ref = flights[e].report.ref,
         Resolve(e, k, i)
  PROVE  Sound /\ (QuietStep \/ ConfirmStep(e, k))
<1> DEFINE f == flights[e]
<1>1. /\ f \in Flight /\ f.report \in Report /\ f.report.at \in Nat
      /\ f.report.value \in Discrepancy \cup {"EXACT"}
      /\ f.report.ref \in Reference
  BY DEF IInv, TypeOK, Flight, Report
<1>2. i.status # "provider_pending"
  BY <1>1, NullAssumption DEF Unconfirming, Keeps
<1>3. {"ownership_mismatch", "ignored_expired", "terminal_intent", "discrepancy",
       "ignored_stale"} \subseteq Verdict
  BY DEF Verdict
<1>4. CASE RejectOwnership(e, k, i)
  BY <1>3, <1>4, QuietVerdict DEF RejectOwnership
<1>5. CASE IgnoreExpired(e, k, i)
  <2>1. ExpiredByEvent(i) \in Intent /\ Unconfirming(intents[k], ExpiredByEvent(i))
    BY <1>2, ExpiredRow, UnconfirmingTransitive
  <2>2. QED
    BY <1>3, <1>5, <2>1, QuietVerdict DEF IgnoreExpired
<1>6. CASE RejectTerminal(e, k, i)
  BY <1>3, <1>6, QuietVerdict DEF RejectTerminal
<1>7. CASE RejectDiscrepancy(e, k, i)
  <2>1. Parked(i, e, f.report.at) \in Intent /\ Unconfirming(intents[k], Parked(i, e, f.report.at))
    BY <1>1, <1>2, ParkedRow, UnconfirmingTransitive
  <2>2. f.report.value \in Discrepancy
    BY <1>1, <1>7 DEF RejectDiscrepancy, Discrepant
  <2>3. QED
    BY <1>3, <1>7, <2>1, <2>2, QuietVerdict DEF RejectDiscrepancy
<1>8. CASE IgnoreStale(e, k, i)
  BY <1>3, <1>8, QuietVerdict DEF IgnoreStale
<1>9. CASE Accept(e, k, i)
  BY <1>9, AcceptStep
<1>10. QED
  BY <1>4, <1>5, <1>6, <1>7, <1>8, <1>9 DEF Resolve

-----------------------------------------------------------------------------
(* Every step is of one of the kinds *)

\* A step on the requests alone, or on the provider's sessions with them.
LEMMA RequestOnly ==
  ASSUME IInv, NEW r \in Requests, NEW q \in Request \cup {Null},
         requests' = [requests EXCEPT ![r] = q],
         q # Null => intents[q.key] # Null,
         sessions' \in [Intents -> {"none", "open", "unusable"}],
         UNCHANGED <<now, intents, flights, events, reconciliations, attestations>>
  PROVE  Sound /\ QuietStep
<1>1. QuietRows
  BY SameRows
<1>2. /\ requests' \in [Requests -> Request \cup {Null}]
      /\ requests'[r] = q
      /\ \A d \in Requests \ {r} : requests'[d] = requests[d]
  BY DEF IInv, TypeOK
<1>3. TypeOK'
  BY <1>2 DEF IInv, TypeOK
<1>4. RequestsHaveIntents'
  BY <1>2 DEF IInv, RequestsHaveIntents
<1>5. FlightsUncommitted'
  BY DEF IInv, FlightsUncommitted
<1>6. QED
  BY <1>1, <1>3, <1>4, <1>5 DEF Sound, QuietStep, EventsStay

\* A request's second transaction: it ends, its intent's row changes quietly.
LEMMA RequestEnds ==
  ASSUME IInv, NEW r \in Requests, NEW k \in Intents, intents[k] # Null,
         NEW j \in Intent, Unconfirming(intents[k], j),
         intents' = [intents EXCEPT ![k] = j],
         requests' = [requests EXCEPT ![r] = Null],
         UNCHANGED <<now, sessions, flights, events, reconciliations, attestations>>
  PROVE  Sound /\ QuietStep
<1>1. intents' \in [Intents -> Intent \cup {Null}] /\ QuietRows
  BY OneRow
<1>2. /\ requests \in [Requests -> Request \cup {Null}]
      /\ requests' \in [Requests -> Request \cup {Null}]
      /\ \A d \in Requests : requests'[d] # Null => requests'[d] = requests[d]
  BY DEF IInv, TypeOK
<1>3. TypeOK'
  BY <1>1, <1>2 DEF IInv, TypeOK
<1>4. RequestsHaveIntents'
  <2>1. \A d \in Requests : requests[d] # Null => requests[d].key \in Intents
    BY <1>2 DEF Request
  <2>2. QED
    BY <1>1, <1>2, <2>1 DEF IInv, RequestsHaveIntents, QuietRows
<1>5. FlightsUncommitted'
  BY DEF IInv, FlightsUncommitted
<1>6. QED
  BY <1>1, <1>3, <1>4, <1>5 DEF Sound, QuietStep, EventsStay

\* A step that only opens, moves on or drops an event's transaction.
LEMMA FlightOnly ==
  ASSUME IInv, NEW e \in Events, events[e] = Null, NEW f \in Flight \cup {Null},
         flights' = [flights EXCEPT ![e] = f],
         f # Null => (f.missed => f.report.claim # Null),
         UNCHANGED <<now, intents, requests, sessions, events, reconciliations, attestations>>
  PROVE  Sound /\ QuietStep
<1>1. QuietRows
  BY SameRows
<1>2. /\ flights' \in [Events -> Flight \cup {Null}]
      /\ flights'[e] = f
      /\ \A d \in Events \ {e} : flights'[d] = flights[d]
  BY DEF IInv, TypeOK
<1>3. TypeOK'
  BY <1>2 DEF IInv, TypeOK
<1>4. FlightsUncommitted'
  BY <1>2 DEF IInv, FlightsUncommitted
<1>5. RequestsHaveIntents'
  BY DEF IInv, RequestsHaveIntents
<1>6. QED
  BY <1>1, <1>3, <1>4, <1>5 DEF Sound, QuietStep, EventsStay

LEMMA NewIntentType ==
  ASSUME NEW h \in Hashes, now \in Nat
  PROVE  NewIntent(h) \in Intent
BY DEF NewIntent, Intent, Status

LEMMA PrepareStep ==
  ASSUME IInv, NEW r \in Requests, NEW k \in Intents, NEW h \in Hashes, Prepare(r, k, h)
  PROVE  Sound /\ (QuietStep \/ CreateStep(k, h))
<1> DEFINE q == [key |-> k, pc |-> "calling"]
<1>1. q \in Request
  BY DEF Request
<1>2. /\ requests' = [requests EXCEPT ![r] = q]
      /\ UNCHANGED <<now, sessions, flights, events, reconciliations, attestations>>
  BY DEF Prepare
<1>3. sessions' \in [Intents -> {"none", "open", "unusable"}]
  BY <1>2 DEF IInv, TypeOK
<1>4. q.key = k
  OBVIOUS
<1> HIDE DEF q
<1>5. CASE intents[k] # Null /\ UNCHANGED intents
  BY <1>1, <1>2, <1>3, <1>4, <1>5, RequestOnly
<1>6. CASE intents[k] = Null /\ intents' = [intents EXCEPT ![k] = NewIntent(h)]
  <2>1. NewIntent(h) \in Intent /\ NewIntent(h) # Null
    BY NewIntentType, NullAssumption DEF IInv, TypeOK
  <2>2. /\ intents' \in [Intents -> Intent \cup {Null}]
        /\ \A n \in Intents : intents[n] # Null => intents'[n] # Null
        /\ intents'[k] # Null
    BY <1>6, <2>1 DEF IInv, TypeOK
  <2>3. /\ requests \in [Requests -> Request \cup {Null}]
        /\ requests' \in [Requests -> Request \cup {Null}]
        /\ requests'[r] = q
        /\ \A d \in Requests \ {r} : requests'[d] = requests[d]
    BY <1>1, <1>2 DEF IInv, TypeOK
  <2>4. TypeOK'
    BY <1>2, <2>2, <2>3 DEF IInv, TypeOK
  <2>5. RequestsHaveIntents'
    <3>1. \A d \in Requests : requests[d] # Null => requests[d].key \in Intents
      BY <2>3 DEF Request
    <3>2. QED
      BY <1>4, <2>2, <2>3, <3>1 DEF IInv, RequestsHaveIntents
  <2>6. FlightsUncommitted'
    BY <1>2 DEF IInv, FlightsUncommitted
  <2>7. QED
    BY <1>2, <1>6, <2>4, <2>5, <2>6 DEF Sound, CreateStep
<1>7. QED
  BY <1>5, <1>6 DEF Prepare

LEMMA RequestKinds ==
  ASSUME IInv, NEW r \in Requests, RequestStep(r)
  PROVE  Sound /\ (QuietStep \/ \E k \in Intents, h \in Hashes : CreateStep(k, h))
<1> DEFINE q == requests[r]
           k == q.key
<1>1. ASSUME q # Null
      PROVE  /\ q \in Request /\ k \in Intents
             /\ intents[k] # Null /\ intents[k] \in Intent
             /\ intents[k].status = "provider_pending" => intents[k].ref = Null
  BY <1>1 DEF IInv, TypeOK, Request, RequestsHaveIntents, PendingHasNoReference
<1>2. sessions \in [Intents -> {"none", "open", "unusable"}]
  BY DEF IInv, TypeOK
<1>3. ASSUME q # Null, NEW pc \in {"opened", "refused"}
      PROVE  /\ [q EXCEPT !.pc = pc] \in Request /\ [q EXCEPT !.pc = pc].key = k
  BY <1>1, <1>3 DEF Request
<1>4. CASE \E n \in Intents, h \in Hashes : Prepare(r, n, h)
  BY <1>4, PrepareStep
<1>5. CASE ProviderOpens(r)
  <2>1. /\ q # Null
        /\ requests' = [requests EXCEPT ![r] = [q EXCEPT !.pc = "opened"]]
        /\ sessions' = [sessions EXCEPT ![k] = "open"]
        /\ UNCHANGED <<now, intents, flights, events, reconciliations, attestations>>
    BY <1>5 DEF ProviderOpens
  <2>2. sessions' \in [Intents -> {"none", "open", "unusable"}]
    BY <1>2, <2>1
  <2>3. [q EXCEPT !.pc = "opened"] \in Request /\ [q EXCEPT !.pc = "opened"].key = k
    BY <1>3, <2>1
  <2> HIDE DEF q
  <2>4. QED
    BY <1>1, <2>1, <2>2, <2>3, RequestOnly
<1>6. CASE ProviderRefuses(r)
  <2>1. /\ q # Null
        /\ requests' = [requests EXCEPT ![r] = [q EXCEPT !.pc = "refused"]]
        /\ sessions' = sessions \/ sessions' = [sessions EXCEPT ![k] = "unusable"]
        /\ UNCHANGED <<now, intents, flights, events, reconciliations, attestations>>
    BY <1>6 DEF ProviderRefuses
  <2>2. sessions' \in [Intents -> {"none", "open", "unusable"}]
    BY <1>2, <2>1
  <2>3. [q EXCEPT !.pc = "refused"] \in Request /\ [q EXCEPT !.pc = "refused"].key = k
    BY <1>3, <2>1
  <2> HIDE DEF q
  <2>4. QED
    BY <1>1, <2>1, <2>2, <2>3, RequestOnly
<1>7. CASE ProviderAnswerLost(r)
  <2>1. /\ requests' = [requests EXCEPT ![r] = Null]
        /\ sessions' = [sessions EXCEPT ![k] = "open"]
        /\ UNCHANGED <<now, intents, flights, events, reconciliations, attestations>>
    BY <1>7 DEF ProviderAnswerLost
  <2>2. sessions' \in [Intents -> {"none", "open", "unusable"}]
    BY <1>2, <2>1
  <2>3. QED
    BY <2>1, <2>2, RequestOnly
<1>8. CASE Activate(r)
  <2>1. /\ q # Null
        /\ intents[k].ref \in {Null, k}
        /\ intents' = [intents EXCEPT ![k] = Activated(intents[k], k)]
        /\ requests' = [requests EXCEPT ![r] = Null]
        /\ UNCHANGED <<now, sessions, flights, events, reconciliations, attestations>>
    BY <1>8 DEF Activate
  <2>2. Activated(intents[k], k) \in Intent /\ Unconfirming(intents[k], Activated(intents[k], k))
    BY <1>1, <2>1, ActivatedRow
  <2>3. QED
    BY <1>1, <2>1, <2>2, RequestEnds
<1>9. CASE MarkCreationFailed(r)
  <2>1. /\ q # Null
        /\ intents' = [intents EXCEPT ![k] = CreationFailed(intents[k])]
        /\ requests' = [requests EXCEPT ![r] = Null]
        /\ UNCHANGED <<now, sessions, flights, events, reconciliations, attestations>>
    BY <1>9 DEF MarkCreationFailed
  <2>2. CreationFailed(intents[k]) \in Intent /\ Unconfirming(intents[k], CreationFailed(intents[k]))
    BY <1>1, <2>1, CreationFailedRow
  <2>3. QED
    BY <1>1, <2>1, <2>2, RequestEnds
<1>10. CASE Abandon(r)
  BY <1>2, <1>10, RequestOnly DEF Abandon
<1>11. QED
  BY <1>4, <1>5, <1>6, <1>7, <1>8, <1>9, <1>10 DEF RequestStep

LEMMA EventKinds ==
  ASSUME IInv, NEW e \in Events, EventStep(e)
  PROVE  Sound /\ (QuietStep \/ \E k \in Intents : ConfirmStep(e, k))
<1> DEFINE f == flights[e]
           p == f.report
<1>1. ASSUME f # Null
      PROVE  /\ f \in Flight /\ p \in Report /\ events[e] = Null
             /\ p.ref \in Reference /\ p.claim \in Intents \cup {Null}
             /\ f.missed => p.claim # Null
  BY <1>1 DEF IInv, TypeOK, Flight, Report, FlightsUncommitted
<1>2. {"future_timestamp", "reference_unknown"} \subseteq Verdict
  BY DEF Verdict
<1>3. CASE \E d \in Reports : ReceiveEvent(e, d)
  <2>1. PICK d \in Reports : ReceiveEvent(e, d)
    BY <1>3
  <2> DEFINE g == [report |-> d, receivedAt |-> now, missed |-> FALSE]
  <2>2. g \in Flight /\ g.missed = FALSE
    BY ConstantsAssumption DEF Flight, IInv, TypeOK
  <2>3. /\ events[e] = Null
        /\ flights' = [flights EXCEPT ![e] = g]
        /\ UNCHANGED <<now, intents, requests, sessions, events, reconciliations, attestations>>
    BY <2>1 DEF ReceiveEvent
  <2> HIDE DEF g
  <2>4. QED
    BY <2>2, <2>3, FlightOnly
<1>4. CASE RejectFuture(e)
  BY <1>2, <1>4, NoIntentVerdict DEF RejectFuture
<1>5. CASE ResolveByReference(e)
  <2>1. PICK k \in Holders(p.ref) : Resolve(e, k, intents[k])
    BY <1>5 DEF ResolveByReference
  <2>2. f # Null
    BY <1>5 DEF ResolveByReference, InTime
  <2>3. k \in Intents /\ intents[k] # Null /\ intents[k].ref = p.ref
    BY <2>1 DEF Holders
  <2>4. intents[k] \in Intent /\ Unconfirming(intents[k], intents[k])
    BY <2>3 DEF IInv, TypeOK, PendingHasNoReference, Unconfirming, Keeps
  <2>5. QED
    BY <2>1, <2>2, <2>3, <2>4, ResolveStep
<1>6. CASE MissReference(e)
  <2>1. f # Null
    BY <1>6 DEF MissReference, InTime
  <2>2. CASE p.claim = Null
    BY <1>2, <1>6, <2>1, <2>2, NoIntentVerdict DEF MissReference, RejectUnknown
  <2>3. CASE p.claim # Null
    <3> DEFINE g == [f EXCEPT !.missed = TRUE]
    <3>1. g \in Flight /\ g.report = p
      BY <1>1, <2>1 DEF Flight
    <3>2. /\ flights' = [flights EXCEPT ![e] = g]
          /\ UNCHANGED <<now, intents, requests, sessions, events, reconciliations, attestations>>
      BY <1>6, <2>3 DEF MissReference
    <3> HIDE DEF g, f
    <3>3. QED
      BY <1>1, <2>1, <2>3, <3>1, <3>2, FlightOnly DEF f
  <2>4. QED
    BY <2>2, <2>3
<1>7. CASE ResolveByClaim(e)
  <2> DEFINE k == p.claim
  <2>1. f # Null /\ f.missed
    BY <1>7 DEF ResolveByClaim, InTime
  <2>2. k \in Intents
    BY <1>1, <2>1
  <2>3. CASE ~Recoverable(k)
    BY <1>2, <1>7, <2>1, <2>3, NoIntentVerdict DEF ResolveByClaim, RejectUnknown
  <2>4. CASE Recoverable(k)
    <3> DEFINE i == Recovered(intents[k], e, p.ref)
    <3>1. /\ intents[k] # Null /\ intents[k] \in Intent
          /\ intents[k].status = "provider_pending" /\ intents[k].ref = Null
      BY <2>2, <2>4 DEF Recoverable, IInv, TypeOK, PendingHasNoReference
    <3>2. i \in Intent /\ Unconfirming(intents[k], i) /\ i.ref = p.ref
      BY <1>1, <2>1, <3>1, RecoveredRow
    <3>3. Resolve(e, k, i)
      BY <1>7, <2>4 DEF ResolveByClaim
    <3> HIDE DEF i
    <3>4. QED
      BY <2>1, <2>2, <3>1, <3>2, <3>3, ResolveStep
  <2>5. QED
    BY <2>3, <2>4
<1>8. CASE RollBack(e)
  BY <1>1, <1>8, FlightOnly DEF RollBack
<1>9. QED
  BY <1>3, <1>4, <1>5, <1>6, <1>7, <1>8 DEF EventStep

LEMMA ExpireStep ==
  ASSUME IInv, NEW S, Expire(S)
  PROVE  Sound /\ QuietStep
<1> DEFINE j(k) == Move(intents[k], "expired", "EXPIRY_WORKER", Null)
<1>1. ASSUME NEW k \in Intents, k \in S
      PROVE  /\ intents[k] # Null
             /\ j(k) \in Intent
             /\ Unconfirming(intents[k], j(k))
  <2>1. intents[k] # Null /\ intents[k] \in Intent /\ intents[k].status \in Status \ Terminal
    BY <1>1 DEF Expire, Due, IInv, TypeOK, Intent
  <2>2. CanTransition(intents[k].status, "expired")
    BY <2>1, OpenCanExpire
  <2>3. "EXPIRY_WORKER" \in Trigger
    BY DEF Trigger
  <2>4. QED
    BY <2>1, <2>2, <2>3, MoveKeeps
<1>2. /\ intents' = [k \in Intents |-> IF k \in S THEN j(k) ELSE intents[k]]
      /\ UNCHANGED <<now, requests, sessions, flights, events, attestations>>
  BY DEF Expire
<1> HIDE DEF j
<1>3. /\ intents' \in [Intents -> Intent \cup {Null}]
      /\ \A k \in Intents : k \in S => intents'[k] = j(k)
      /\ \A k \in Intents : k \notin S => intents'[k] = intents[k]
  BY <1>1, <1>2 DEF IInv, TypeOK
<1>4. QuietRows
  <2>1. \A k \in Intents : intents[k] # Null => Unconfirming(intents[k], intents[k])
    BY DEF IInv, PendingHasNoReference, Unconfirming, Keeps
  <2>2. \A k \in Intents : k \in S => j(k) # Null
    BY <1>1, NullAssumption
  <2>3. QED
    BY <1>1, <1>3, <2>1, <2>2 DEF QuietRows
<1>5. reconciliations' \subseteq Reconciliation
  BY DEF Expire, Due, IInv, TypeOK, Reconciliation
<1>6. TypeOK'
  BY <1>2, <1>3, <1>5 DEF IInv, TypeOK
<1>7. RequestsHaveIntents'
  BY <1>2, <1>4, RequestsKept
<1>8. FlightsUncommitted'
  BY <1>2 DEF IInv, FlightsUncommitted
<1>9. QED
  BY <1>2, <1>4, <1>6, <1>7, <1>8 DEF Sound, QuietStep, EventsStay

\* The clock, and stuttering.
LEMMA IdleStep ==
  ASSUME IInv, Tick \/ UNCHANGED vars
  PROVE  Sound /\ QuietStep
<1>1. /\ now' \in Nat
      /\ UNCHANGED <<intents, requests, sessions, flights, events, reconciliations,
                     attestations>>
  BY DEF Tick, vars, IInv, TypeOK
<1>2. QuietRows
  BY <1>1, SameRows
<1>3. Sound
  BY <1>1 DEF IInv, Sound, TypeOK, RequestsHaveIntents, FlightsUncommitted
<1>4. QED
  BY <1>1, <1>2, <1>3 DEF QuietStep, EventsStay

LEMMA StepKinds ==
  ASSUME IInv, [Next]_vars
  PROVE  /\ Sound
         /\ \/ QuietStep
            \/ \E k \in Intents, h \in Hashes : CreateStep(k, h)
            \/ \E e \in Events, k \in Intents : ConfirmStep(e, k)
<1>1. CASE \E r \in Requests : RequestStep(r)
  BY <1>1, RequestKinds
<1>2. CASE \E e \in Events : EventStep(e)
  BY <1>2, EventKinds
<1>3. CASE ExpiryWorker
  BY <1>3, ExpireStep DEF ExpiryWorker
<1>4. CASE Tick \/ UNCHANGED vars
  BY <1>4, IdleStep
<1>5. QED
  BY <1>1, <1>2, <1>3, <1>4 DEF Next

-----------------------------------------------------------------------------
(* Each kind preserves the rest of the invariant *)

LEMMA QuietPreserves ==
  ASSUME IInv, Sound, QuietStep
  PROVE  IInv'
<1>1. /\ intents \in [Intents -> Intent \cup {Null}]
      /\ attestations \in [Intents -> Attestation \cup {Null}]
  BY DEF IInv, TypeOK
<1>2. PendingHasNoReference'
  BY DEF QuietStep, QuietRows, Unconfirming, Keeps, PendingHasNoReference
<1>3. ASSUME NEW k \in Intents
      PROVE  IsConfirmed(k)' <=> IsConfirmed(k)
  BY DEF QuietStep, QuietRows, Unconfirming, IsConfirmed
<1>4. ASSUME NEW k \in Intents, attestations[k] # Null
      PROVE  /\ intents[k] # Null
             /\ intents'[k].ref = intents[k].ref
             /\ intents'[k].confirmedAt = intents[k].confirmedAt
             /\ intents'[k].createdAt = intents[k].createdAt
             /\ events'[attestations[k].event] = events[attestations[k].event]
  <2>1. /\ intents[k] # Null /\ attestations[k].ref = intents[k].ref
        /\ events[attestations[k].event] # Null
    BY <1>4 DEF IInv, ConfirmedIsAttested, IsConfirmed
  <2>2. intents[k].ref # Null /\ attestations[k].event \in Events
    BY <1>1, <1>4, <2>1, NullAssumption DEF Attestation
  <2>3. QED
    BY <2>1, <2>2 DEF QuietStep, QuietRows, EventsStay, Unconfirming, Keeps
<1>5. ConfirmedIsAttested'
  BY <1>3, <1>4 DEF IInv, ConfirmedIsAttested, QuietStep, EventsStay, Owned
<1>6. ConfirmedBeforeExpiry'
  BY <1>4 DEF IInv, ConfirmedBeforeExpiry, QuietStep, ExpiresAt
<1>7. QED
  BY <1>2, <1>5, <1>6 DEF IInv, Sound

LEMMA CreatePreserves ==
  ASSUME IInv, Sound, NEW k \in Intents, NEW h \in Hashes, CreateStep(k, h)
  PROVE  IInv'
<1>1. /\ intents'[k] = NewIntent(h)
      /\ \A n \in Intents \ {k} : intents'[n] = intents[n]
      /\ intents[k] = Null /\ UNCHANGED <<events, attestations>>
  BY DEF CreateStep, IInv, TypeOK
<1>2. NewIntent(h).status = "provider_pending" /\ NewIntent(h).ref = Null
  BY DEF NewIntent
<1>3. attestations[k] = Null
  BY <1>1 DEF IInv, ConfirmedIsAttested, IsConfirmed
<1>4. PendingHasNoReference'
  BY <1>1, <1>2 DEF IInv, PendingHasNoReference
<1>5. ConfirmedIsAttested'
  BY <1>1, <1>2, <1>3 DEF IInv, ConfirmedIsAttested, IsConfirmed, Owned
<1>6. ConfirmedBeforeExpiry'
  BY <1>1, <1>3 DEF IInv, ConfirmedBeforeExpiry, ExpiresAt
<1>7. QED
  BY <1>4, <1>5, <1>6 DEF IInv, Sound

LEMMA ConfirmPreserves ==
  ASSUME IInv, Sound, NEW e \in Events, NEW k \in Intents, ConfirmStep(e, k)
  PROVE  IInv'
<1> DEFINE a == [event |-> e, ref |-> intents'[k].ref, confirmedAt |-> intents'[k].confirmedAt]
<1>1. attestations'[k] = a /\ \A n \in Intents \ {k} : attestations'[n] = attestations[n]
  BY DEF ConfirmStep, IInv, TypeOK
<1>2. /\ intents'[k] # Null /\ intents'[k].status = "confirmed"
      /\ \A n \in Intents \ {k} : intents'[n] = intents[n]
      /\ EventsStay
  BY DEF ConfirmStep
<1>3. a # Null
  <2>1. a \in Attestation \cup {Null}
    BY <1>1 DEF Sound, TypeOK
  <2>2. [event |-> e, ref |-> intents'[k].ref, confirmedAt |-> intents'[k].confirmedAt]
          \in Attestation
    BY <1>2 DEF ConfirmStep, Sound, TypeOK, Attestation, EventRow, Report
  <2>3. QED
    BY <2>2, NullAssumption
<1>4. a.event = e /\ a.ref = intents'[k].ref /\ a.confirmedAt = intents'[k].confirmedAt
  OBVIOUS
<1> HIDE DEF a
<1>5. PendingHasNoReference'
  BY <1>2 DEF IInv, PendingHasNoReference
<1>6. ConfirmedIsAttested'
  <2>1. ASSUME NEW n \in Intents, n # k
        PROVE  /\ intents'[n] = intents[n] /\ attestations'[n] = attestations[n]
               /\ attestations[n] # Null =>
                    /\ events[attestations[n].event] # Null
                    /\ events'[attestations[n].event] = events[attestations[n].event]
    <3>1. attestations[n] # Null => /\ attestations[n].event \in Events
                                    /\ events[attestations[n].event] # Null
      BY DEF IInv, TypeOK, Attestation, ConfirmedIsAttested
    <3>2. QED
      BY <1>1, <1>2, <2>1, <3>1 DEF EventsStay
  <2>2. ASSUME NEW n \in Intents
        PROVE  LET b == attestations'[n] IN
               /\ IsConfirmed(n)' <=> b # Null
               /\ b # Null =>
                    /\ b.ref = intents'[n].ref
                    /\ b.confirmedAt = intents'[n].confirmedAt
                    /\ events'[b.event] # Null
                    /\ LET ev == events'[b.event] IN
                       /\ ev.intent = n /\ ev.verdict = "processed"
                       /\ ev.report.status = "confirmed" /\ ev.report.value = "EXACT"
                       /\ Owned(n, ev.report)
                       /\ ev.report.ref = b.ref
                       /\ ev.receivedAt = b.confirmedAt
                       /\ intents'[n].createdAt <= ev.report.at
    <3>1. CASE n = k
      BY <1>1, <1>2, <1>3, <1>4, <3>1 DEF ConfirmStep, IsConfirmed
    <3>2. CASE n # k
      BY <2>1, <3>2 DEF IInv, ConfirmedIsAttested, IsConfirmed
    <3>3. QED
      BY <3>1, <3>2
  <2>3. QED
    BY <2>2 DEF ConfirmedIsAttested, Owned
<1>7. ConfirmedBeforeExpiry'
  <2>1. ASSUME NEW n \in Intents, attestations'[n] # Null
        PROVE  attestations'[n].confirmedAt < ExpiresAt(intents'[n])
    <3>1. CASE n = k
      BY <1>1, <1>4, <3>1 DEF ConfirmStep
    <3>2. CASE n # k
      BY <1>1, <1>2, <2>1, <3>2 DEF IInv, ConfirmedBeforeExpiry
    <3>3. QED
      BY <3>1, <3>2
  <2>2. QED
    BY <2>1 DEF ConfirmedBeforeExpiry, ExpiresAt
<1>8. QED
  BY <1>5, <1>6, <1>7 DEF IInv, Sound

LEMMA InitIInv == Init => IInv
<1> SUFFICES ASSUME Init PROVE IInv
  OBVIOUS
<1>1. TypeOK
  BY DEF Init, TypeOK
<1>2. RequestsHaveIntents /\ FlightsUncommitted /\ PendingHasNoReference
  BY DEF Init, RequestsHaveIntents, FlightsUncommitted, PendingHasNoReference
<1>3. ConfirmedIsAttested /\ ConfirmedBeforeExpiry
  BY DEF Init, ConfirmedIsAttested, ConfirmedBeforeExpiry, IsConfirmed
<1>4. QED
  BY <1>1, <1>2, <1>3 DEF IInv

LEMMA NextIInv == IInv /\ [Next]_vars => IInv'
BY StepKinds, QuietPreserves, CreatePreserves, ConfirmPreserves

LEMMA Inductive == Spec => []IInv
BY InitIInv, NextIInv, PTL DEF Spec

-----------------------------------------------------------------------------
(* The theorems *)

\* Every table always holds rows of its shape (TypeOK), the state columns
\* included, whatever the interleaving of requests, events and the worker.
THEOREM TypeCorrect == Spec => []TypeOK
<1>1. IInv => TypeOK
  BY DEF IInv
<1>2. QED
  BY <1>1, Inductive, PTL

\* A confirmation always has its one attestation, and the attestation its one
\* exact, owned, processed event: the transaction of
\* ProcessCryptoProviderEventService confirms and attests together or not at all.
THEOREM ConfirmationAttested == Spec => []ConfirmedIsAttested
<1>1. IInv => ConfirmedIsAttested
  BY DEF IInv
<1>2. QED
  BY <1>1, Inductive, PTL

\* No confirmation was received at or after its intent's expiry: the guard of
\* ProcessCryptoProviderEventService looks at the row after it has the lock.
THEOREM ConfirmationInTime == Spec => []ConfirmedBeforeExpiry
<1>1. IInv => ConfirmedBeforeExpiry
  BY DEF IInv
<1>2. QED
  BY <1>1, Inductive, PTL

LEMMA StepKeepsRows ==
  ASSUME IInv, [Next]_vars, NEW k \in Intents, intents[k] # Null
  PROVE  intents'[k] # Null /\ Keeps(intents[k], intents'[k])
<1>1. Keeps(intents[k], intents[k])
  BY DEF IInv, PendingHasNoReference, Keeps
<1>2. CASE QuietStep
  BY <1>2 DEF QuietStep, QuietRows, Unconfirming
<1>3. CASE \E n \in Intents, h \in Hashes : CreateStep(n, h)
  BY <1>1, <1>3 DEF CreateStep, IInv, TypeOK
<1>4. CASE \E e \in Events, n \in Intents : ConfirmStep(e, n)
  BY <1>1, <1>4 DEF ConfirmStep
<1>5. QED
  BY <1>2, <1>3, <1>4, StepKinds

\* No interleaving revives a terminal intent or rewrites its history: of a late
\* create response only the reference gets through.
THEOREM TerminalStaysTerminal == Spec => NoRevival
<1>1. IInv /\ [Next]_vars =>
        \A k \in Intents : intents[k] # Null =>
          LET i == intents[k]  j == intents'[k] IN
          /\ j # Null
          /\ j.hash = i.hash /\ j.createdAt = i.createdAt
          /\ i.log \subseteq j.log
          /\ i.ref # Null => j.ref = i.ref
          /\ i.status \in Terminal =>
               /\ j.status = i.status /\ j.version = i.version /\ j.log = i.log
               /\ j.confirmedAt = i.confirmedAt /\ j.lastEventAt = i.lastEventAt
  BY StepKeepsRows DEF Keeps
<1>2. QED
  BY <1>1, Inductive, PTL DEF Spec, NoRevival

-----------------------------------------------------------------------------
(* CryptoFunding implements ExternalFunding *)

LEMMA AbstractQuiet ==
  ASSUME IInv, QuietStep
  PROVE  Funding!Next
<1> DEFINE S == {k \in Intents : PhaseOf(intents[k]) = "open" /\ PhaseOf(intents'[k]) = "closed"}
<1>1. ASSUME NEW k \in Intents
      PROVE  PhaseOf(intents'[k]) = IF k \in S THEN "closed" ELSE PhaseOf(intents[k])
  <2>1. CASE intents[k] = Null
    BY <2>1 DEF QuietStep, QuietRows, PhaseOf
  <2>2. CASE intents[k] # Null
    BY <2>2 DEF QuietStep, QuietRows, Unconfirming, Keeps, PhaseOf
  <2>3. QED
    BY <2>1, <2>2
<1>2. Funding!Close(S)
  <2>1. attestations' = attestations
    BY DEF QuietStep
  <2>2. \A k \in S : [n \in Intents |-> PhaseOf(intents[n])][k] = "open"
    OBVIOUS
  <2> HIDE DEF S
  <2>3. S \subseteq Intents
    BY DEF S
  <2>4. [k \in Intents |-> PhaseOf(intents'[k])] =
          [k \in Intents |-> IF k \in S THEN "closed"
                             ELSE [n \in Intents |-> PhaseOf(intents[n])][k]]
    BY <1>1
  <2>5. QED
    BY <2>1, <2>2, <2>4 DEF Funding!Close
<1>3. S \in SUBSET Intents
  OBVIOUS
<1>4. QED
  BY <1>2, <1>3 DEF Funding!Next

LEMMA AbstractCreate ==
  ASSUME IInv, NEW k \in Intents, NEW h \in Hashes, CreateStep(k, h)
  PROVE  Funding!Next
<1>1. /\ intents'[k] = NewIntent(h)
      /\ \A n \in Intents \ {k} : intents'[n] = intents[n]
      /\ intents[k] = Null /\ attestations' = attestations
  BY DEF CreateStep, IInv, TypeOK
<1>2. PhaseOf(intents[k]) = "absent"
  BY <1>1 DEF PhaseOf
<1>3. PhaseOf(intents'[k]) = "open"
  <2>1. NewIntent(h) # Null /\ NewIntent(h).status = "provider_pending"
    BY NewIntentType, NullAssumption DEF IInv, TypeOK, NewIntent
  <2>2. QED
    BY <1>1, <2>1 DEF PhaseOf, Terminal
<1>4. Funding!Request(k)
  BY <1>1, <1>2, <1>3 DEF Funding!Request
<1>5. QED
  BY <1>4 DEF Funding!Next

LEMMA AbstractConfirm ==
  ASSUME IInv, Sound, NEW e \in Events, NEW k \in Intents, ConfirmStep(e, k)
  PROVE  Funding!Next
<1>1. /\ intents[k] # Null /\ intents[k].status \notin Terminal
      /\ intents'[k] # Null /\ intents'[k].status = "confirmed"
      /\ \A n \in Intents \ {k} : intents'[n] = intents[n]
      /\ attestations[k] = Null
  BY DEF ConfirmStep
<1>2. PhaseOf(intents[k]) = "open" /\ PhaseOf(intents'[k]) = "funded"
  BY <1>1 DEF PhaseOf, Terminal
<1>3. /\ \A n \in Intents \ {k} : attestations'[n] = attestations[n]
      /\ attestations'[k] # Null
  <2>1. IInv'
    BY ConfirmPreserves
  <2>2. attestations'[k] # Null
    BY <1>1, <2>1 DEF IInv, ConfirmedIsAttested, IsConfirmed
  <2>3. QED
    BY <2>2 DEF ConfirmStep, IInv, TypeOK
<1>4. {n \in Intents : attestations'[n] # Null} = {n \in Intents : attestations[n] # Null} \cup {k}
  BY <1>3
<1>5. Funding!Fund(k)
  BY <1>1, <1>2, <1>4 DEF Funding!Fund
<1>6. QED
  BY <1>5 DEF Funding!Next

\* Funding an intent and issuing its attestation are one step, from an open
\* intent, and no other step issues anything.
THEOREM FundingRefinement == Spec => ImplementsExternalFunding
<1>1. Init => Funding!Init
  <2>1. SUFFICES ASSUME Init PROVE Funding!Init
    OBVIOUS
  <2>2. [k \in Intents |-> PhaseOf(intents[k])] = [k \in Intents |-> "absent"]
    BY <2>1 DEF Init, PhaseOf
  <2>3. {k \in Intents : attestations[k] # Null} = {}
    BY <2>1 DEF Init
  <2>4. QED
    BY <2>2, <2>3 DEF Funding!Init
<1>2. IInv /\ [Next]_vars => [Funding!Next]_(Funding!vars)
  BY StepKinds, AbstractQuiet, AbstractCreate, AbstractConfirm
<1>3. QED
  BY <1>1, <1>2, Inductive, PTL DEF Spec, ImplementsExternalFunding, Funding!Spec

=============================================================================
