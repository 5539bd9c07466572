--------------------- MODULE CryptoFundingHistoryProofs ---------------------
(***************************************************************************)
(* Theorems about what CryptoFunding leaves on record: the history of an   *)
(* intent, its session, the events that moved it and the reconciliation    *)
(* records, for every value of the constants.                              *)
(***************************************************************************)
EXTENDS CryptoFundingProofs

-----------------------------------------------------------------------------
(* What is true of one row, with ev the table of events *)

Advances(i) == {t \in i.log : t.trigger = "PROVIDER_EVENT"}

\* One chain of allowed edges, a row per version.
Chain(i) ==
  /\ i.version >= 1
  /\ \A v \in 2..i.version : \E t \in i.log : t.version = v
  /\ \A t \in i.log : t.version \in 2..i.version /\ CanTransition(t.from, t.to)
  /\ \A t, u \in i.log :
       /\ t.version = u.version => t = u
       /\ u.version = t.version + 1 => u.from = t.to
  /\ \A t \in i.log : t.version = 2 => t.from = "provider_pending"
  /\ \A t \in i.log : t.version = i.version => t.to = i.status
  /\ i.version = 1 => i.status = "provider_pending"

MoneyStatus == {"awaiting_payment", "detected", "confirming", "confirmed",
                "reconciliation_required"}

SessionOf(i) ==
  /\ i.ref # Null <=> i.session = "active"
  /\ i.status \in MoneyStatus => i.ref # Null
  /\ i.status = "provider_pending" => i.session = "creating"

\* Each advance has its event, none is younger than the last event of a row
\* that can still advance, and later advances have later events.
InOrder(i, ev) ==
  /\ \A t \in Advances(i) :
       /\ t.event \in Events /\ ev[t.event] # Null
       /\ i.createdAt <= ev[t.event].report.at
       /\ ev[t.event].receivedAt < ExpiresAt(i)
       /\ i.status \notin Terminal =>
            i.lastEventAt # Null /\ ev[t.event].report.at <= i.lastEventAt
  /\ \A t, u \in Advances(i) :
       t.version < u.version => ev[t.event].report.at < ev[u.event].report.at

\* A status that only an event gives was given by one, and the last event time
\* of a row that can still advance is that of one of its advances.
Traced(i, ev) ==
  /\ i.status \in {"detected", "confirming", "confirmed"} =>
       \E t \in Advances(i) : t.to = i.status
  /\ i.status \notin Terminal /\ i.lastEventAt # Null =>
       \E t \in Advances(i) : ev[t.event].report.at = i.lastEventAt

Row(i, ev) == i \in Intent /\ Chain(i) /\ SessionOf(i) /\ InOrder(i, ev) /\ Traced(i, ev)

\* A report p is from before the row, or an advance is as new or as far.
Overtaken(p, i, ev) ==
  \/ p.at < i.createdAt
  \/ \E t \in Advances(i) :
       \/ p.at <= ev[t.event].report.at
       \/ t.to \in DOMAIN Rank /\ Rank[TargetStatus(p)] <= Rank[t.to]

\* A change that is not the worker's and fails no creation but a pending one.
Ordinary(i, j) ==
  /\ \A t \in j.log : t.trigger = "EXPIRY_WORKER" => t \in i.log
  /\ j.status = "creation_failed" => i.status \in {"creation_failed", "provider_pending"}

\* A change that does not leave the row to reconciliation.
Unparked(i, j) ==
  j.status = "reconciliation_required" => i.status = "reconciliation_required"

-----------------------------------------------------------------------------
(* Moves *)

LEMMA MoveExact ==
  ASSUME NEW i \in Intent, NEW to \in Status, NEW trigger \in Trigger,
         NEW e \in Events \cup {Null}
  PROVE  LET t == [from |-> i.status, to |-> to, version |-> i.version + 1,
                   trigger |-> trigger, event |-> e]
             j == Move(i, to, trigger, e) IN
         /\ j \in Intent
         /\ j.status = to /\ j.version = i.version + 1 /\ j.log = i.log \cup {t}
         /\ j.ref = i.ref /\ j.session = i.session /\ j.createdAt = i.createdAt
         /\ j.lastEventAt = i.lastEventAt
<1>1. Move(i, to, trigger, e) \in Intent
  BY MoveType
<1>2. QED
  BY <1>1 DEF Move, Intent

\* The chain looks at no column but these three.
LEMMA ChainSame ==
  ASSUME NEW i, NEW j, Chain(i),
         j.status = i.status, j.version = i.version, j.log = i.log
  PROVE  Chain(j)
BY DEF Chain

LEMMA MoveChain ==
  ASSUME NEW i \in Intent, Chain(i), NEW to, CanTransition(i.status, to),
         NEW t \in Transition, t.from = i.status, t.to = to, t.version = i.version + 1,
         NEW j \in Intent,
         j.status = to, j.version = i.version + 1, j.log = i.log \cup {t}
  PROVE  Chain(j)
<1>1. /\ i.version \in Nat /\ i.version >= 1 /\ i.log \in SUBSET Transition
      /\ \A u \in i.log : u.version \in Nat
  BY DEF Chain, Intent, Transition
<1>2. \A u \in i.log : u.version \in 2..i.version /\ CanTransition(u.from, u.to)
  BY DEF Chain
<1>3. ASSUME NEW v \in 2..j.version
      PROVE  \E u \in j.log : u.version = v
  <2>1. CASE v = i.version + 1
    BY <2>1
  <2>2. CASE v # i.version + 1
    <3>1. v \in 2..i.version
      BY <1>1, <1>3, <2>2
    <3>2. QED
      BY <3>1 DEF Chain
  <2>3. QED
    BY <2>1, <2>2
<1>4. \A u \in j.log : u.version \in 2..j.version /\ CanTransition(u.from, u.to)
  BY <1>1, <1>2
<1>5. ASSUME NEW x \in j.log, NEW y \in j.log
      PROVE  /\ x.version = y.version => x = y
             /\ y.version = x.version + 1 => y.from = x.to
  <2>1. CASE x = t
    BY <1>1, <1>2, <1>5, <2>1
  <2>2. CASE x # t /\ y = t
    <3>1. x \in i.log /\ x.version \in 2..i.version
      BY <1>2, <1>5, <2>2
    <3>2. x.version = i.version => x.to = i.status
      BY <3>1 DEF Chain
    <3>3. QED
      BY <1>1, <2>2, <3>1, <3>2
  <2>3. CASE x # t /\ y # t
    BY <1>5, <2>3 DEF Chain
  <2>4. QED
    BY <2>1, <2>2, <2>3
<1>6. ASSUME NEW u \in j.log, u.version = 2
      PROVE  u.from = "provider_pending"
  <2>1. CASE u = t
    BY <1>1, <1>6, <2>1 DEF Chain
  <2>2. CASE u # t
    BY <1>6, <2>2 DEF Chain
  <2>3. QED
    BY <2>1, <2>2
<1>7. \A u \in j.log : u.version = j.version => u.to = j.status
  BY <1>1, <1>2
<1>8. j.version >= 1 /\ j.version # 1
  BY <1>1
<1>9. QED
  BY <1>3, <1>4, <1>5, <1>6, <1>7, <1>8 DEF Chain

LEMMA OrderSame ==
  ASSUME NEW i, NEW j, NEW ev, InOrder(i, ev),
         j.status = i.status, j.log = i.log, j.createdAt = i.createdAt,
         j.lastEventAt = i.lastEventAt
  PROVE  InOrder(j, ev)
BY DEF InOrder, Advances, ExpiresAt

LEMMA TraceSame ==
  ASSUME NEW i, NEW j, NEW ev, Traced(i, ev),
         j.status = i.status, j.log = i.log, j.lastEventAt = i.lastEventAt
  PROVE  Traced(j, ev)
BY DEF Traced, Advances

\* A move to a status that other than events may give.
LEMMA MoveTrace ==
  ASSUME NEW i, NEW ev, Traced(i, ev), NEW t, NEW j, j.log = i.log \cup {t},
         j.status \notin {"detected", "confirming", "confirmed"},
         j.status \in Terminal \/ (i.status \notin Terminal /\ j.lastEventAt = i.lastEventAt)
  PROVE  Traced(j, ev)
BY DEF Traced, Advances

\* A move that no event caused leaves the advances as they are.
LEMMA MoveOrder ==
  ASSUME NEW i, NEW ev, InOrder(i, ev), NEW t, t.trigger # "PROVIDER_EVENT",
         NEW j, j.log = i.log \cup {t}, j.createdAt = i.createdAt,
         j.status \in Terminal \/ (i.status \notin Terminal /\ j.lastEventAt = i.lastEventAt)
  PROVE  InOrder(j, ev)
<1>1. Advances(j) = Advances(i)
  BY DEF Advances
<1>2. ExpiresAt(j) = ExpiresAt(i)
  BY DEF ExpiresAt
<1>3. QED
  BY <1>1, <1>2 DEF InOrder

-----------------------------------------------------------------------------
(* The rows the transactions leave behind *)

\* A move along an edge, to a row that can no longer advance or with the last
\* event it had, that no event caused.
LEMMA MoveRow ==
  ASSUME NEW ev, NEW i, Row(i, ev), NEW to, CanTransition(i.status, to),
         to \in MoneyStatus => i.ref # Null,
         to \notin {"detected", "confirming", "confirmed"},
         NEW trigger \in Trigger \ {"PROVIDER_EVENT", "EXPIRY_WORKER"},
         NEW e \in Events \cup {Null}
  PROVE  LET j == Move(i, to, trigger, e) IN
         /\ Row(j, ev)
         /\ j.status = to /\ j.ref = i.ref
         /\ \A u \in j.log : u.trigger = "EXPIRY_WORKER" => u \in i.log
<1> DEFINE t == [from |-> i.status, to |-> to, version |-> i.version + 1,
                 trigger |-> trigger, event |-> e]
           j == Move(i, to, trigger, e)
<1>1. i \in Intent /\ Chain(i) /\ SessionOf(i) /\ InOrder(i, ev) /\ Traced(i, ev)
  BY DEF Row
<1>2. i.status \in Status \ Terminal /\ to \in Status /\ to # "provider_pending"
  BY EdgeTypes
<1>3. /\ j \in Intent
      /\ j.status = to /\ j.version = i.version + 1 /\ j.log = i.log \cup {t}
      /\ j.ref = i.ref /\ j.session = i.session /\ j.createdAt = i.createdAt
      /\ j.lastEventAt = i.lastEventAt
  BY <1>1, <1>2, MoveExact
<1>4. /\ t \in Transition
      /\ t.from = i.status /\ t.to = to /\ t.version = i.version + 1
      /\ t.trigger # "PROVIDER_EVENT" /\ t.trigger # "EXPIRY_WORKER"
  BY <1>1, <1>2 DEF Transition, Intent
<1> HIDE DEF t, j
<1>5. Chain(j)
  BY <1>1, <1>3, <1>4, MoveChain
<1>6. InOrder(j, ev) /\ Traced(j, ev)
  BY <1>1, <1>2, <1>3, <1>4, MoveOrder, MoveTrace
<1>7. SessionOf(j)
  BY <1>1, <1>2, <1>3 DEF SessionOf
<1>8. QED
  BY <1>3, <1>4, <1>5, <1>6, <1>7 DEF Row, j

LEMMA ReferenceRow ==
  ASSUME NEW ev, NEW i, i \in Intent, Chain(i), InOrder(i, ev), Traced(i, ev),
         NEW ref \in Reference
  PROVE  LET j == WithReference(i, ref) IN
         /\ j \in Intent /\ Chain(j) /\ InOrder(j, ev) /\ Traced(j, ev)
         /\ j.ref = ref /\ j.ref # Null /\ j.session = "active"
         /\ j.status = i.status /\ j.log = i.log
<1> DEFINE j == WithReference(i, ref)
<1>1. /\ j \in Intent /\ j.ref = ref
      /\ j.status = i.status /\ j.version = i.version /\ j.log = i.log
      /\ j.createdAt = i.createdAt /\ j.lastEventAt = i.lastEventAt
  BY WithReferenceType
<1>2. j.session = "active"
  BY DEF WithReference, Intent
<1> HIDE DEF j
<1>3. Chain(j) /\ InOrder(j, ev) /\ Traced(j, ev)
  BY <1>1, ChainSame, OrderSame, TraceSame
<1>4. QED
  BY <1>1, <1>2, <1>3, NullAssumption DEF j

\* A pending row that gets its reference and is moved on at once.
LEMMA OpenedRow ==
  ASSUME NEW ev, NEW i, Row(i, ev), i.status = "provider_pending", NEW ref \in Reference,
         NEW trigger \in {"PROVIDER_SESSION_CREATED", "PROVIDER_EVENT_BEFORE_SESSION_RESPONSE"},
         NEW e \in Events \cup {Null}
  PROVE  LET j == Move(WithReference(i, ref), "awaiting_payment", trigger, e) IN
         /\ Row(j, ev)
         /\ j.status = "awaiting_payment" /\ j.ref = ref
         /\ Ordinary(i, j) /\ Unparked(i, j)
<1> DEFINE w == WithReference(i, ref)
           t == [from |-> w.status, to |-> "awaiting_payment", version |-> w.version + 1,
                 trigger |-> trigger, event |-> e]
           j == Move(w, "awaiting_payment", trigger, e)
<1>1. /\ w \in Intent /\ Chain(w) /\ InOrder(w, ev) /\ Traced(w, ev)
      /\ w.ref = ref /\ w.ref # Null /\ w.session = "active"
      /\ w.status = "provider_pending" /\ w.log = i.log
  BY ReferenceRow DEF Row
<1> HIDE DEF w
<1>2. /\ trigger \in Trigger /\ trigger \notin {"PROVIDER_EVENT", "EXPIRY_WORKER"}
      /\ "awaiting_payment" \in Status
  BY DEF Trigger, Status
<1>3. /\ j \in Intent
      /\ j.status = "awaiting_payment" /\ j.version = w.version + 1 /\ j.log = w.log \cup {t}
      /\ j.ref = w.ref /\ j.session = w.session /\ j.createdAt = w.createdAt
      /\ j.lastEventAt = w.lastEventAt
  BY <1>1, <1>2, MoveExact
<1>4. /\ t \in Transition
      /\ t.from = w.status /\ t.to = "awaiting_payment" /\ t.version = w.version + 1
      /\ t.trigger # "PROVIDER_EVENT" /\ t.trigger # "EXPIRY_WORKER"
  BY <1>1, <1>2 DEF Transition, Intent
<1>5. CanTransition(w.status, "awaiting_payment") /\ w.status \notin Terminal
  BY <1>1 DEF CanTransition, Edges, Terminal
<1> HIDE DEF t, j
<1>6. Chain(j)
  BY <1>1, <1>3, <1>4, <1>5, MoveChain
<1>7. InOrder(j, ev) /\ Traced(j, ev)
  BY <1>1, <1>3, <1>4, <1>5, MoveOrder, MoveTrace
<1>8. SessionOf(j)
  BY <1>1, <1>3 DEF SessionOf
<1>9. Ordinary(i, j) /\ Unparked(i, j)
  BY <1>1, <1>3, <1>4 DEF Ordinary, Unparked
<1>10. QED
  BY <1>1, <1>3, <1>6, <1>7, <1>8, <1>9 DEF Row, j, w

LEMMA ActivatedHistory ==
  ASSUME NEW ev, NEW i, Row(i, ev), NEW k \in Intents
  PROVE  LET j == Activated(i, k) IN
         Row(j, ev) /\ j.ref = k /\ Ordinary(i, j) /\ Unparked(i, j)
<1>1. k \in Reference
  BY DEF Reference
<1>2. CASE i.status = "provider_pending"
  BY <1>1, <1>2, OpenedRow DEF Activated
<1>3. CASE i.status # "provider_pending"
  <2> DEFINE j == WithReference(i, k)
  <2>1. /\ j \in Intent /\ Chain(j) /\ InOrder(j, ev) /\ Traced(j, ev)
        /\ j.ref = k /\ j.ref # Null /\ j.session = "active"
        /\ j.status = i.status /\ j.log = i.log
    BY <1>1, ReferenceRow DEF Row
  <2> HIDE DEF j
  <2>2. Row(j, ev) /\ Ordinary(i, j) /\ Unparked(i, j)
    BY <1>3, <2>1 DEF Row, SessionOf, Ordinary, Unparked
  <2>3. QED
    BY <1>3, <2>1, <2>2 DEF Activated, j
<1>4. QED
  BY <1>2, <1>3

LEMMA CreationFailedHistory ==
  ASSUME NEW ev, NEW i, Row(i, ev)
  PROVE  LET j == CreationFailed(i) IN
         Row(j, ev) /\ j.ref = i.ref /\ Ordinary(i, j) /\ Unparked(i, j)
<1>1. CASE i.status = "provider_pending"
  <2> DEFINE w == [i EXCEPT !.session = IF i.session = "creating" THEN "creation_failed"
                                        ELSE i.session]
             t == [from |-> w.status, to |-> "creation_failed", version |-> w.version + 1,
                   trigger |-> "PROVIDER_CREATION_FAILED", event |-> Null]
             j == Move(w, "creation_failed", "PROVIDER_CREATION_FAILED", Null)
  <2>1. /\ i \in Intent /\ Chain(i) /\ InOrder(i, ev) /\ Traced(i, ev)
        /\ i.session = "creating" /\ i.ref = Null
    BY <1>1 DEF Row, SessionOf
  <2>2. /\ w \in Intent /\ w.session = "creation_failed"
        /\ w.status = i.status /\ w.version = i.version /\ w.log = i.log /\ w.ref = i.ref
        /\ w.createdAt = i.createdAt /\ w.lastEventAt = i.lastEventAt
    BY <2>1 DEF Intent
  <2> HIDE DEF w
  <2>3. Chain(w) /\ InOrder(w, ev) /\ Traced(w, ev)
    BY <2>1, <2>2, ChainSame, OrderSame, TraceSame
  <2>4. "PROVIDER_CREATION_FAILED" \in Trigger /\ "creation_failed" \in Status
    BY DEF Trigger, Status
  <2>5. /\ j \in Intent
        /\ j.status = "creation_failed" /\ j.version = w.version + 1 /\ j.log = w.log \cup {t}
        /\ j.ref = w.ref /\ j.session = w.session /\ j.createdAt = w.createdAt
    BY <2>2, <2>4, MoveExact
  <2>6. /\ t \in Transition
        /\ t.from = w.status /\ t.to = "creation_failed" /\ t.version = w.version + 1
        /\ t.trigger # "PROVIDER_EVENT" /\ t.trigger # "EXPIRY_WORKER"
    BY <2>2, <2>4 DEF Transition, Intent
  <2>7. CanTransition(w.status, "creation_failed")
    BY <1>1, <2>2 DEF CanTransition, Edges
  <2> HIDE DEF t, j
  <2>8. Chain(j)
    BY <2>2, <2>3, <2>5, <2>6, <2>7, MoveChain
  <2>9. InOrder(j, ev) /\ Traced(j, ev)
    BY <2>3, <2>5, <2>6, MoveOrder, MoveTrace DEF Terminal
  <2>10. SessionOf(j)
    BY <2>1, <2>2, <2>5 DEF SessionOf, MoneyStatus
  <2>11. Ordinary(i, j) /\ Unparked(i, j)
    BY <1>1, <2>2, <2>5, <2>6 DEF Ordinary, Unparked
  <2>12. QED
    BY <1>1, <2>2, <2>5, <2>8, <2>9, <2>10, <2>11 DEF Row, CreationFailed, j, w
<1>2. CASE i.status # "provider_pending"
  BY <1>2 DEF CreationFailed, Ordinary, Unparked
<1>3. QED
  BY <1>1, <1>2

LEMMA ExpiredHistory ==
  ASSUME NEW ev, NEW i, Row(i, ev)
  PROVE  LET j == ExpiredByEvent(i) IN
         Row(j, ev) /\ j.ref = i.ref /\ Ordinary(i, j) /\ Unparked(i, j)
<1>1. CASE CanTransition(i.status, "expired")
  <2>1. /\ "PROVIDER_EVENT_EXPIRY_GUARD" \in Trigger \ {"PROVIDER_EVENT", "EXPIRY_WORKER"}
        /\ "expired" \notin MoneyStatus /\ "expired" \notin {"detected", "confirming", "confirmed"}
    BY DEF Trigger, MoneyStatus
  <2>2. QED
    BY <1>1, <2>1, MoveRow DEF ExpiredByEvent, Ordinary, Unparked
<1>2. CASE ~CanTransition(i.status, "expired")
  BY <1>2 DEF ExpiredByEvent, Ordinary, Unparked
<1>3. QED
  BY <1>1, <1>2

LEMMA ParkedHistory ==
  ASSUME NEW ev, NEW i, Row(i, ev), NEW e \in Events, NEW at \in Nat
  PROVE  LET j == Parked(i, e, at) IN
         Row(j, ev) /\ j.ref = i.ref /\ Ordinary(i, j)
<1>1. CASE CanTransition(i.status, "reconciliation_required")
  <2> DEFINE w == Move(i, "reconciliation_required", "PROVIDER_DISCREPANCY", e)
             j == [w EXCEPT !.lastEventAt = at]
  <2>1. i.ref # Null
    BY <1>1 DEF CanTransition, Edges, Row, SessionOf, MoneyStatus
  <2>2. "PROVIDER_DISCREPANCY" \in Trigger \ {"PROVIDER_EVENT", "EXPIRY_WORKER"}
    BY DEF Trigger
  <2>3. /\ Row(w, ev)
        /\ w.status = "reconciliation_required" /\ w.ref = i.ref
        /\ \A u \in w.log : u.trigger = "EXPIRY_WORKER" => u \in i.log
    BY <1>1, <2>1, <2>2, MoveRow
  <2> HIDE DEF w
  <2>4. /\ j \in Intent
        /\ j.status = w.status /\ j.version = w.version /\ j.log = w.log
        /\ j.ref = w.ref /\ j.session = w.session /\ j.createdAt = w.createdAt
    BY <2>3 DEF Row, Intent
  <2> HIDE DEF j
  <2>5. Chain(j) /\ SessionOf(j)
    BY <2>3, <2>4, ChainSame DEF Row, SessionOf
  <2>6. InOrder(j, ev) /\ Traced(j, ev)
    BY <2>3, <2>4 DEF Row, InOrder, Traced, Advances, ExpiresAt, Terminal
  <2>7. QED
    BY <1>1, <2>3, <2>4, <2>5, <2>6 DEF Row, Ordinary, Parked, j, w
<1>2. CASE ~CanTransition(i.status, "reconciliation_required")
  BY <1>2 DEF Parked, Ordinary
<1>3. QED
  BY <1>1, <1>2

\* An accepted event e, already in the table.
LEMMA AdvancedHistory ==
  ASSUME NEW ev \in [Events -> EventRow \cup {Null}], NEW i, Row(i, ev),
         NEW e \in Events, NEW f \in Flight, ev[e] # Null,
         ev[e].report = f.report, ev[e].receivedAt = f.receivedAt,
         CanTransition(i.status, TargetStatus(f.report)),
         ~IsStale(i, f.report), ~Lapsed(i, f.receivedAt)
  PROVE  LET j == Advanced(i, e, f) IN
         Row(j, ev) /\ j.ref = i.ref /\ Ordinary(i, j) /\ Unparked(i, j)
<1> DEFINE to == TargetStatus(f.report)
           w == Move(i, to, "PROVIDER_EVENT", e)
           t == [from |-> i.status, to |-> to, version |-> i.version + 1,
                 trigger |-> "PROVIDER_EVENT", event |-> e]
           c == IF f.report.status = "confirmed" THEN f.receivedAt ELSE w.confirmedAt
           j == [w EXCEPT !.lastEventAt = f.report.at, !.confirmedAt = c]
<1>1. /\ i \in Intent /\ Chain(i) /\ SessionOf(i) /\ InOrder(i, ev)
      /\ i.version \in Nat /\ i.createdAt \in Nat /\ i.lastEventAt \in Nat \cup {Null}
  BY DEF Row, Intent
<1>2. i.status \in Status \ Terminal /\ to \in Status /\ to # "provider_pending"
  BY EdgeTypes
<1>3. /\ f.report.at \in Nat /\ f.receivedAt \in Nat
      /\ f.report.status \in {"payment_detected", "confirming", "confirmed", "failed", "expired"}
  BY DEF Flight, Report
<1>4. /\ to \in {"detected", "confirming", "confirmed", "failed", "expired"}
      /\ i.status = "provider_pending" => to \in {"failed", "expired"}
  <2>1. to \in {"detected", "confirming", "confirmed", "failed", "expired"}
    BY <1>3 DEF TargetStatus
  <2> HIDE DEF to
  <2>2. i.status = "provider_pending" => to \in {"failed", "expired"}
    BY <2>1 DEF to, CanTransition, Edges
  <2>3. QED
    BY <2>1, <2>2
<1>5. /\ f.report.at >= i.createdAt
      /\ i.lastEventAt # Null => i.lastEventAt < f.report.at
  BY <1>1, <1>3 DEF IsStale
<1>6. f.receivedAt < ExpiresAt(i)
  <2>1. ~(ExpiresAt(i) <= f.receivedAt)
    BY <1>2 DEF Lapsed, Terminal
  <2>2. ExpiresAt(i) \in Nat
    BY <1>1, ConstantsAssumption DEF ExpiresAt
  <2>3. QED
    BY <1>3, <2>1, <2>2
<1>7. "PROVIDER_EVENT" \in Trigger
  BY DEF Trigger
<1>8. CanTransition(i.status, to)
  OBVIOUS
<1> HIDE DEF to
<1>9. /\ w \in Intent
      /\ w.status = to /\ w.version = i.version + 1 /\ w.log = i.log \cup {t}
      /\ w.ref = i.ref /\ w.session = i.session /\ w.createdAt = i.createdAt
  BY <1>1, <1>2, <1>7, MoveExact
<1>10. /\ t \in Transition
       /\ t.from = i.status /\ t.to = to /\ t.version = i.version + 1
       /\ t.trigger = "PROVIDER_EVENT" /\ t.event = e
  BY <1>1, <1>2, <1>7 DEF Transition, Intent
<1> HIDE DEF w, t
<1>11. c \in Nat \cup {Null}
  BY <1>3, <1>9 DEF Intent
<1> HIDE DEF c
<1>12. /\ j \in Intent
       /\ j.status = to /\ j.version = i.version + 1 /\ j.log = i.log \cup {t}
       /\ j.ref = i.ref /\ j.session = i.session /\ j.createdAt = i.createdAt
       /\ j.lastEventAt = f.report.at
  BY <1>3, <1>9, <1>11 DEF Intent
<1> HIDE DEF j
<1>13. Chain(j)
  BY <1>1, <1>8, <1>10, <1>12, MoveChain
<1>14. SessionOf(j)
  BY <1>1, <1>2, <1>4, <1>12 DEF SessionOf, MoneyStatus, Status, Terminal
<1>15. InOrder(j, ev)
  <2>1. /\ Advances(j) = Advances(i) \cup {t}
        /\ ExpiresAt(j) = ExpiresAt(i)
    BY <1>10, <1>12 DEF Advances, ExpiresAt
  <2>2. ASSUME NEW u \in Advances(i)
        PROVE  /\ u.event \in Events /\ ev[u.event] # Null
               /\ ev[u.event].report.at \in Nat
               /\ i.createdAt <= ev[u.event].report.at
               /\ ev[u.event].receivedAt < ExpiresAt(i)
               /\ ev[u.event].report.at < f.report.at
               /\ u.version \in Nat /\ u.version <= i.version
    <3>1. /\ u.event \in Events /\ ev[u.event] # Null
          /\ i.createdAt <= ev[u.event].report.at
          /\ ev[u.event].receivedAt < ExpiresAt(i)
          /\ i.lastEventAt # Null /\ ev[u.event].report.at <= i.lastEventAt
      BY <1>1, <1>2 DEF InOrder
    <3>2. ev[u.event].report.at \in Nat
      BY <3>1 DEF EventRow, Report
    <3>3. u.version \in 2..i.version
      BY <1>1 DEF Advances, Chain
    <3>4. QED
      BY <1>1, <1>3, <1>5, <3>1, <3>2, <3>3
  <2>3. /\ t.event \in Events /\ ev[t.event] # Null
        /\ ev[t.event].report.at = f.report.at
        /\ i.createdAt <= f.report.at
        /\ ev[t.event].receivedAt < ExpiresAt(i)
    BY <1>1, <1>3, <1>5, <1>6, <1>10
  <2>4. \A u \in Advances(j) :
          /\ u.event \in Events /\ ev[u.event] # Null
          /\ j.createdAt <= ev[u.event].report.at
          /\ ev[u.event].receivedAt < ExpiresAt(j)
          /\ j.lastEventAt # Null /\ ev[u.event].report.at <= j.lastEventAt
    BY <1>3, <1>12, <2>1, <2>2, <2>3, NullAssumption
  <2>5. ASSUME NEW x \in Advances(j), NEW y \in Advances(j), x.version < y.version
        PROVE  ev[x.event].report.at < ev[y.event].report.at
    <3>1. CASE x = t
      BY <1>1, <1>10, <2>1, <2>2, <2>5, <3>1
    <3>2. CASE x # t /\ y = t
      BY <2>1, <2>2, <2>3, <3>2
    <3>3. CASE x # t /\ y # t
      BY <1>1, <2>1, <2>5, <3>3 DEF InOrder
    <3>4. QED
      BY <3>1, <3>2, <3>3
  <2>6. QED
    BY <2>4, <2>5 DEF InOrder
<1>16. Ordinary(i, j) /\ Unparked(i, j) /\ Traced(j, ev)
  BY <1>4, <1>10, <1>12 DEF Ordinary, Unparked, Traced, Advances
<1>17. Advanced(i, e, f) = j
  BY DEF Advanced, j, w, c, to
<1>18. QED
  BY <1>12, <1>13, <1>14, <1>15, <1>16, <1>17 DEF Row

\* The worker's move, and the row it logs.
LEMMA WorkerHistory ==
  ASSUME NEW ev, NEW i, Row(i, ev), i.status \notin Terminal
  PROVE  LET j == Move(i, "expired", "EXPIRY_WORKER", Null) IN
         /\ Row(j, ev)
         /\ j.status = "expired" /\ j.ref = i.ref
         /\ \E t : /\ t.trigger = "EXPIRY_WORKER" /\ t.from = i.status
                   /\ j.log = i.log \cup {t}
<1> DEFINE t == [from |-> i.status, to |-> "expired", version |-> i.version + 1,
                 trigger |-> "EXPIRY_WORKER", event |-> Null]
           j == Move(i, "expired", "EXPIRY_WORKER", Null)
<1>1. /\ i \in Intent /\ Chain(i) /\ SessionOf(i) /\ InOrder(i, ev) /\ Traced(i, ev)
      /\ i.status \in Status \ Terminal
  BY DEF Row, Intent
<1>2. CanTransition(i.status, "expired") /\ "EXPIRY_WORKER" \in Trigger /\ "expired" \in Status
  BY <1>1, OpenCanExpire DEF Trigger, Status
<1>3. /\ j \in Intent
      /\ j.status = "expired" /\ j.version = i.version + 1 /\ j.log = i.log \cup {t}
      /\ j.ref = i.ref /\ j.session = i.session /\ j.createdAt = i.createdAt
  BY <1>1, <1>2, MoveExact
<1>4. /\ t \in Transition
      /\ t.from = i.status /\ t.to = "expired" /\ t.version = i.version + 1
      /\ t.trigger = "EXPIRY_WORKER"
  BY <1>1, <1>2 DEF Transition, Intent
<1> HIDE DEF t, j
<1>5. Chain(j)
  BY <1>1, <1>2, <1>3, <1>4, MoveChain
<1>6. InOrder(j, ev) /\ Traced(j, ev)
  BY <1>1, <1>3, <1>4, MoveOrder, MoveTrace DEF Terminal
<1>7. SessionOf(j)
  BY <1>1, <1>3 DEF SessionOf, MoneyStatus
<1>8. QED
  BY <1>3, <1>4, <1>5, <1>6, <1>7 DEF Row, j

LEMMA NewHistory ==
  ASSUME NEW ev, NEW h \in Hashes, now \in Nat
  PROVE  LET j == NewIntent(h) IN
         /\ Row(j, ev)
         /\ j.status = "provider_pending" /\ j.ref = Null /\ j.log = {}
<1> DEFINE j == NewIntent(h)
<1>1. j \in Intent
  BY NewIntentType
<1>2. /\ j.status = "provider_pending" /\ j.ref = Null /\ j.session = "creating"
      /\ j.version = 1 /\ j.log = {} /\ j.lastEventAt = Null
  BY DEF NewIntent
<1> HIDE DEF j
<1>3. Chain(j) /\ SessionOf(j) /\ InOrder(j, ev) /\ Traced(j, ev)
  BY <1>2 DEF Chain, SessionOf, MoneyStatus, InOrder, Traced, Advances
<1>4. QED
  BY <1>1, <1>2, <1>3 DEF Row, j

-----------------------------------------------------------------------------
(* What the verdict on an event leaves behind *)

LEMMA RowExtends ==
  ASSUME NEW i, Row(i, events), EventsStay
  PROVE  Row(i, events')
<1>1. \A t \in Advances(i) : t.event \in Events /\ events'[t.event] = events[t.event]
  BY DEF Row, InOrder, EventsStay
<1>2. InOrder(i, events') /\ Traced(i, events')
  BY <1>1 DEF Row, InOrder, Traced
<1>3. QED
  BY <1>2 DEF Row

RecordTypes == Discrepancy \cup {"PAYMENT_AFTER_EXPIRY", "PAYMENT_ON_TERMINAL_INTENT",
                                 "UNKNOWN_PROVIDER_REFERENCE"}

LEMMA RecordEffect ==
  ASSUME IInv, NEW e \in Events, flights[e] # Null, NEW k \in Intents \cup {Null},
         NEW verdict \in Verdict, NEW types \in SUBSET RecordTypes,
         Record(e, k, verdict, types)
  PROVE  /\ events' \in [Events -> EventRow \cup {Null}]
         /\ events[e] = Null /\ events'[e] # Null
         /\ events'[e].report = flights[e].report
         /\ events'[e].receivedAt = flights[e].receivedAt
         /\ events'[e].intent = k /\ events'[e].verdict = verdict
         /\ \A d \in Events \ {e} : events'[d] = events[d]
         /\ EventsStay
         /\ reconciliations' = reconciliations \cup
              {[intent |-> k, event |-> e, type |-> t] : t \in types}
<1>1. \A d \in Events \ {e} : events'[d] = events[d]
  BY DEF Record, IInv, TypeOK
<1>2. reconciliations' = reconciliations \cup
        {[intent |-> k, event |-> e, type |-> t] : t \in types}
  BY DEF Record
<1>3. QED
  BY <1>1, <1>2, RecordStep DEF RecordTypes

\* The verdict on event e for intent k, whose row i becomes j: what the records
\* it adds say of the event and of the row, and what is never left without one.
Ruling(e, k, i, j, verdict, types) ==
  /\ intents' = [intents EXCEPT ![k] = j]
  /\ Record(e, k, verdict, types)
  /\ verdict \in Verdict /\ types \subseteq RecordTypes \ {"UNKNOWN_PROVIDER_REFERENCE"}
  /\ Row(j, events') /\ j.ref = i.ref /\ Ordinary(i, j)
  /\ j.status = "reconciliation_required" =>
       i.status = "reconciliation_required" \/ \E t \in types : t \in Discrepancy
  /\ \A t \in types : t \in Discrepancy =>
       verdict = "discrepancy" /\ flights[e].report.value = t
  /\ "PAYMENT_AFTER_EXPIRY" \in types => j.status \in Terminal \ {"confirmed"}
  /\ "PAYMENT_ON_TERMINAL_INTENT" \in types => j.status \in {"failed", "creation_failed"}
  /\ LET p == flights[e].report IN
     /\ Owned(k, p)
     /\ Moved(p)
     /\ \/ p.value # "EXACT"
        \/ ExpiresAt(j) <= flights[e].receivedAt /\ j.status # "confirmed"
        \/ j.status = "creation_failed"
     => types # {}
  /\ verdict = "ignored_stale" /\ Moved(flights[e].report) =>
       j.status = "reconciliation_required" \/ Overtaken(flights[e].report, j, events')

\* A verdict that leaves the row as the transaction found it.
LEMMA RowStands ==
  ASSUME NEW i
  PROVE  Ordinary(i, i)
BY DEF Ordinary

\* Why a report of value is stale on a row that is not dead or lapsed.
LEMMA StaleIsOvertaken ==
  ASSUME NEW i, Row(i, events), NEW p \in Report, NEW at, Moved(p),
         IsStale(i, p), ~Lapsed(i, at), ~Dead(i, p)
  PROVE  i.status = "reconciliation_required" \/ Overtaken(p, i, events)
<1>1. i \in Intent /\ Traced(i, events) /\ i.status \in Status
  BY DEF Row, Intent
<1>2. TargetStatus(p) \in {"detected", "confirming", "confirmed"}
  BY DEF Moved, TargetStatus
<1>3. ASSUME NEW t \in Advances(i), t.to = i.status,
             i.status \in {"detected", "confirming", "confirmed"},
             Rank[TargetStatus(p)] <= Rank[i.status]
      PROVE  Overtaken(p, i, events)
  BY <1>3 DEF Overtaken, Rank
<1>4. CASE i.status \in Terminal
  <2>1. i.status \in {"confirmed", "reconciliation_required"}
    BY <1>4 DEF Terminal, Lapsed, Dead
  <2>2. CASE i.status = "confirmed"
    <3>1. Rank[TargetStatus(p)] <= Rank[i.status]
      BY <1>2, <2>2 DEF Rank
    <3>2. QED
      BY <1>1, <1>3, <2>2, <3>1 DEF Traced
  <2>3. QED
    BY <2>1, <2>2
<1>5. CASE p.at < i.createdAt
  BY <1>5 DEF Overtaken
<1>6. CASE i.status \notin Terminal /\ i.lastEventAt # Null /\ p.at <= i.lastEventAt
  BY <1>1, <1>6 DEF Traced, Overtaken
<1>7. CASE i.status \in DOMAIN Rank /\ Rank[TargetStatus(p)] <= Rank[i.status]
  <2>1. i.status \in {"detected", "confirming", "confirmed"}
    BY <1>2, <1>7 DEF Rank
  <2>2. QED
    BY <1>1, <1>3, <1>7, <2>1 DEF Traced
<1>8. QED
  BY <1>4, <1>5, <1>6, <1>7 DEF IsStale

\* An advance keeps its event, so what has overtaken a report goes on doing so.
LEMMA OvertakenStays ==
  ASSUME NEW i, Row(i, events), NEW p, Overtaken(p, i, events), EventsStay,
         NEW j, j.createdAt = i.createdAt, i.log \subseteq j.log
  PROVE  Overtaken(p, j, events')
<1>1. \A t \in Advances(i) : t \in Advances(j) /\ events'[t.event] = events[t.event]
  BY DEF Row, InOrder, EventsStay, Advances
<1>2. QED
  BY <1>1 DEF Overtaken

LEMMA ResolveRules ==
  ASSUME IInv, NEW e \in Events, flights[e] # Null, NEW k \in Intents,
         NEW i, Row(i, events), Resolve(e, k, i)
  PROVE  \E j, verdict, types : Ruling(e, k, i, j, verdict, types)
<1> DEFINE f == flights[e]
           p == f.report
<1>1. /\ f \in Flight /\ p.at \in Nat /\ f.receivedAt \in Nat
      /\ p.status \in {"payment_detected", "confirming", "confirmed", "failed", "expired"}
      /\ p.value \in Discrepancy \cup {"EXACT"}
  BY DEF IInv, TypeOK, Flight, Report
<1>2. "EXACT" \notin Discrepancy /\ "PAYMENT_AFTER_EXPIRY" \notin Discrepancy
      /\ "PAYMENT_ON_TERMINAL_INTENT" \notin Discrepancy
      /\ "UNKNOWN_PROVIDER_REFERENCE" \notin Discrepancy
  BY DEF Discrepancy
<1>3. {"ownership_mismatch", "ignored_expired", "terminal_intent", "discrepancy",
       "ignored_stale", "processed"} \subseteq Verdict
  BY DEF Verdict
<1>4. i.status \in Status
  BY DEF Row, Intent
<1>5. ASSUME NEW verdict \in Verdict, NEW types \in SUBSET RecordTypes,
             Record(e, k, verdict, types)
      PROVE  Row(i, events')
  BY <1>5, RecordEffect, RowExtends
<1>6. CASE RejectOwnership(e, k, i)
  <2>1. Ruling(e, k, i, i, "ownership_mismatch", {})
    BY <1>3, <1>5, <1>6, RowStands DEF RejectOwnership, Ruling
  <2>2. QED
    BY <2>1
<1>7. CASE IgnoreExpired(e, k, i)
  <2> DEFINE types == IF Moved(p) THEN {"PAYMENT_AFTER_EXPIRY"} ELSE {}
             j == ExpiredByEvent(i)
  <2>1. /\ types \in SUBSET RecordTypes /\ types \subseteq RecordTypes \ {"UNKNOWN_PROVIDER_REFERENCE"}
        /\ \A t \in types : t \notin Discrepancy
        /\ "PAYMENT_ON_TERMINAL_INTENT" \notin types
        /\ Moved(p) => types # {}
    BY <1>2 DEF RecordTypes
  <2>2. Record(e, k, "ignored_expired", types) /\ Lapsed(i, f.receivedAt)
        /\ intents' = [intents EXCEPT ![k] = j]
    BY <1>7 DEF IgnoreExpired
  <2> HIDE DEF types
  <2>3. Row(j, events') /\ j.ref = i.ref /\ Ordinary(i, j) /\ Unparked(i, j)
    BY <1>3, <1>5, <2>1, <2>2, ExpiredHistory
  <2>4. j.status \in Terminal \ {"confirmed"}
    <3>1. CASE i.status \in Terminal
      <4>1. i.status # "confirmed"
        BY <2>2 DEF Lapsed
      <4>2. ~CanTransition(i.status, "expired")
        BY <3>1, EdgeTypes
      <4>3. QED
        BY <3>1, <4>1, <4>2 DEF ExpiredByEvent
    <3>2. CASE i.status \notin Terminal
      <4>1. CanTransition(i.status, "expired")
        BY <1>4, <3>2, OpenCanExpire
      <4>2. j.status = "expired"
        BY <4>1 DEF ExpiredByEvent, Move, Row, Intent
      <4>3. QED
        BY <4>2 DEF Terminal
    <3>3. QED
      BY <3>1, <3>2
  <2> HIDE DEF j
  <2>5. Ruling(e, k, i, j, "ignored_expired", types)
    BY <1>3, <2>1, <2>2, <2>3, <2>4 DEF Ruling, Unparked
  <2>6. QED
    BY <2>5
<1>8. CASE RejectTerminal(e, k, i)
  <2>1. i.status \in {"failed", "creation_failed"}
    BY <1>8 DEF RejectTerminal, Dead
  <2>2. {"PAYMENT_ON_TERMINAL_INTENT"} \subseteq RecordTypes \ {"UNKNOWN_PROVIDER_REFERENCE"}
    BY DEF RecordTypes
  <2>3. Record(e, k, "terminal_intent", {"PAYMENT_ON_TERMINAL_INTENT"})
        /\ intents' = [intents EXCEPT ![k] = i]
    BY <1>8 DEF RejectTerminal
  <2>4. Row(i, events')
    BY <1>3, <1>5, <2>2, <2>3
  <2>5. Ruling(e, k, i, i, "terminal_intent", {"PAYMENT_ON_TERMINAL_INTENT"})
    BY <1>2, <1>3, <2>1, <2>2, <2>3, <2>4, RowStands DEF Ruling
  <2>6. QED
    BY <2>5
<1>9. CASE RejectDiscrepancy(e, k, i)
  <2> DEFINE j == Parked(i, e, p.at)
  <2>1. p.value \in Discrepancy
    BY <1>1, <1>9 DEF RejectDiscrepancy, Discrepant
  <2>2. {p.value} \subseteq RecordTypes \ {"UNKNOWN_PROVIDER_REFERENCE"}
    BY <1>2, <2>1 DEF RecordTypes
  <2>3. Record(e, k, "discrepancy", {p.value}) /\ intents' = [intents EXCEPT ![k] = j]
    BY <1>9 DEF RejectDiscrepancy
  <2>4. Row(j, events') /\ j.ref = i.ref /\ Ordinary(i, j)
    BY <1>1, <1>3, <1>5, <2>2, <2>3, ParkedHistory
  <2> HIDE DEF j
  <2>5. Ruling(e, k, i, j, "discrepancy", {p.value})
    BY <1>2, <1>3, <2>1, <2>2, <2>3, <2>4 DEF Ruling
  <2>6. QED
    BY <2>5
<1>10. CASE IgnoreStale(e, k, i)
  <2>1. /\ ~Lapsed(i, f.receivedAt) /\ ~Dead(i, p) /\ ~Discrepant(p)
        /\ Record(e, k, "ignored_stale", {}) /\ intents' = [intents EXCEPT ![k] = i]
    BY <1>10 DEF IgnoreStale
  <2>2. Row(i, events')
    BY <1>3, <1>5, <2>1
  <2>3. EventsStay
    BY <1>3, <2>1, RecordEffect
  <2>4. p \in Report /\ IsStale(i, p)
    BY <1>1, <1>10 DEF IgnoreStale, Flight
  <2>5. Moved(p) => i.status = "reconciliation_required" \/ Overtaken(p, i, events')
    BY <2>1, <2>3, <2>4, StaleIsOvertaken, OvertakenStays
  <2>6. Ruling(e, k, i, i, "ignored_stale", {})
    BY <1>3, <2>1, <2>2, <2>5, RowStands DEF Ruling, Lapsed, Dead, Discrepant
  <2>7. QED
    BY <2>6
<1>11. CASE Accept(e, k, i)
  <2> DEFINE j == Advanced(i, e, f)
  <2>1. /\ ~Lapsed(i, f.receivedAt) /\ ~Dead(i, p) /\ ~Discrepant(p) /\ ~IsStale(i, p)
        /\ CanTransition(i.status, TargetStatus(p))
        /\ Record(e, k, "processed", {}) /\ intents' = [intents EXCEPT ![k] = j]
    BY <1>11 DEF Accept
  <2>2. /\ events' \in [Events -> EventRow \cup {Null}] /\ events'[e] # Null
        /\ events'[e].report = p /\ events'[e].receivedAt = f.receivedAt
    BY <1>3, <2>1, RecordEffect
  <2>3. Row(i, events')
    BY <1>3, <1>5, <2>1
  <2>4. Row(j, events') /\ j.ref = i.ref /\ Ordinary(i, j) /\ Unparked(i, j)
    BY <1>1, <2>1, <2>2, <2>3, AdvancedHistory
  <2>5. j.createdAt = i.createdAt
    <3>1. Keeps(i, j)
      BY <1>1, <2>1, AdvancedRow DEF Row
    <3>2. QED
      BY <3>1 DEF Keeps
  <2>6. i.status \notin {"confirmed", "expired"}
    BY <2>1, EdgeTypes DEF Terminal
  <2> HIDE DEF j
  <2>7. j.status # "creation_failed"
    <3>1. TargetStatus(p) # "creation_failed"
      BY <1>1 DEF TargetStatus
    <3>2. j.status = TargetStatus(p)
      BY DEF j, Advanced, Move, Row, Intent
    <3>3. QED
      BY <3>1, <3>2
  <2>8. Ruling(e, k, i, j, "processed", {})
    BY <1>3, <2>1, <2>4, <2>5, <2>6, <2>7 DEF Ruling, Lapsed, Discrepant, ExpiresAt, Unparked
  <2>9. QED
    BY <2>8
<1>12. QED
  BY <1>6, <1>7, <1>8, <1>9, <1>10, <1>11 DEF Resolve

-----------------------------------------------------------------------------
(* The inductive invariant *)

Histories == \A k \in Intents : intents[k] # Null => Row(intents[k], events)

OneHolder ==
  \A k, n \in Intents :
    /\ intents[k] # Null /\ intents[n] # Null
    /\ intents[k].ref # Null /\ intents[k].ref = intents[n].ref
    => k = n

\* An event is only ever committed for an intent that has its reference.
EventsHaveReferences ==
  \A e \in Events : events[e] # Null /\ events[e].intent # Null =>
    LET k == events[e].intent IN intents[k] # Null /\ intents[k].ref # Null

\* What a record says of its event and its intent.
Holds(rec) ==
  /\ rec.intent # Null => intents[rec.intent] # Null
  /\ rec.event # Null => events[rec.event] # Null
  /\ rec.type \in Discrepancy =>
       /\ rec.event # Null /\ events[rec.event].verdict = "discrepancy"
       /\ events[rec.event].report.value = rec.type
  /\ rec.type = "PAYMENT_AFTER_EXPIRY" =>
       rec.intent # Null /\ intents[rec.intent].status \in Terminal \ {"confirmed"}
  /\ rec.type = "PAYMENT_ON_TERMINAL_INTENT" =>
       rec.intent # Null /\ intents[rec.intent].status \in {"failed", "creation_failed"}
  /\ rec.type = "UNKNOWN_PROVIDER_REFERENCE" => rec.intent = Null

RecordsHold == \A rec \in reconciliations : Holds(rec)

ExpiryRecord(k) ==
  [intent |-> k, event |-> Null, type |-> "INTENT_EXPIRED_AFTER_PAYMENT_DETECTED"]

\* The worker expired this row when a payment had been seen.
ExpiredWithPayment(i) ==
  \E t \in i.log : t.trigger = "EXPIRY_WORKER" /\ t.from \in {"detected", "confirming"}

WorkerOnRecord ==
  \A k \in Intents : intents[k] # Null =>
    (ExpiredWithPayment(intents[k]) <=> ExpiryRecord(k) \in reconciliations)

ParkedOnRecord ==
  \A k \in Intents : intents[k] # Null /\ intents[k].status = "reconciliation_required" =>
    \E rec \in reconciliations : rec.intent = k /\ rec.type \in Discrepancy

\* A report of value that was ignored as stale is overtaken, or its intent is parked.
Excused(e) ==
  events[e] # Null /\ events[e].verdict = "ignored_stale" /\ Moved(events[e].report) =>
    LET k == events[e].intent IN
    /\ k # Null
    /\ \/ intents[k].status = "reconciliation_required"
       \/ Overtaken(events[e].report, intents[k], events)

StaleExcused == \A e \in Events : Excused(e)

HInv ==
  /\ IInv
  /\ Histories
  /\ OneHolder
  /\ EventsHaveReferences
  /\ EvidenceOnRecord
  /\ StaleExcused
  /\ RecordsHold
  /\ WorkerOnRecord
  /\ ParkedOnRecord

-----------------------------------------------------------------------------
(* The kinds of step, told apart by what they put on record *)

\* Requests and the clock: nothing is put on record, at most one row changes.
UnrecordedStep ==
  /\ UNCHANGED <<events, reconciliations>>
  /\ \A k \in Intents : intents[k] # Null =>
       /\ intents'[k] # Null /\ Row(intents'[k], events')
       /\ Ordinary(intents[k], intents'[k]) /\ Unparked(intents[k], intents'[k])
       /\ \/ intents'[k].ref = intents[k].ref
          \/ Holders(intents'[k].ref) \subseteq {k} /\ \A n \in Intents \ {k} : intents'[n] = intents[n]
  /\ \A k \in Intents : intents[k] = Null /\ intents'[k] # Null =>
       /\ Row(intents'[k], events')
       /\ intents'[k].ref = Null /\ intents'[k].log = {}
       /\ intents'[k].status = "provider_pending"

\* Event e is committed without an intent.
UnmatchedStep(e) ==
  /\ flights[e] # Null
  /\ UNCHANGED intents
  /\ \E verdict \in Verdict \ {"ignored_stale"}, types \in SUBSET {"UNKNOWN_PROVIDER_REFERENCE"} :
       Record(e, Null, verdict, types)

\* Event e is committed with a ruling on intent k, as found or as just recovered.
RuledStep(e, k) ==
  /\ flights[e] # Null /\ intents[k] # Null
  /\ \E i, j, verdict, types :
       /\ Ruling(e, k, i, j, verdict, types)
       /\ Ordinary(intents[k], i) /\ Unparked(intents[k], i)
       /\ i.ref # Null /\ i.status # "provider_pending"
       /\ i.ref = intents[k].ref \/ Holders(i.ref) = {}

LEMMA SameRecord ==
  ASSUME HInv, UNCHANGED <<intents, events, reconciliations>>
  PROVE  UnrecordedStep
BY DEF HInv, Histories, UnrecordedStep, Ordinary, Unparked

\* One row is rewritten, with the reference it had or one that nobody holds.
LEMMA OneRowRewritten ==
  ASSUME HInv, NEW k \in Intents, intents[k] # Null, NEW j, Row(j, events),
         intents' = [intents EXCEPT ![k] = j], UNCHANGED <<events, reconciliations>>,
         Ordinary(intents[k], j), Unparked(intents[k], j),
         j.ref = intents[k].ref \/ Holders(j.ref) \subseteq {k}
  PROVE  UnrecordedStep
<1>1. intents'[k] = j /\ \A n \in Intents \ {k} : intents'[n] = intents[n]
  BY DEF HInv, IInv, TypeOK
<1>2. j # Null
  BY NullAssumption DEF Row
<1>3. Row(j, events')
  BY DEF Row, InOrder
<1>4. \A n \in Intents \ {k} : intents[n] # Null =>
        /\ Row(intents[n], events')
        /\ Ordinary(intents[n], intents[n]) /\ Unparked(intents[n], intents[n])
  BY DEF HInv, Histories, Ordinary, Unparked
<1>5. QED
  BY <1>1, <1>2, <1>3, <1>4 DEF UnrecordedStep

LEMMA RequestSteps ==
  ASSUME HInv, NEW r \in Requests, RequestStep(r)
  PROVE  UnrecordedStep
<1> DEFINE q == requests[r]
           k == q.key
<1>1. ASSUME q # Null
      PROVE  k \in Intents /\ intents[k] # Null /\ Row(intents[k], events)
  BY <1>1 DEF HInv, Histories, IInv, TypeOK, Request, RequestsHaveIntents
<1>2. CASE \E n \in Intents, h \in Hashes : Prepare(r, n, h)
  <2>1. PICK n \in Intents, h \in Hashes : Prepare(r, n, h)
    BY <1>2
  <2>2. CASE UNCHANGED intents
    BY <2>1, <2>2, SameRecord DEF Prepare
  <2>3. CASE intents[n] = Null /\ intents' = [intents EXCEPT ![n] = NewIntent(h)]
    <3> DEFINE j == NewIntent(h)
    <3>1. /\ Row(j, events)
          /\ j.status = "provider_pending" /\ j.ref = Null /\ j.log = {}
      BY NewHistory DEF HInv, IInv, TypeOK
    <3>2. intents'[n] = j /\ \A m \in Intents \ {n} : intents'[m] = intents[m]
      BY <2>3 DEF HInv, IInv, TypeOK
    <3> HIDE DEF j
    <3>3. UNCHANGED <<events, reconciliations>>
      BY <2>1 DEF Prepare
    <3>4. \A m \in Intents \ {n} : intents[m] # Null =>
            /\ Row(intents[m], events')
            /\ Ordinary(intents[m], intents[m]) /\ Unparked(intents[m], intents[m])
      BY <3>3 DEF HInv, Histories, Ordinary, Unparked
    <3>5. QED
      BY <2>3, <3>1, <3>2, <3>3, <3>4 DEF UnrecordedStep
  <2>4. QED
    BY <2>1, <2>2, <2>3 DEF Prepare
<1>3. CASE ProviderOpens(r) \/ ProviderRefuses(r) \/ ProviderAnswerLost(r) \/ Abandon(r)
  BY <1>3, SameRecord DEF ProviderOpens, ProviderRefuses, ProviderAnswerLost, Abandon
<1>4. CASE Activate(r)
  <2>1. /\ q # Null /\ Holders(k) \subseteq {k}
        /\ intents' = [intents EXCEPT ![k] = Activated(intents[k], k)]
        /\ UNCHANGED <<events, reconciliations>>
    BY <1>4 DEF Activate
  <2>2. LET j == Activated(intents[k], k) IN
        Row(j, events) /\ j.ref = k /\ Ordinary(intents[k], j) /\ Unparked(intents[k], j)
    BY <1>1, <2>1, ActivatedHistory
  <2>3. QED
    BY <1>1, <2>1, <2>2, OneRowRewritten
<1>5. CASE MarkCreationFailed(r)
  <2>1. /\ q # Null
        /\ intents' = [intents EXCEPT ![k] = CreationFailed(intents[k])]
        /\ UNCHANGED <<events, reconciliations>>
    BY <1>5 DEF MarkCreationFailed
  <2>2. LET j == CreationFailed(intents[k]) IN
        /\ Row(j, events) /\ j.ref = intents[k].ref
        /\ Ordinary(intents[k], j) /\ Unparked(intents[k], j)
    BY <1>1, <2>1, CreationFailedHistory
  <2>3. QED
    BY <1>1, <2>1, <2>2, OneRowRewritten
<1>6. QED
  BY <1>2, <1>3, <1>4, <1>5 DEF RequestStep

LEMMA EventSteps ==
  ASSUME HInv, NEW e \in Events, EventStep(e)
  PROVE  UnrecordedStep \/ UnmatchedStep(e) \/ \E k \in Intents : RuledStep(e, k)
<1> DEFINE f == flights[e]
           p == f.report
<1>1. ASSUME f # Null
      PROVE  /\ p.ref \in Reference /\ p.claim \in Intents \cup {Null}
             /\ f.missed => p.claim # Null
  BY <1>1 DEF HInv, IInv, TypeOK, Flight, Report, FlightsUncommitted
<1>2. {"future_timestamp", "reference_unknown"} \subseteq Verdict \ {"ignored_stale"}
  BY DEF Verdict
<1>3. IInv
  BY DEF HInv
<1>4. CASE \E d \in Reports : ReceiveEvent(e, d)
  BY <1>4, SameRecord DEF ReceiveEvent
<1>5. CASE RejectFuture(e)
  BY <1>2, <1>5 DEF RejectFuture, UnmatchedStep
<1>6. ASSUME f # Null, RejectUnknown(e)
      PROVE  UnmatchedStep(e)
  BY <1>2, <1>6 DEF RejectUnknown, UnmatchedStep
<1>7. CASE ResolveByReference(e)
  <2>1. PICK k \in Holders(p.ref) : Resolve(e, k, intents[k])
    BY <1>7 DEF ResolveByReference
  <2>2. f # Null
    BY <1>7 DEF ResolveByReference, InTime
  <2>3. k \in Intents /\ intents[k] # Null /\ intents[k].ref = p.ref /\ p.ref # Null
    BY <1>1, <2>1, <2>2, NullAssumption DEF Holders
  <2>4. Row(intents[k], events) /\ Ordinary(intents[k], intents[k]) /\ Unparked(intents[k], intents[k])
    BY <2>3 DEF HInv, Histories, Ordinary, Unparked
  <2>5. \E j, verdict, types : Ruling(e, k, intents[k], j, verdict, types)
    BY <1>3, <2>1, <2>2, <2>3, <2>4, ResolveRules
  <2>6. intents[k].status # "provider_pending"
    BY <2>3, <2>4 DEF Row, SessionOf
  <2>7. RuledStep(e, k)
    BY <2>2, <2>3, <2>4, <2>5, <2>6 DEF RuledStep
  <2>8. QED
    BY <2>3, <2>7
<1>8. CASE MissReference(e)
  <2>1. f # Null
    BY <1>8 DEF MissReference, InTime
  <2>2. CASE p.claim = Null
    BY <1>6, <1>8, <2>1, <2>2 DEF MissReference
  <2>3. CASE p.claim # Null
    BY <1>8, <2>3, SameRecord DEF MissReference
  <2>4. QED
    BY <2>2, <2>3
<1>9. CASE ResolveByClaim(e)
  <2> DEFINE k == p.claim
             i == Recovered(intents[k], e, p.ref)
  <2>1. f # Null /\ f.missed
    BY <1>9 DEF ResolveByClaim, InTime
  <2>2. CASE ~Recoverable(k)
    BY <1>6, <1>9, <2>1, <2>2 DEF ResolveByClaim
  <2>3. CASE Recoverable(k)
    <3>1. k \in Intents
      BY <1>1, <2>1
    <3>2. /\ intents[k] # Null /\ Row(intents[k], events)
          /\ intents[k].status = "provider_pending"
      BY <2>3, <3>1 DEF Recoverable, HInv, Histories
    <3>3. Resolve(e, k, i) /\ Holders(p.ref) = {}
      BY <2>3, <1>9 DEF ResolveByClaim
    <3>4. /\ Row(i, events) /\ i.ref = p.ref /\ i.status = "awaiting_payment"
          /\ Ordinary(intents[k], i) /\ Unparked(intents[k], i)
      BY <1>1, <2>1, <3>2, OpenedRow DEF Recovered
    <3> HIDE DEF i
    <3>5. \E j, verdict, types : Ruling(e, k, i, j, verdict, types)
      BY <1>3, <2>1, <3>1, <3>3, <3>4, ResolveRules
    <3>6. i.ref # Null /\ i.status # "provider_pending" /\ Holders(i.ref) = {}
      BY <1>1, <2>1, <3>3, <3>4, NullAssumption
    <3>7. RuledStep(e, k)
      BY <2>1, <3>2, <3>4, <3>5, <3>6 DEF RuledStep
    <3>8. QED
      BY <3>1, <3>7
  <2>4. QED
    BY <2>2, <2>3
<1>10. CASE RollBack(e)
  BY <1>10, SameRecord DEF RollBack
<1>11. QED
  BY <1>4, <1>5, <1>6, <1>7, <1>8, <1>9, <1>10 DEF EventStep, RejectFuture

LEMMA RecordKinds ==
  ASSUME HInv, [Next]_vars
  PROVE  \/ UnrecordedStep
         \/ \E e \in Events : UnmatchedStep(e) \/ \E k \in Intents : RuledStep(e, k)
         \/ \E S \in SUBSET Due : Expire(S)
<1>1. CASE \E r \in Requests : RequestStep(r)
  BY <1>1, RequestSteps
<1>2. CASE \E e \in Events : EventStep(e)
  BY <1>2, EventSteps
<1>3. CASE ExpiryWorker
  BY <1>3 DEF ExpiryWorker
<1>4. CASE Tick \/ UNCHANGED vars
  BY <1>4, SameRecord DEF Tick, vars
<1>5. QED
  BY <1>1, <1>2, <1>3, <1>4 DEF Next

-----------------------------------------------------------------------------
(* What is on record stays true *)

\* EvidenceOnRecord, of one event.
Evident(e) ==
  events[e] # Null /\ events[e].intent # Null =>
    LET ev == events[e]  k == ev.intent  i == intents[k] IN
    /\ Owned(k, ev.report)
    /\ Moved(ev.report)
    /\ \/ ev.report.value # "EXACT"
       \/ ExpiresAt(i) <= ev.receivedAt /\ i.status # "confirmed"
       \/ i.status = "creation_failed"
    => \E rec \in reconciliations : rec.event = e /\ rec.intent = k

LEMMA RowsKept ==
  ASSUME IInv, [Next]_vars, NEW k \in Intents, intents[k] # Null
  PROVE  /\ intents'[k] # Null
         /\ ExpiresAt(intents'[k]) = ExpiresAt(intents[k])
         /\ intents[k].ref # Null => intents'[k].ref = intents[k].ref
         /\ intents[k].status \in Terminal => intents'[k].status = intents[k].status
BY StepKeepsRows DEF Keeps, ExpiresAt

\* A creation that fails has no reference, so no event was committed for it.
LEMMA EvidenceKept ==
  ASSUME HInv, [Next]_vars, reconciliations \subseteq reconciliations',
         NEW d \in Events, events[d] # Null, events'[d] = events[d],
         \A k \in Intents : intents[k] # Null /\ intents'[k].status = "creation_failed" =>
            intents[k].status \in {"creation_failed", "provider_pending"}
  PROVE  Evident(d)'
<1> DEFINE ev == events[d]
           k == ev.intent
<1>1. SUFFICES ASSUME k # Null,
                      Owned(k, ev.report), Moved(ev.report),
                      \/ ev.report.value # "EXACT"
                      \/ ExpiresAt(intents'[k]) <= ev.receivedAt /\ intents'[k].status # "confirmed"
                      \/ intents'[k].status = "creation_failed"
               PROVE  \E rec \in reconciliations : rec.event = d /\ rec.intent = k
  BY DEF Evident, Owned, Moved, ExpiresAt
<1>2. k \in Intents /\ intents[k] # Null /\ intents[k].ref # Null
  BY <1>1 DEF HInv, IInv, TypeOK, EventRow, EventsHaveReferences
<1>3. intents[k].status # "provider_pending"
  BY <1>2 DEF HInv, Histories, Row, SessionOf
<1>4. /\ ExpiresAt(intents'[k]) = ExpiresAt(intents[k])
      /\ intents[k].status = "confirmed" => intents'[k].status = "confirmed"
  BY <1>2, RowsKept DEF HInv, Terminal
<1>5. Evident(d)
  BY DEF HInv, EvidenceOnRecord, Evident
<1>6. QED
  BY <1>1, <1>2, <1>3, <1>4, <1>5 DEF Evident

LEMMA ExcusesKept ==
  ASSUME HInv, [Next]_vars, EventsStay,
         NEW d \in Events, events[d] # Null
  PROVE  Excused(d)'
<1> DEFINE k == events[d].intent
           p == events[d].report
<1>1. SUFFICES ASSUME events[d].verdict = "ignored_stale", Moved(p)
               PROVE  /\ k # Null
                      /\ \/ intents'[k].status = "reconciliation_required"
                         \/ Overtaken(p, intents'[k], events')
  BY DEF Excused, Overtaken, Moved, Advances, EventsStay
<1>2. /\ k # Null
      /\ \/ intents[k].status = "reconciliation_required"
         \/ Overtaken(p, intents[k], events)
  BY <1>1 DEF HInv, StaleExcused, Excused
<1>3. k \in Intents /\ intents[k] # Null
  BY <1>2 DEF HInv, IInv, TypeOK, EventRow, EventsHaveReferences
<1>4. Keeps(intents[k], intents'[k]) /\ Row(intents[k], events)
  BY <1>3, StepKeepsRows DEF HInv, Histories
<1>5. /\ intents'[k].createdAt = intents[k].createdAt
      /\ intents[k].log \subseteq intents'[k].log
      /\ intents[k].status \in Terminal => intents'[k].status = intents[k].status
  BY <1>4 DEF Keeps
<1>6. CASE intents[k].status = "reconciliation_required"
  BY <1>2, <1>5, <1>6 DEF Terminal
<1>7. CASE Overtaken(p, intents[k], events)
  BY <1>2, <1>4, <1>5, <1>7, OvertakenStays
<1>8. QED
  BY <1>2, <1>6, <1>7

LEMMA RecordsKept ==
  ASSUME HInv, [Next]_vars, EventsStay, NEW rec \in reconciliations
  PROVE  Holds(rec)'
<1>1. Holds(rec)
  BY DEF HInv, RecordsHold
<1>2. rec.intent \in Intents \cup {Null} /\ rec.event \in Events \cup {Null}
  BY DEF HInv, IInv, TypeOK, Reconciliation
<1>3. rec.event # Null => events[rec.event] # Null /\ events'[rec.event] = events[rec.event]
  BY <1>1, <1>2 DEF Holds, EventsStay
<1>4. rec.intent # Null =>
        /\ intents[rec.intent] # Null /\ intents'[rec.intent] # Null
        /\ intents[rec.intent].status \in Terminal =>
             intents'[rec.intent].status = intents[rec.intent].status
  BY <1>1, <1>2, RowsKept DEF Holds, HInv
<1>5. {"failed", "creation_failed"} \subseteq Terminal
  BY DEF Terminal
<1>6. QED
  BY <1>1, <1>3, <1>4, <1>5 DEF Holds

LEMMA ReferencesKept ==
  ASSUME HInv, [Next]_vars, NEW d \in Events, events[d] # Null, events[d].intent # Null
  PROVE  LET k == events[d].intent IN intents'[k] # Null /\ intents'[k].ref # Null
<1>1. LET k == events[d].intent IN k \in Intents /\ intents[k] # Null /\ intents[k].ref # Null
  BY DEF HInv, IInv, TypeOK, EventRow, EventsHaveReferences
<1>2. QED
  BY <1>1, RowsKept DEF HInv

LEMMA SameExpiryRows ==
  ASSUME NEW i, NEW j, Ordinary(i, j), i.log \subseteq j.log
  PROVE  ExpiredWithPayment(j) <=> ExpiredWithPayment(i)
BY DEF Ordinary, ExpiredWithPayment

\* Rows that change by at most one new reference keep their references apart.
LEMMA HoldersApart ==
  ASSUME HInv, [Next]_vars, NEW k \in Intents,
         \A n \in Intents \ {k} : intents'[n] = intents[n],
         intents'[k] # Null,
         \/ intents'[k].ref = Null
         \/ intents[k] # Null /\ intents'[k].ref = intents[k].ref
         \/ Holders(intents'[k].ref) \subseteq {k}
  PROVE  OneHolder'
<1>1. ASSUME NEW n \in Intents \ {k}, intents[n] # Null, intents'[k].ref # Null
      PROVE  intents[n].ref # intents'[k].ref
  BY <1>1 DEF HInv, OneHolder, Holders
<1>2. ASSUME NEW m \in Intents, NEW n \in Intents, m # n,
             intents'[m] # Null, intents'[n] # Null, intents'[m].ref # Null,
             intents'[m].ref = intents'[n].ref
      PROVE  FALSE
  <2>1. CASE m = k
    BY <1>1, <1>2, <2>1
  <2>2. CASE n = k
    BY <1>1, <1>2, <2>2
  <2>3. CASE m # k /\ n # k
    BY <1>2, <2>3 DEF HInv, OneHolder
  <2>4. QED
    BY <2>1, <2>2, <2>3
<1>3. QED
  BY <1>2 DEF OneHolder

LEMMA HoldersStay ==
  ASSUME HInv, \A k \in Intents : intents'[k] # Null => intents'[k].ref = Null \/
                  (intents[k] # Null /\ intents'[k].ref = intents[k].ref)
  PROVE  OneHolder'
BY DEF HInv, OneHolder

-----------------------------------------------------------------------------
(* Each kind of step preserves the invariant *)

LEMMA UnrecordedPreserves ==
  ASSUME HInv, [Next]_vars, UnrecordedStep
  PROVE  HInv'
<1>1. IInv'
  BY NextIInv DEF HInv
<1>2. UNCHANGED <<events, reconciliations>> /\ EventsStay
  BY DEF UnrecordedStep, EventsStay
<1>3. Histories'
  BY DEF UnrecordedStep, Histories
<1>4. OneHolder'
  <2>1. CASE \E k \in Intents : /\ intents[k] # Null
                                /\ Holders(intents'[k].ref) \subseteq {k}
                                /\ \A n \in Intents \ {k} : intents'[n] = intents[n]
    BY <2>1, HoldersApart DEF UnrecordedStep
  <2>2. CASE \A k \in Intents : intents[k] # Null => intents'[k].ref = intents[k].ref
    BY <2>2, HoldersStay DEF UnrecordedStep
  <2>3. QED
    BY <2>1, <2>2 DEF UnrecordedStep
<1>5. EventsHaveReferences'
  BY <1>2, ReferencesKept DEF EventsHaveReferences
<1>6. EvidenceOnRecord'
  <2>1. \A d \in Events : events[d] # Null => Evident(d)'
    BY <1>2, EvidenceKept DEF UnrecordedStep, Ordinary
  <2>2. QED
    BY <1>2, <2>1 DEF EvidenceOnRecord, Evident
<1>7. RecordsHold'
  BY <1>2, RecordsKept DEF RecordsHold
<1>8. WorkerOnRecord'
  <2>1. ASSUME NEW k \in Intents, intents'[k] # Null
        PROVE  ExpiredWithPayment(intents'[k]) <=> ExpiryRecord(k) \in reconciliations
    <3>1. CASE intents[k] # Null
      <4>1. intents[k].log \subseteq intents'[k].log
        BY <3>1, StepKeepsRows DEF Keeps, HInv
      <4>2. QED
        BY <3>1, <4>1, SameExpiryRows DEF UnrecordedStep, HInv, WorkerOnRecord
    <3>2. CASE intents[k] = Null
      <4>1. ~ExpiredWithPayment(intents'[k])
        BY <2>1, <3>2 DEF UnrecordedStep, ExpiredWithPayment
      <4>2. ExpiryRecord(k).intent = k /\ k # Null
        BY NullAssumption DEF ExpiryRecord
      <4>3. ExpiryRecord(k) \notin reconciliations
        BY <3>2, <4>2 DEF HInv, RecordsHold, Holds
      <4>4. QED
        BY <4>1, <4>3
    <3>3. QED
      BY <3>1, <3>2
  <2>2. QED
    BY <1>2, <2>1 DEF WorkerOnRecord, ExpiryRecord
<1>9. ParkedOnRecord'
  BY <1>2 DEF UnrecordedStep, Unparked, HInv, ParkedOnRecord
<1>10. StaleExcused'
  <2>1. \A d \in Events : events[d] # Null => Excused(d)'
    BY <1>2, ExcusesKept
  <2>2. QED
    BY <1>2, <2>1 DEF StaleExcused, Excused
<1>11. QED
  BY <1>1, <1>3, <1>4, <1>5, <1>6, <1>7, <1>8, <1>9, <1>10 DEF HInv

LEMMA UnmatchedPreserves ==
  ASSUME HInv, [Next]_vars, NEW e \in Events, UnmatchedStep(e)
  PROVE  HInv'
<1>1. IInv' /\ IInv
  BY NextIInv DEF HInv
<1>2. flights[e] # Null /\ UNCHANGED intents
  BY DEF UnmatchedStep
<1>3. PICK verdict \in Verdict \ {"ignored_stale"}, types \in SUBSET {"UNKNOWN_PROVIDER_REFERENCE"} :
         Record(e, Null, verdict, types)
  BY DEF UnmatchedStep
<1>4. types \in SUBSET RecordTypes
  BY DEF RecordTypes
<1>5. /\ events[e] = Null /\ events'[e] # Null /\ events'[e].intent = Null
      /\ events'[e].verdict = verdict
      /\ \A d \in Events \ {e} : events'[d] = events[d]
      /\ EventsStay
      /\ reconciliations' = reconciliations \cup
           {[intent |-> Null, event |-> e, type |-> t] : t \in types}
  BY <1>1, <1>2, <1>3, <1>4, RecordEffect
<1>6. Histories'
  BY <1>2, <1>5, RowExtends DEF HInv, Histories
<1>7. OneHolder'
  BY <1>2, HoldersStay DEF HInv, OneHolder
<1>8. EventsHaveReferences'
  BY <1>5, ReferencesKept DEF EventsHaveReferences
<1>9. EvidenceOnRecord'
  <2>1. \A d \in Events : events[d] # Null => Evident(d)'
    BY <1>2, <1>5, EvidenceKept DEF EventsStay
  <2>2. \A d \in Events : Evident(d)'
    BY <1>5, <2>1 DEF Evident
  <2>3. QED
    BY <2>2 DEF EvidenceOnRecord, Evident
<1>10. RecordsHold'
  <2>1. ASSUME NEW t \in types
        PROVE  Holds([intent |-> Null, event |-> e, type |-> t])'
    BY <1>5 DEF Holds, Discrepancy
  <2>2. QED
    BY <1>5, <2>1, RecordsKept DEF RecordsHold
<1>11. WorkerOnRecord'
  <2>1. \A k \in Intents : ExpiryRecord(k) \in reconciliations' <=> ExpiryRecord(k) \in reconciliations
    BY <1>5 DEF ExpiryRecord
  <2>2. QED
    BY <1>2, <2>1 DEF HInv, WorkerOnRecord, ExpiryRecord
<1>12. ParkedOnRecord'
  BY <1>2, <1>5 DEF HInv, ParkedOnRecord
<1>13. StaleExcused'
  <2>1. \A d \in Events : events[d] # Null => Excused(d)'
    BY <1>5, ExcusesKept
  <2>2. Excused(e)'
    BY <1>5 DEF Excused
  <2>3. QED
    BY <1>5, <2>1, <2>2 DEF StaleExcused, Excused
<1>14. QED
  BY <1>1, <1>6, <1>7, <1>8, <1>9, <1>10, <1>11, <1>12, <1>13 DEF HInv

LEMMA RuledPreserves ==
  ASSUME HInv, [Next]_vars, NEW e \in Events, NEW k \in Intents, RuledStep(e, k)
  PROVE  HInv'
<1> DEFINE f == flights[e]
           old == intents[k]
<1>1. IInv' /\ IInv
  BY NextIInv DEF HInv
<1>2. PICK i, j, verdict, types :
        /\ Ruling(e, k, i, j, verdict, types)
        /\ Ordinary(old, i) /\ Unparked(old, i)
        /\ i.ref # Null /\ i.status # "provider_pending"
        /\ i.ref = old.ref \/ Holders(i.ref) = {}
  BY DEF RuledStep
<1>3. f # Null /\ old # Null
  BY DEF RuledStep
<1>4. /\ intents' = [intents EXCEPT ![k] = j]
      /\ Row(j, events') /\ j.ref = i.ref /\ Ordinary(i, j)
      /\ Record(e, k, verdict, types) /\ verdict \in Verdict
      /\ types \subseteq RecordTypes \ {"UNKNOWN_PROVIDER_REFERENCE"}
  BY <1>2 DEF Ruling
<1>5. /\ events[e] = Null /\ events'[e] # Null /\ events'[e].intent = k
      /\ events'[e].report = f.report /\ events'[e].receivedAt = f.receivedAt
      /\ events'[e].verdict = verdict
      /\ \A d \in Events \ {e} : events'[d] = events[d]
      /\ EventsStay
      /\ reconciliations' = reconciliations \cup
           {[intent |-> k, event |-> e, type |-> t] : t \in types}
  BY <1>1, <1>3, <1>4, RecordEffect
<1>6. /\ intents'[k] = j
      /\ \A n \in Intents \ {k} : intents'[n] = intents[n]
  BY <1>1, <1>4 DEF IInv, TypeOK
<1>7. j # Null /\ k # Null /\ e # Null
  BY <1>4, NullAssumption DEF Row
<1>8. Ordinary(old, j)
  BY <1>2, <1>4 DEF Ordinary
<1>9. Histories'
  BY <1>4, <1>5, <1>6, RowExtends DEF HInv, Histories
<1>10. OneHolder'
  BY <1>2, <1>3, <1>4, <1>6, <1>7, HoldersApart
<1>11. EventsHaveReferences'
  BY <1>2, <1>4, <1>5, <1>6, <1>7, ReferencesKept DEF EventsHaveReferences
<1>12. EvidenceOnRecord'
  <2>1. \A n \in Intents : intents[n] # Null /\ intents'[n].status = "creation_failed" =>
           intents[n].status \in {"creation_failed", "provider_pending"}
    BY <1>6, <1>8 DEF Ordinary
  <2>2. \A d \in Events : events[d] # Null => Evident(d)'
    BY <1>5, <2>1, EvidenceKept DEF EventsStay
  <2>3. Evident(e)'
    <3>1. ASSUME Owned(k, f.report), Moved(f.report),
                 \/ f.report.value # "EXACT"
                 \/ ExpiresAt(j) <= f.receivedAt /\ j.status # "confirmed"
                 \/ j.status = "creation_failed"
          PROVE  \E rec \in reconciliations' : rec.event = e /\ rec.intent = k
      <4>1. PICK t \in types : TRUE
        BY <1>2, <3>1 DEF Ruling
      <4>2. [intent |-> k, event |-> e, type |-> t] \in reconciliations'
        BY <1>5
      <4>3. QED
        BY <4>2
    <3>2. QED
      BY <1>5, <1>6, <3>1 DEF Evident, Owned, Moved, ExpiresAt
  <2>4. \A d \in Events : Evident(d)'
    BY <1>5, <2>2, <2>3 DEF Evident
  <2>5. QED
    BY <2>4 DEF EvidenceOnRecord, Evident
<1>13. RecordsHold'
  <2>1. ASSUME NEW t \in types
        PROVE  Holds([intent |-> k, event |-> e, type |-> t])'
    <3>1. /\ t \in Discrepancy => verdict = "discrepancy" /\ f.report.value = t
          /\ t = "PAYMENT_AFTER_EXPIRY" => j.status \in Terminal \ {"confirmed"}
          /\ t = "PAYMENT_ON_TERMINAL_INTENT" => j.status \in {"failed", "creation_failed"}
          /\ t # "UNKNOWN_PROVIDER_REFERENCE"
      BY <1>2, <2>1 DEF Ruling
    <3>2. QED
      BY <1>5, <1>6, <1>7, <3>1 DEF Holds
  <2>2. QED
    BY <1>5, <2>1, RecordsKept DEF RecordsHold
<1>14. WorkerOnRecord'
  <2>1. \A n \in Intents : ExpiryRecord(n) \in reconciliations' <=> ExpiryRecord(n) \in reconciliations
    BY <1>5, <1>7 DEF ExpiryRecord
  <2>2. old.log \subseteq j.log
    BY <1>3, <1>6, StepKeepsRows DEF Keeps, HInv
  <2>3. \A n \in Intents : intents'[n] # Null =>
          (ExpiredWithPayment(intents'[n]) <=> ExpiryRecord(n) \in reconciliations)
    BY <1>3, <1>6, <1>8, <2>2, SameExpiryRows DEF HInv, WorkerOnRecord
  <2>4. QED
    BY <2>1, <2>3 DEF WorkerOnRecord, ExpiryRecord
<1>15. ParkedOnRecord'
  <2>1. ASSUME j.status = "reconciliation_required"
        PROVE  \E rec \in reconciliations' : rec.intent = k /\ rec.type \in Discrepancy
    <3>1. CASE i.status = "reconciliation_required"
      BY <1>2, <1>3, <1>5, <3>1 DEF Unparked, HInv, ParkedOnRecord
    <3>2. CASE i.status # "reconciliation_required"
      <4>1. PICK t \in types : t \in Discrepancy
        BY <1>2, <2>1, <3>2 DEF Ruling
      <4>2. [intent |-> k, event |-> e, type |-> t] \in reconciliations'
        BY <1>5
      <4>3. QED
        BY <4>1, <4>2
    <3>3. QED
      BY <3>1, <3>2
  <2>2. QED
    BY <1>5, <1>6, <2>1 DEF HInv, ParkedOnRecord
<1>16. StaleExcused'
  <2>1. \A d \in Events : events[d] # Null => Excused(d)'
    BY <1>5, ExcusesKept
  <2>2. verdict = "ignored_stale" /\ Moved(f.report) =>
          j.status = "reconciliation_required" \/ Overtaken(f.report, j, events')
    BY <1>2 DEF Ruling
  <2>3. Excused(e)'
    BY <1>5, <1>6, <1>7, <2>2 DEF Excused, Moved, Overtaken, Advances
  <2>4. QED
    BY <1>5, <2>1, <2>3 DEF StaleExcused, Excused
<1>17. QED
  BY <1>1, <1>9, <1>10, <1>11, <1>12, <1>13, <1>14, <1>15, <1>16 DEF HInv

LEMMA ExpirePreserves ==
  ASSUME HInv, [Next]_vars, NEW S \in SUBSET Due, Expire(S)
  PROVE  HInv'
<1> DEFINE j(k) == Move(intents[k], "expired", "EXPIRY_WORKER", Null)
           seen == {k \in S : intents[k].status \in {"detected", "confirming"}}
           recs == {ExpiryRecord(k) : k \in seen}
<1>1. IInv' /\ IInv
  BY NextIInv DEF HInv
<1>2. /\ intents' = [k \in Intents |-> IF k \in S THEN j(k) ELSE intents[k]]
      /\ reconciliations' = reconciliations \cup recs
      /\ UNCHANGED events
  BY DEF Expire, ExpiryRecord
<1>3. \A k \in S : k \in Intents /\ intents[k] # Null /\ intents[k].status \notin Terminal
  BY DEF Due
<1>4. ASSUME NEW k \in S
      PROVE  /\ Row(j(k), events)
             /\ j(k).status = "expired" /\ j(k).ref = intents[k].ref
             /\ \E t : /\ t.trigger = "EXPIRY_WORKER" /\ t.from = intents[k].status
                       /\ j(k).log = intents[k].log \cup {t}
  <2>1. Row(intents[k], events)
    BY <1>3 DEF HInv, Histories
  <2>2. QED
    BY <1>3, <2>1, WorkerHistory
<1> HIDE DEF j
<1>5. /\ \A k \in S : intents'[k] = j(k)
      /\ \A k \in Intents \ S : intents'[k] = intents[k]
  BY <1>2, <1>3
<1>6. EventsStay
  BY <1>2 DEF EventsStay
<1>7. Histories'
  BY <1>2, <1>4, <1>5 DEF HInv, Histories
<1>8. OneHolder'
  BY <1>3, <1>4, <1>5, HoldersStay
<1>9. EventsHaveReferences'
  BY <1>2, ReferencesKept DEF EventsHaveReferences
<1>10. EvidenceOnRecord'
  <2>1. \A k \in Intents : intents[k] # Null /\ intents'[k].status = "creation_failed" =>
           intents[k].status \in {"creation_failed", "provider_pending"}
    BY <1>4, <1>5
  <2>2. \A d \in Events : events[d] # Null => Evident(d)'
    BY <1>2, <2>1, EvidenceKept
  <2>3. QED
    BY <1>2, <2>2 DEF EvidenceOnRecord, Evident
<1>11. RecordsHold'
  <2>1. ASSUME NEW k \in seen
        PROVE  Holds(ExpiryRecord(k))'
    <3>1. intents'[k] # Null
      BY <1>3, RowsKept, <1>1
    <3>2. QED
      BY <3>1, NullAssumption DEF Holds, ExpiryRecord, Discrepancy
  <2>2. QED
    BY <1>2, <1>6, <2>1, RecordsKept DEF RecordsHold
<1>12. WorkerOnRecord'
  <2>1. \A k \in Intents : ExpiryRecord(k) \in recs <=> k \in seen
    BY DEF ExpiryRecord
  <2>2. ASSUME NEW k \in Intents, intents'[k] # Null
        PROVE  ExpiredWithPayment(intents'[k]) <=> ExpiryRecord(k) \in reconciliations'
    <3>1. CASE k \in S
      <4>1. PICK t : /\ t.trigger = "EXPIRY_WORKER" /\ t.from = intents[k].status
                     /\ intents'[k].log = intents[k].log \cup {t}
        BY <1>4, <1>5, <3>1
      <4>2. ExpiredWithPayment(intents'[k]) <=> ExpiredWithPayment(intents[k]) \/ k \in seen
        BY <3>1, <4>1 DEF ExpiredWithPayment
      <4>3. QED
        BY <1>2, <1>3, <2>1, <3>1, <4>2 DEF HInv, WorkerOnRecord
    <3>2. CASE k \notin S
      BY <1>2, <1>5, <2>1, <2>2, <3>2 DEF HInv, WorkerOnRecord
    <3>3. QED
      BY <3>1, <3>2
  <2>3. QED
    BY <2>2 DEF WorkerOnRecord, ExpiryRecord
<1>13. ParkedOnRecord'
  BY <1>2, <1>4, <1>5 DEF HInv, ParkedOnRecord
<1>14. StaleExcused'
  <2>1. \A d \in Events : events[d] # Null => Excused(d)'
    BY <1>6, ExcusesKept
  <2>2. QED
    BY <1>2, <2>1 DEF StaleExcused, Excused
<1>15. QED
  BY <1>1, <1>7, <1>8, <1>9, <1>10, <1>11, <1>12, <1>13, <1>14 DEF HInv

LEMMA InitHInv == Init => HInv
BY InitIInv, NullAssumption
   DEF Init, HInv, Histories, OneHolder, EventsHaveReferences, EvidenceOnRecord,
       StaleExcused, Excused,
       RecordsHold, WorkerOnRecord, ParkedOnRecord

LEMMA NextHInv == HInv /\ [Next]_vars => HInv'
BY RecordKinds, UnrecordedPreserves, UnmatchedPreserves, RuledPreserves, ExpirePreserves

LEMMA HistoryInductive == Spec => []HInv
BY InitHInv, NextHInv, PTL DEF Spec

-----------------------------------------------------------------------------
(* The theorems *)

\* Whatever requests, events and the worker interleave, the transition rows of
\* an intent are one chain of allowed edges with a row per version, because
\* every status is written with its version and its row in one transaction.
THEOREM HistoryChained == Spec => []HistoryIsAChain
<1>1. HInv => HistoryIsAChain
  BY DEF HInv, Histories, Row, Chain, HistoryIsAChain
<1>2. QED
  BY <1>1, HistoryInductive, PTL

\* The edges lead from each status to a later one.
LEMMA EdgesAdvance ==
  ASSUME NEW from, NEW to, CanTransition(from, to)
  PROVE  /\ from \in {"provider_pending", "awaiting_payment", "detected", "confirming"}
         /\ from = "provider_pending" => to \notin {"provider_pending", "detected", "confirming"}
         /\ from = "awaiting_payment" => to \notin {"provider_pending", "awaiting_payment"}
         /\ from = "detected" => to \notin {"provider_pending", "awaiting_payment", "detected"}
         /\ from = "confirming" => to \notin {"provider_pending", "awaiting_payment", "detected", "confirming"}
<1>1. /\ DOMAIN Edges = {"provider_pending", "awaiting_payment", "detected", "confirming"}
      /\ Edges["provider_pending"] = {"awaiting_payment", "creation_failed", "failed", "expired"}
      /\ Edges["awaiting_payment"] = {"detected", "confirming", "confirmed", "failed", "expired",
                                      "reconciliation_required"}
      /\ Edges["detected"] = {"confirming", "confirmed", "failed", "expired", "reconciliation_required"}
      /\ Edges["confirming"] = {"confirmed", "failed", "expired", "reconciliation_required"}
  BY DEF Edges
<1>2. QED
  BY <1>1 DEF CanTransition

\* An intent moves at most four times in its life, whatever requests, events
\* and the worker do: from its first status through at most three live ones to
\* a terminal one (CryptoFunding.ts, TRANSITIONS; version is its row's).
THEOREM LifeIsShort ==
  Spec => [](\A k \in Intents : intents[k] # Null => intents[k].version \in 1..5)
<1>1. HInv => \A k \in Intents : intents[k] # Null => intents[k].version \in 1..5
  <2> SUFFICES ASSUME HInv, NEW k \in Intents, intents[k] # Null
               PROVE  intents[k].version \in 1..5
    OBVIOUS
  <2> DEFINE i == intents[k]
  <2>1. i.version \in Nat /\ i.version >= 1 /\ Chain(i)
    BY DEF HInv, Histories, Row, Chain, Intent
  <2> HIDE DEF i
  <2>2. SUFFICES ASSUME i.version >= 6
                 PROVE  FALSE
    BY <2>1 DEF i
  <2>3. \A v \in 2..6 : \E t \in i.log : t.version = v
    BY <2>1, <2>2 DEF Chain
  <2>4. \E t2, t3, t4, t5, t6 \in i.log :
          t2.version = 2 /\ t3.version = 3 /\ t4.version = 4 /\ t5.version = 5 /\ t6.version = 6
    <3>1. PICK t2 \in i.log : t2.version = 2
      BY <2>3
    <3>2. PICK t3 \in i.log : t3.version = 3
      BY <2>3
    <3>3. PICK t4 \in i.log : t4.version = 4
      BY <2>3
    <3>4. PICK t5 \in i.log : t5.version = 5
      BY <2>3
    <3>5. PICK t6 \in i.log : t6.version = 6
      BY <2>3
    <3>6. QED
      BY <3>1, <3>2, <3>3, <3>4, <3>5, Zenon
  <2>5. PICK t2 \in i.log, t3 \in i.log, t4 \in i.log, t5 \in i.log, t6 \in i.log :
          t2.version = 2 /\ t3.version = 3 /\ t4.version = 4 /\ t5.version = 5 /\ t6.version = 6
    BY <2>4, Zenon
  <2>6. /\ t2.from = "provider_pending"
        /\ t3.from = t2.to /\ t4.from = t3.to /\ t5.from = t4.to /\ t6.from = t5.to
    BY <2>1, <2>5 DEF Chain
  <2>7. /\ CanTransition(t2.from, t2.to) /\ CanTransition(t3.from, t3.to)
        /\ CanTransition(t4.from, t4.to) /\ CanTransition(t5.from, t5.to)
        /\ CanTransition(t6.from, t6.to)
    BY <2>1 DEF Chain
  <2>8. t3.from = "awaiting_payment"
    BY <2>6, <2>7, EdgesAdvance
  <2>9. t4.from \in {"detected", "confirming"}
    BY <2>6, <2>7, <2>8, EdgesAdvance
  <2>10. t5.from = "confirming"
    BY <2>6, <2>7, <2>9, EdgesAdvance
  <2>11. QED
    BY <2>6, <2>7, <2>10, EdgesAdvance
<1>2. QED
  BY <1>1, HistoryInductive, PTL

\* An intent that money can be in has a session with a known reference, and no
\* two intents one reference: the create response and the event that comes
\* before it both write reference, session and status together.
THEOREM SessionsStandBehind == Spec => []SessionBehindIntent
<1>1. ASSUME HInv
      PROVE  SessionBehindIntent
  <2>1. ASSUME NEW k \in Intents, intents[k] # Null, intents[k].ref # Null
        PROVE  Holders(intents[k].ref) = {k}
    BY <1>1, <2>1 DEF HInv, OneHolder, Holders
  <2>2. QED
    BY <1>1, <2>1 DEF HInv, Histories, Row, SessionOf, MoneyStatus, SessionBehindIntent
<1>2. QED
  BY <1>1, HistoryInductive, PTL

\* The events that advance an intent are in strictly increasing provider time,
\* none from before the intent, each received before its expiry, for any order
\* of arrival and any number of transactions in progress.
THEOREM ProgressOrdered == Spec => []ProgressInProviderOrder
<1>1. ASSUME HInv
      PROVE  ProgressInProviderOrder
  <2>1. ASSUME NEW k \in Intents, intents[k] # Null
        PROVE  /\ InOrder(intents[k], events)
               /\ intents[k].createdAt \in Nat
               /\ \A d \in Events : events[d] # Null => events[d].report.at \in Nat
    BY <1>1, <2>1 DEF HInv, Histories, Row, Intent, IInv, TypeOK, EventRow, Report
  <2>2. QED
    BY <2>1 DEF InOrder, Advances, ProgressInProviderOrder
<1>2. QED
  BY <1>1, HistoryInductive, PTL

\* Evidence that value moved always has its reconciliation record when it does
\* not match, comes too late or falls on a creation that failed.
THEOREM EvidenceRecorded == Spec => []EvidenceOnRecord
<1>1. HInv => EvidenceOnRecord
  BY DEF HInv
<1>2. QED
  BY <1>1, HistoryInductive, PTL

\* No report of a payment is set aside as stale for nothing: it is from before
\* the intent, an event that did advance the intent is as new or as far, or the
\* intent was parked, with its mismatch on record.
THEOREM StaleEvidenceExplained == Spec => []StaleEvidenceIsOvertaken
<1>1. ASSUME HInv
      PROVE  StaleEvidenceIsOvertaken
  <2>1. ASSUME NEW e \in Events, events[e] # Null, events[e].verdict = "ignored_stale",
               Moved(events[e].report)
        PROVE  LET p == events[e].report  k == events[e].intent  i == intents[k] IN
               \/ p.at < i.createdAt
               \/ \E t \in i.log :
                    /\ t.trigger = "PROVIDER_EVENT"
                    /\ \/ p.at <= events[t.event].report.at
                       \/ t.to \in DOMAIN Rank /\ Rank[TargetStatus(p)] <= Rank[t.to]
               \/ \E rec \in reconciliations : rec.intent = k /\ rec.type \in Discrepancy
    <3> DEFINE p == events[e].report
               k == events[e].intent
    <3>1. /\ k # Null
          /\ \/ intents[k].status = "reconciliation_required"
             \/ Overtaken(p, intents[k], events)
      BY <1>1, <2>1 DEF HInv, StaleExcused, Excused
    <3>2. k \in Intents /\ intents[k] # Null
      BY <1>1, <2>1, <3>1 DEF HInv, IInv, TypeOK, EventRow, EventsHaveReferences
    <3>3. CASE intents[k].status = "reconciliation_required"
      BY <1>1, <3>2, <3>3 DEF HInv, ParkedOnRecord
    <3>4. CASE Overtaken(p, intents[k], events)
      BY <3>4 DEF Overtaken, Advances
    <3>5. QED
      BY <3>1, <3>3, <3>4
  <2>2. QED
    BY <2>1 DEF StaleEvidenceIsOvertaken
<1>2. QED
  BY <1>1, HistoryInductive, PTL

\* Reconciliation records agree with the events and the intents they name, and
\* the worker leaves one exactly when it expires an intent with a payment seen.
THEOREM RecordsAgree == Spec => []ReconciliationsMatch
<1>1. ASSUME HInv
      PROVE  ReconciliationsMatch
  <2>1. ASSUME NEW rec \in reconciliations
        PROVE  /\ rec.type \in Discrepancy =>
                    /\ rec.event # Null /\ events[rec.event].verdict = "discrepancy"
                    /\ events[rec.event].report.value = rec.type
               /\ rec.type = "PAYMENT_AFTER_EXPIRY" =>
                    intents[rec.intent].status \in Terminal \ {"confirmed"}
               /\ rec.type = "PAYMENT_ON_TERMINAL_INTENT" =>
                    intents[rec.intent].status \in {"failed", "creation_failed"}
               /\ rec.type = "UNKNOWN_PROVIDER_REFERENCE" => rec.intent = Null
    BY <1>1, <2>1 DEF HInv, RecordsHold, Holds
  <2>2. QED
    BY <1>1, <2>1 DEF HInv, WorkerOnRecord, ParkedOnRecord, ExpiredWithPayment, ExpiryRecord,
                      ReconciliationsMatch
<1>2. QED
  BY <1>1, HistoryInductive, PTL

\* What is committed stays: no step changes an event, replaces an attestation
\* or loses a reconciliation record.
THEOREM RecordsStayFinal == Spec => RecordsAreFinal
<1>1. ASSUME HInv, [Next]_vars
      PROVE  /\ \A e \in Events : events[e] # Null => events'[e] = events[e]
             /\ \A k \in Intents : attestations[k] # Null => attestations'[k] = attestations[k]
             /\ reconciliations \subseteq reconciliations'
  <2>1. IInv
    BY <1>1 DEF HInv
  <2>2. EventsStay /\ \A k \in Intents : attestations[k] # Null => attestations'[k] = attestations[k]
    <3>1. CASE QuietStep
      BY <3>1 DEF QuietStep
    <3>2. CASE \E k \in Intents, h \in Hashes : CreateStep(k, h)
      BY <3>2 DEF CreateStep, EventsStay
    <3>3. CASE \E e \in Events, k \in Intents : ConfirmStep(e, k)
      BY <2>1, <3>3 DEF ConfirmStep, IInv, TypeOK
    <3>4. QED
      BY <1>1, <2>1, <3>1, <3>2, <3>3, StepKinds
  <2>3. reconciliations \subseteq reconciliations'
    BY <1>1, RecordKinds DEF UnrecordedStep, UnmatchedStep, RuledStep, Ruling, Record, Expire
  <2>4. QED
    BY <2>2, <2>3 DEF EventsStay
<1>2. QED
  BY <1>1, HistoryInductive, PTL DEF Spec, RecordsAreFinal

=============================================================================
