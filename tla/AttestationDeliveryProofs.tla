--------------------- MODULE AttestationDeliveryProofs ---------------------
(***************************************************************************)
(* Proofs about AttestationDelivery.  StatusIsLatestAttempt and            *)
(* GivenUpInTime are not inductive: a step that records an outcome is only *)
(* right because the lease it holds is the row's latest attempt, no entry  *)
(* of the log is ahead of the row, an answer still in a worker's hands is  *)
(* true of Financial, and an attempt that will never be recorded has been  *)
(* paid for with a slip.  These four facts complete the invariant.         *)
(***************************************************************************)
EXTENDS AttestationDelivery, TLAPS

RowsConsistent ==
  \A a \in Attestations :
    /\ a \in Legacy => rows[a].status \in {"pending", "legacy_reconciliation_required"}
    /\ a \notin Legacy => rows[a].status # "legacy_reconciliation_required"
    /\ rows[a].status = "pending" => rows[a].attempts = 0
    /\ rows[a].status = "leased" => rows[a].lease = rows[a].attempts

LogBehind ==
  \A a \in Attestations :
    /\ rows[a].status = "pending" => log[a] = {}
    /\ \A e \in log[a] : /\ e.number <= rows[a].attempts
                         /\ rows[a].status = "leased" => e.number < rows[a].attempts

WorkConsistent ==
  \A w \in Workers :
    /\ w \in polling => work[w] = Null
    /\ work[w] # Null => /\ work[w].row \notin Legacy
                         /\ work[w].number <= rows[work[w].row].attempts

AnswersTrue ==
  \A w \in Workers : work[w] # Null /\ work[w].stage = "answered" =>
    /\ work[w].answer \in Answer
    /\ work[w].answer.outcome \in Success => financial[work[w].row] # "none"
    /\ work[w].answer.outcome \in Success /\ work[w].answer.ledger
         => financial[work[w].row] = "posted"

FiledWasSent == \A a \in Attestations : financial[a] # "none" => a \in sent

\* The attempt of worker w on row a can still be recorded.
Recordable(w, a) ==
  /\ work[w] # Null
  /\ work[w].row = a
  /\ work[w].number = rows[a].attempts
  /\ ~(/\ work[w].stage = "answered"
       /\ work[w].answer.outcome = "accepted"
       /\ ~work[w].answer.ledger)

SlipsPaid ==
  \A a \in Attestations :
    rows[a].status = "leased" /\ (rows[a].ready \/ \A w \in Workers : ~Recordable(w, a))
      => rows[a].attempts < MaxAttempts + slips

IInv == /\ TypeOK
        /\ RowsConsistent
        /\ LogBehind
        /\ WorkConsistent
        /\ AnswersTrue
        /\ FiledWasSent
        /\ SlipsPaid
        /\ StatusIsLatestAttempt
        /\ FailureReportedOnce
        /\ GivenUpInTime

-----------------------------------------------------------------------------
(* Steps that leave the rows and their history alone.                      *)

LEMMA InitInvariant == Init => IInv
  <1> SUFFICES ASSUME Init PROVE IInv
    OBVIOUS
  <1> USE DeliveryAssumption, NullAssumption
  <1>1. TypeOK
    BY SMT DEF Init, TypeOK, Row, Status, Settled, Entry, AckShape
  <1>2. RowsConsistent /\ LogBehind /\ WorkConsistent /\ AnswersTrue /\ FiledWasSent /\ SlipsPaid
    BY DEF Init, RowsConsistent, LogBehind, WorkConsistent, AnswersTrue, FiledWasSent, SlipsPaid
  <1>3. StatusIsLatestAttempt /\ FailureReportedOnce /\ GivenUpInTime
    BY DEF Init, StatusIsLatestAttempt, FailureReportedOnce, GivenUpInTime, Settled
  <1> QED
    BY <1>1, <1>2, <1>3 DEF IInv

LEMMA RowsUntouched ==
  ASSUME IInv, UNCHANGED <<rows, log, reports>>, slips' \in Nat, slips <= slips'
  PROVE  /\ RowsConsistent'
         /\ LogBehind'
         /\ StatusIsLatestAttempt'
         /\ FailureReportedOnce'
         /\ GivenUpInTime'
  <1>1. RowsConsistent' /\ LogBehind'
    BY DEF IInv, RowsConsistent, LogBehind
  <1>2. StatusIsLatestAttempt' /\ FailureReportedOnce'
    BY DEF IInv, StatusIsLatestAttempt, FailureReportedOnce
  <1>3. GivenUpInTime'
    BY DeliveryAssumption DEF IInv, GivenUpInTime, TypeOK, Row
  <1> QED
    BY <1>1, <1>2, <1>3

\* A worker that drops an attempt nothing can be recorded of any more.
LEMMA DropPreserves ==
  ASSUME IInv, NEW w \in Workers,
         work[w] # Null => ~Recordable(w, work[w].row) \/ rows[work[w].row].status # "leased" \/ slips' = slips + 1,
         work' = [work EXCEPT ![w] = Null], polling' \subseteq polling,
         slips' = slips \/ slips' = slips + 1, slips' \in 0..MaxSlips,
         UNCHANGED <<rows, log, reports, sent, financial>>
  PROVE  IInv'
  <1> USE DeliveryAssumption, NullAssumption
  <1>1. TypeOK'
    BY DEF IInv, TypeOK, AckShape
  <1>2. /\ RowsConsistent' /\ LogBehind' /\ StatusIsLatestAttempt'
        /\ FailureReportedOnce' /\ GivenUpInTime'
    BY RowsUntouched DEF IInv, TypeOK
  <1>3. WorkConsistent' /\ AnswersTrue' /\ FiledWasSent'
    BY DEF IInv, TypeOK, WorkConsistent, AnswersTrue, FiledWasSent
  <1>4. SlipsPaid'
    <2> SUFFICES ASSUME NEW a \in Attestations, rows[a].status = "leased",
                        rows[a].ready \/ \A v \in Workers : ~Recordable(v, a)'
                 PROVE  rows[a].attempts < MaxAttempts + slips'
      BY DEF SlipsPaid
    <2>1. rows[a].attempts \in Nat /\ slips \in Nat
      BY DEF IInv, TypeOK, Row
    <2>2. CASE slips' = slips + 1
      BY <2>1, <2>2 DEF IInv, GivenUpInTime
    <2>3. CASE slips' = slips
      <3>1. \A v \in Workers \ {w} : Recordable(v, a) => Recordable(v, a)'
        BY DEF IInv, TypeOK, Recordable
      <3>2. ~Recordable(w, a)
        BY <2>1, <2>3 DEF Recordable
      <3> QED
        BY <2>3, <3>1, <3>2 DEF IInv, SlipsPaid
    <2> QED
      BY <2>2, <2>3
  <1> QED
    BY <1>1, <1>2, <1>3, <1>4 DEF IInv

LEMMA SlipPreserves ==
  ASSUME IInv, NEW w \in Workers, Slip(w)
  PROVE  IInv'
  <1>1. slips' \in 0..MaxSlips
    BY DeliveryAssumption DEF IInv, TypeOK, Slip
  <1> QED
    BY <1>1, DropPreserves DEF Slip

LEMMA LoseLeasePreserves ==
  ASSUME IInv, NEW w \in Workers, LoseLease(w)
  PROVE  IInv'
  <1>1. ~Recordable(w, work[w].row) \/ rows[work[w].row].status # "leased"
    <2>1. work[w].row \in Attestations
      BY DEF IInv, TypeOK, Attempt, LoseLease, Answered
    <2> QED
      BY <2>1 DEF IInv, RowsConsistent, LoseLease, Holds, Recordable
  <1> QED
    BY <1>1, DropPreserves DEF LoseLease, IInv, TypeOK

LEMMA RefuseAcknowledgementPreserves ==
  ASSUME IInv, NEW w \in Workers, RefuseAcknowledgement(w)
  PROVE  IInv'
  <1>1. ~Recordable(w, work[w].row)
    <2>1. /\ work[w] # Null /\ work[w].stage = "answered"
          /\ work[w].answer.outcome \in Success
          /\ ~AckShape(Verdict(work[w].answer), work[w].answer.ledger)
      BY DEF RefuseAcknowledgement, Answered
    <2>2. work[w].answer.outcome = "accepted" /\ ~work[w].answer.ledger
      BY <2>1 DEF AckShape, Verdict, Success
    <2> QED
      BY <2>1, <2>2 DEF Recordable
  <1> QED
    BY <1>1, DropPreserves DEF RefuseAcknowledgement, IInv, TypeOK

LEMMA FindNothingPreserves ==
  ASSUME IInv, NEW w \in Workers, FindNothing(w)
  PROVE  IInv'
  <1>1. TypeOK'
    BY DEF IInv, TypeOK, FindNothing, AckShape
  <1>2. /\ RowsConsistent' /\ LogBehind' /\ StatusIsLatestAttempt'
        /\ FailureReportedOnce' /\ GivenUpInTime'
    BY RowsUntouched DEF IInv, TypeOK, FindNothing
  <1>3. WorkConsistent' /\ AnswersTrue' /\ FiledWasSent' /\ SlipsPaid'
    BY DEF IInv, FindNothing, WorkConsistent, AnswersTrue, FiledWasSent, SlipsPaid, Recordable
  <1> QED
    BY <1>1, <1>2, <1>3 DEF IInv

LEMMA SendPreserves ==
  ASSUME IInv, NEW w \in Workers, Send(w)
  PROVE  IInv'
  <1> USE DeliveryAssumption, NullAssumption
  <1>0. /\ work[w] \in Attempt /\ work[w].row \notin Legacy /\ work[w].stage = "claimed"
        /\ work' = [work EXCEPT ![w].stage = "sent"]
    BY DEF IInv, TypeOK, WorkConsistent, Send
  <1>1. TypeOK'
    <2>1. work' \in [Workers -> Attempt \cup {Null}]
      BY <1>0 DEF IInv, TypeOK, Attempt
    <2>2. sent' \subseteq Attestations \ Legacy
      BY <1>0 DEF IInv, TypeOK, Attempt, Send
    <2> QED
      BY <2>1, <2>2 DEF IInv, TypeOK, Send, AckShape
  <1>2. /\ RowsConsistent' /\ LogBehind' /\ StatusIsLatestAttempt'
        /\ FailureReportedOnce' /\ GivenUpInTime'
    BY RowsUntouched DEF IInv, TypeOK, Send
  <1>3. WorkConsistent' /\ AnswersTrue' /\ FiledWasSent'
    BY <1>0 DEF IInv, TypeOK, Attempt, Send, WorkConsistent, AnswersTrue, FiledWasSent
  <1>4. SlipsPaid'
    <2>1. \A v \in Workers, a \in Attestations : Recordable(v, a) => Recordable(v, a)'
      BY <1>0 DEF IInv, TypeOK, Attempt, Send, Recordable
    <2> QED
      BY <2>1 DEF IInv, SlipsPaid, Send
  <1> QED
    BY <1>1, <1>2, <1>3, <1>4 DEF IInv

\* The worker w is answered, truthfully.
LEMMA AnswerPreserves ==
  ASSUME IInv, NEW w \in Workers, NEW answer \in Answer,
         work[w] # Null, work[w].stage = "sent",
         work' = [work EXCEPT ![w].stage = "answered", ![w].answer = answer],
         answer.outcome \in Success => financial[work[w].row] # "none",
         answer.outcome \in Success /\ answer.ledger => financial[work[w].row] = "posted",
         \/ slips' = slips /\ ~(answer.outcome = "accepted" /\ ~answer.ledger)
         \/ slips' = slips + 1,
         slips' \in 0..MaxSlips,
         UNCHANGED <<rows, log, reports, polling, sent, financial>>
  PROVE  IInv'
  <1> USE DeliveryAssumption, NullAssumption
  <1>0. work[w] \in Attempt /\ work[w].row \in Attestations
    BY DEF IInv, TypeOK, Attempt
  <1>1. TypeOK'
    <2>1. work' \in [Workers -> Attempt \cup {Null}]
      BY <1>0 DEF IInv, TypeOK, Attempt
    <2> QED
      BY <2>1 DEF IInv, TypeOK, AckShape
  <1>2. /\ RowsConsistent' /\ LogBehind' /\ StatusIsLatestAttempt'
        /\ FailureReportedOnce' /\ GivenUpInTime'
    BY RowsUntouched DEF IInv, TypeOK
  <1>3. WorkConsistent' /\ FiledWasSent'
    BY <1>0 DEF IInv, TypeOK, Attempt, WorkConsistent, FiledWasSent
  <1>4. AnswersTrue'
    BY <1>0 DEF IInv, TypeOK, Attempt, AnswersTrue
  <1>5. SlipsPaid'
    <2> SUFFICES ASSUME NEW a \in Attestations, rows[a].status = "leased",
                        rows[a].ready \/ \A v \in Workers : ~Recordable(v, a)'
                 PROVE  rows[a].attempts < MaxAttempts + slips'
      BY DEF SlipsPaid
    <2>1. rows[a].attempts \in Nat /\ slips \in Nat
      BY DEF IInv, TypeOK, Row
    <2>2. CASE slips' = slips + 1
      BY <2>1, <2>2 DEF IInv, GivenUpInTime
    <2>3. CASE slips' = slips /\ ~(answer.outcome = "accepted" /\ ~answer.ledger)
      <3>1. \A v \in Workers : Recordable(v, a) => Recordable(v, a)'
        BY <1>0, <2>3 DEF IInv, TypeOK, Attempt, Recordable
      <3> QED
        BY <2>3, <3>1 DEF IInv, SlipsPaid
    <2> QED
      BY <2>2, <2>3
  <1> QED
    BY <1>1, <1>2, <1>3, <1>4, <1>5 DEF IInv

LEMMA GetAnswerPreserves ==
  ASSUME IInv, NEW w \in Workers, GetAnswer(w)
  PROVE  IInv'
  <1>1. PICK answer \in Answers(work[w].row) :
               work' = [work EXCEPT ![w].stage = "answered", ![w].answer = answer]
    BY DEF GetAnswer
  <1>2. /\ answer \in Answer
        /\ answer.outcome \in Success => financial[work[w].row] # "none"
        /\ answer.outcome \in Success /\ answer.ledger => financial[work[w].row] = "posted"
        /\ ~(answer.outcome = "accepted" /\ ~answer.ledger)
    BY <1>1 DEF Answers, Answer, Success, Failure
  <1> QED
    BY <1>1, <1>2, AnswerPreserves DEF GetAnswer, IInv, TypeOK

LEMMA GetUnrecordablePreserves ==
  ASSUME IInv, NEW w \in Workers, GetUnrecordable(w)
  PROVE  IInv'
  <1>1. /\ Unrecordable \in Answer
        /\ financial[work[w].row] # "none"
        /\ ~Unrecordable.ledger
    BY DEF Unrecordable, Answer, Success, GetUnrecordable
  <1>2. slips' \in 0..MaxSlips
    BY DeliveryAssumption DEF IInv, TypeOK, GetUnrecordable
  <1> QED
    BY <1>1, <1>2, AnswerPreserves DEF GetUnrecordable

\* Financial only ever learns more about an attestation it was sent.
LEMMA FinancialPreserves ==
  ASSUME IInv, NEW a \in sent, NEW s \in {"held", "posted"},
         financial[a] # "posted",
         financial' = [financial EXCEPT ![a] = s],
         UNCHANGED <<rows, log, reports, work, polling, sent, slips>>
  PROVE  IInv'
  <1>1. TypeOK'
    BY DEF IInv, TypeOK, AckShape
  <1>2. /\ RowsConsistent' /\ LogBehind' /\ StatusIsLatestAttempt'
        /\ FailureReportedOnce' /\ GivenUpInTime'
    BY RowsUntouched DEF IInv, TypeOK
  <1>3. WorkConsistent' /\ FiledWasSent' /\ SlipsPaid'
    BY DEF IInv, TypeOK, WorkConsistent, FiledWasSent, SlipsPaid, Recordable
  <1>4. AnswersTrue'
    <2>1. \A w \in Workers : work[w] # Null => work[w].row \in Attestations
      BY DEF IInv, TypeOK, Attempt
    <2> QED
      BY <2>1 DEF IInv, TypeOK, AnswersTrue
  <1> QED
    BY <1>1, <1>2, <1>3, <1>4 DEF IInv

LEMMA FilePreserves ==
  ASSUME IInv, NEW a \in Attestations, File(a) \/ Post(a)
  PROVE  IInv'
  <1>1. CASE File(a)
    BY <1>1, FinancialPreserves DEF File
  <1>2. CASE Post(a)
    <2>1. a \in sent
      BY <1>2 DEF Post, IInv, FiledWasSent
    <2> QED
      BY <1>2, <2>1, FinancialPreserves DEF Post
  <1> QED
    BY <1>1, <1>2

-----------------------------------------------------------------------------
(* Steps that change a row.                                                *)

\* One row becomes ready; a lease that lapses under its holder costs a slip.
LEMMA ReadyPreserves ==
  ASSUME IInv, NEW a \in Attestations,
         rows' = [rows EXCEPT ![a].ready = TRUE],
         rows[a].status = "retry_wait" \/ (rows[a].status = "leased" /\ (InHand(a) => slips' = slips + 1)),
         slips' = slips \/ slips' = slips + 1, slips' \in 0..MaxSlips,
         UNCHANGED <<log, reports, work, polling, sent, financial>>
  PROVE  IInv'
  <1> USE DeliveryAssumption, NullAssumption
  <1>0. /\ rows[a] \in Row
        /\ \A b \in Attestations : /\ rows'[b].status = rows[b].status
                                   /\ rows'[b].attempts = rows[b].attempts
                                   /\ rows'[b].lease = rows[b].lease
                                   /\ rows'[b].ledger = rows[b].ledger
                                   /\ b # a => rows'[b].ready = rows[b].ready
    <2>1. rows \in [Attestations -> Row] /\ rows[a] \in Row
      BY DEF IInv, TypeOK
    <2>2. rows'[a] = [rows[a] EXCEPT !.ready = TRUE]
      BY <2>1
    <2>3. \A b \in Attestations \ {a} : rows'[b] = rows[b]
      BY <2>1
    <2> QED
      BY <2>1, <2>2, <2>3 DEF Row
  <1>1. TypeOK'
    <2>1. rows' \in [Attestations -> Row]
      BY <1>0 DEF IInv, TypeOK, Row
    <2> QED
      BY <1>0, <2>1 DEF IInv, TypeOK, AckShape
  <1>2. RowsConsistent' /\ LogBehind' /\ StatusIsLatestAttempt' /\ FailureReportedOnce'
    BY <1>0 DEF IInv, RowsConsistent, LogBehind, StatusIsLatestAttempt, FailureReportedOnce
  <1>3. WorkConsistent' /\ AnswersTrue' /\ FiledWasSent'
    <2>1. \A w \in Workers : work[w] # Null => work[w].row \in Attestations
      BY DEF IInv, TypeOK, Attempt
    <2> QED
      BY <1>0, <2>1 DEF IInv, WorkConsistent, AnswersTrue, FiledWasSent
  <1>4. GivenUpInTime'
    BY <1>0 DEF IInv, GivenUpInTime, TypeOK, Row
  <1>5. SlipsPaid'
    <2> SUFFICES ASSUME NEW b \in Attestations, rows[b].status = "leased",
                        rows'[b].ready \/ \A w \in Workers : ~Recordable(w, b)'
                 PROVE  rows[b].attempts < MaxAttempts + slips'
      BY <1>0 DEF SlipsPaid
    <2>1. rows[b].attempts \in Nat /\ slips \in Nat
      BY DEF IInv, TypeOK, Row
    <2>2. CASE slips' = slips + 1
      BY <2>1, <2>2 DEF IInv, GivenUpInTime
    <2>3. CASE slips' = slips
      <3>1. \A w \in Workers : Recordable(w, b) <=> Recordable(w, b)'
        BY <1>0 DEF Recordable
      <3>2. CASE b # a
        BY <1>0, <2>3, <3>1, <3>2 DEF IInv, SlipsPaid
      <3>3. CASE b = a
        <4>1. ~InHand(a)
          BY <2>1, <2>3, <3>3
        <4>2. \A w \in Workers : ~Recordable(w, a)
          BY <3>3, <4>1 DEF IInv, RowsConsistent, InHand, Holds, Recordable
        <4> QED
          BY <2>3, <3>3, <4>2 DEF IInv, SlipsPaid
      <3> QED
        BY <3>2, <3>3
    <2> QED
      BY <2>2, <2>3
  <1> QED
    BY <1>1, <1>2, <1>3, <1>4, <1>5 DEF IInv

LEMMA RetryDuePreserves ==
  ASSUME IInv, NEW a \in Attestations, RetryDue(a)
  PROVE  IInv'
  BY ReadyPreserves DEF RetryDue, IInv, TypeOK

LEMMA LeaseLapsesPreserves ==
  ASSUME IInv, NEW a \in Attestations, LeaseLapses(a)
  PROVE  IInv'
  <1>1. slips' \in 0..MaxSlips
    BY DeliveryAssumption DEF IInv, TypeOK, LeaseLapses
  <1> QED
    BY <1>1, ReadyPreserves DEF LeaseLapses

LEMMA QuarantinePreserves ==
  ASSUME IInv, NEW w \in Workers, QuarantineLegacyRows(w)
  PROVE  IInv'
  <1> USE DeliveryAssumption, NullAssumption
  <1>0. /\ rows' \in [Attestations -> Row]
        /\ \A a \in Attestations \ Legacy : rows'[a] = rows[a]
        /\ \A a \in Legacy : /\ rows'[a].status = "legacy_reconciliation_required"
                             /\ rows'[a].attempts = rows[a].attempts
                             /\ rows'[a].ledger = rows[a].ledger
                             /\ rows'[a].lease = Null
    <2>1. \A a \in Legacy : /\ rows[a].status \in {"pending", "legacy_reconciliation_required"}
                            /\ rows[a].lease = Null /\ rows[a] \in Row
      BY DEF IInv, RowsConsistent, TypeOK
    <2>2. rows' = [a \in Attestations |->
                     IF a \in Legacy /\ Open(a)
                     THEN [rows[a] EXCEPT !.status = "legacy_reconciliation_required",
                                          !.lease = Null, !.ready = FALSE]
                     ELSE rows[a]]
      BY DEF QuarantineLegacyRows
    <2>3. \A a \in Attestations \ Legacy : rows'[a] = rows[a]
      BY <2>2
    <2>4. \A a \in Legacy : /\ rows'[a].status = "legacy_reconciliation_required"
                            /\ rows'[a].attempts = rows[a].attempts
                            /\ rows'[a].ledger = rows[a].ledger
                            /\ rows'[a].lease = Null
                            /\ rows'[a] \in Row
      <3> SUFFICES ASSUME NEW a \in Legacy
                   PROVE  /\ rows'[a].status = "legacy_reconciliation_required"
                          /\ rows'[a].attempts = rows[a].attempts
                          /\ rows'[a].ledger = rows[a].ledger
                          /\ rows'[a].lease = Null
                          /\ rows'[a] \in Row
        OBVIOUS
      <3>1. rows[a] \in Row /\ a \in Attestations
        BY <2>1
      <3>2. CASE Open(a)
        <4>1. rows'[a] = [rows[a] EXCEPT !.status = "legacy_reconciliation_required",
                                         !.lease = Null, !.ready = FALSE]
          BY <2>2, <3>1, <3>2
        <4> QED
          BY <3>1, <4>1 DEF Row, Status, Settled
      <3>3. CASE ~Open(a)
        <4>1. rows'[a] = rows[a]
          BY <2>2, <3>1, <3>3
        <4> QED
          BY <2>1, <3>1, <3>3, <4>1 DEF Open
      <3> QED
        BY <3>2, <3>3
    <2>5. \A a \in Attestations : rows'[a] \in Row
      BY <2>3, <2>4 DEF IInv, TypeOK
    <2>6. rows' \in [Attestations -> Row]
      BY <2>2, <2>5
    <2> QED
      BY <2>3, <2>4, <2>6
  <1>1. TypeOK'
    <2>1. \A a \in Attestations : /\ rows'[a].status = "leased" <=> rows'[a].lease # Null
                                  /\ AckShape(rows'[a].status, rows'[a].ledger)
      <3> SUFFICES ASSUME NEW a \in Attestations
                   PROVE  /\ rows'[a].status = "leased" <=> rows'[a].lease # Null
                          /\ AckShape(rows'[a].status, rows'[a].ledger)
        OBVIOUS
      <3>1. CASE a \in Legacy
        BY <1>0, <3>1 DEF AckShape
      <3>2. CASE a \notin Legacy
        BY <1>0, <3>2 DEF IInv, TypeOK, AckShape
      <3> QED
        BY <3>1, <3>2
    <2>2. polling' \subseteq Workers /\ UNCHANGED <<log, reports, work, sent, financial, slips>>
      BY DEF IInv, TypeOK, QuarantineLegacyRows
    <2> QED
      BY <1>0, <2>1, <2>2 DEF IInv, TypeOK, AckShape
  <1>2. RowsConsistent' /\ LogBehind'
    <2>1. UNCHANGED log
      BY DEF QuarantineLegacyRows
    <2> QED
      BY <1>0, <2>1 DEF IInv, RowsConsistent, LogBehind
  <1>3. WorkConsistent' /\ AnswersTrue' /\ FiledWasSent'
    <2>1. \A v \in Workers : work[v] # Null => work[v].row \in Attestations
      BY DEF IInv, TypeOK, Attempt
    <2> QED
      BY <1>0, <2>1 DEF IInv, WorkConsistent, AnswersTrue, FiledWasSent, QuarantineLegacyRows
  <1>4. StatusIsLatestAttempt' /\ FailureReportedOnce' /\ GivenUpInTime'
    <2>1. UNCHANGED <<log, reports, slips>>
      BY DEF QuarantineLegacyRows
    <2>2. \A a \in Legacy : rows[a].status # "dead_letter"
      BY DEF IInv, RowsConsistent
    <2>3. StatusIsLatestAttempt'
      <3> SUFFICES ASSUME NEW b \in Attestations \ Legacy
                   PROVE  /\ \A e \in log'[b] : e.number = rows'[b].attempts
                                                  => rows'[b].status = StatusOf[e.outcome]
                          /\ rows'[b].status \in {"retry_wait"} \cup Settled
                               => \E e \in log'[b] : e.number = rows'[b].attempts
                          /\ \A e, f \in log'[b] : e.number = f.number => e = f
        BY DEF StatusIsLatestAttempt
      <3>1. rows'[b] = rows[b] /\ log'[b] = log[b]
        BY <1>0, <2>1
      <3>2. /\ \A e \in log[b] : e.number = rows[b].attempts => rows[b].status = StatusOf[e.outcome]
            /\ rows[b].status \in {"retry_wait"} \cup Settled => \E e \in log[b] : e.number = rows[b].attempts
            /\ \A e, f \in log[b] : e.number = f.number => e = f
        BY DEF IInv, StatusIsLatestAttempt
      <3> QED
        BY <3>1, <3>2, Zenon
    <2>4. FailureReportedOnce'
      BY <1>0, <2>1, <2>2 DEF IInv, FailureReportedOnce
    <2>5. GivenUpInTime'
      BY <1>0, <2>1 DEF IInv, GivenUpInTime
    <2> QED
      BY <2>3, <2>4, <2>5
  <1>5. SlipsPaid'
    <2>1. \A a \in Attestations \ Legacy, v \in Workers : Recordable(v, a) <=> Recordable(v, a)'
      BY <1>0 DEF Recordable, QuarantineLegacyRows
    <2> QED
      BY <1>0, <2>1 DEF IInv, SlipsPaid, QuarantineLegacyRows
  <1> QED
    BY <1>1, <1>2, <1>3, <1>4, <1>5 DEF IInv

LEMMA ClaimPreserves ==
  ASSUME IInv, NEW w \in Workers, NEW a \in Attestations, Claim(w, a)
  PROVE  IInv'
  <1> USE DeliveryAssumption, NullAssumption
  <1> DEFINE n == rows[a].attempts + 1
             attempt == [row |-> a, number |-> n, stage |-> "claimed", answer |-> Null]
  <1>0. /\ rows[a] \in Row /\ a \notin Legacy
        /\ rows[a].status \in {"pending", "retry_wait", "leased"} /\ rows[a].ready
        /\ rows' = [rows EXCEPT ![a].status = "leased", ![a].attempts = rows[a].attempts + 1,
                                ![a].lease = rows[a].attempts + 1, ![a].ready = FALSE]
        /\ work' = [work EXCEPT ![w] = attempt]
        /\ attempt \in Attempt
        /\ UNCHANGED <<log, reports, sent, financial, slips>>
    BY DEF IInv, TypeOK, Row, Attempt, Claim, Claimable
  <1>a. /\ rows' \in [Attestations -> Row]
        /\ rows'[a].status = "leased" /\ rows'[a].attempts = n /\ rows'[a].lease = n
        /\ rows'[a].ready = FALSE
        /\ \A b \in Attestations \ {a} : rows'[b] = rows[b]
        /\ n \in Nat /\ rows[a].attempts < n
    BY <1>0 DEF IInv, TypeOK, Row, Status
  <1> HIDE DEF n
  <1>b. /\ work' \in [Workers -> Attempt \cup {Null}]
        /\ work'[w] = attempt
        /\ \A v \in Workers \ {w} : work'[v] = work[v]
    BY <1>0 DEF IInv, TypeOK
  <1>c. \A v \in Workers : work'[v] # Null => work'[v].row \in Attestations
    BY <1>b DEF Attempt
  <1>1. TypeOK'
    BY <1>0, <1>a, <1>b DEF IInv, TypeOK, AckShape, Claim
  <1>2. RowsConsistent'
    BY <1>0, <1>a DEF IInv, RowsConsistent
  <1>3. LogBehind'
    <2> SUFFICES ASSUME NEW b \in Attestations
                 PROVE  /\ rows'[b].status = "pending" => log[b] = {}
                        /\ \A e \in log[b] : /\ e.number <= rows'[b].attempts
                                             /\ rows'[b].status = "leased" => e.number < rows'[b].attempts
      BY <1>0 DEF LogBehind
    <2>1. CASE b # a
      BY <1>a, <2>1 DEF IInv, LogBehind
    <2>2. CASE b = a
      <3>1. \A e \in log[a] : e.number \in Nat /\ e.number <= rows[a].attempts
        BY DEF IInv, TypeOK, Entry, LogBehind
      <3>2. rows[a].attempts \in Nat
        BY <1>0 DEF Row
      <3> QED
        BY <1>a, <2>2, <3>1, <3>2
    <2> QED
      BY <2>1, <2>2
  <1>4. WorkConsistent'
    <2>0. \A v \in polling' : work'[v] = Null
      BY <1>b DEF IInv, TypeOK, WorkConsistent, Claim
    <2> SUFFICES ASSUME NEW v \in Workers, work'[v] # Null
                 PROVE  work'[v].row \notin Legacy /\ work'[v].number <= rows'[work'[v].row].attempts
      BY <2>0 DEF WorkConsistent
    <2>1. CASE v = w
      <3>1. work'[w].row = a /\ work'[w].number = n
        BY <1>b
      <3> QED
        BY <1>0, <1>a, <2>1, <3>1
    <2>2. CASE v # w
      <3>1. /\ work[v].row \notin Legacy /\ work[v].row \in Attestations
            /\ work[v].number \in Nat /\ work[v].number <= rows[work[v].row].attempts
        BY <1>b, <2>2 DEF IInv, WorkConsistent, TypeOK, Attempt
      <3>2. work'[v] = work[v]
        BY <1>b, <2>2
      <3>3. CASE work[v].row = a
        <4>1. rows[a].attempts \in Nat /\ work[v].number <= rows[a].attempts
          BY <1>0, <3>1, <3>3 DEF Row
        <4>2. work[v].number <= n
          BY <1>a, <3>1, <4>1
        <4> QED
          BY <1>a, <3>1, <3>2, <3>3, <4>2
      <3>4. CASE work[v].row # a
        BY <1>a, <3>1, <3>2, <3>4
      <3> QED
        BY <3>3, <3>4
    <2> QED
      BY <2>1, <2>2
  <1>5. AnswersTrue' /\ FiledWasSent'
    BY <1>0, <1>b DEF IInv, AnswersTrue, FiledWasSent
  <1>6. StatusIsLatestAttempt'
    <2> SUFFICES ASSUME NEW b \in Attestations \ Legacy
                 PROVE  /\ \A e \in log[b] : e.number = rows'[b].attempts
                                               => rows'[b].status = StatusOf[e.outcome]
                        /\ rows'[b].status \in {"retry_wait"} \cup Settled
                             => \E e \in log[b] : e.number = rows'[b].attempts
                        /\ \A e, f \in log[b] : e.number = f.number => e = f
      BY <1>0 DEF StatusIsLatestAttempt
    <2>1. CASE b # a
      BY <1>a, <2>1 DEF IInv, StatusIsLatestAttempt
    <2>2. CASE b = a
      <3>1. \A e \in log[a] : e.number # n
        BY <1>a, <1>3, <1>0 DEF LogBehind, IInv, TypeOK, Entry
      <3>2. \A e, f \in log[a] : e.number = f.number => e = f
        BY <1>0 DEF IInv, StatusIsLatestAttempt
      <3> QED
        BY <1>a, <2>2, <3>1, <3>2 DEF Settled
    <2> QED
      BY <2>1, <2>2
  <1>7. FailureReportedOnce'
    BY <1>0, <1>a DEF IInv, FailureReportedOnce
  <1>8. n <= MaxAttempts + slips
    <2>1. rows[a].attempts \in Nat /\ slips \in Nat
      BY <1>0 DEF IInv, TypeOK, Row
    <2>2. rows[a].attempts < MaxAttempts + slips
      BY <1>0, <2>1 DEF IInv, RowsConsistent, GivenUpInTime, SlipsPaid
    <2> QED
      BY <2>1, <2>2 DEF n
  <1>9. GivenUpInTime'
    BY <1>0, <1>a, <1>8 DEF IInv, GivenUpInTime
  <1>10. SlipsPaid'
    <2> SUFFICES ASSUME NEW b \in Attestations, rows'[b].status = "leased",
                        rows'[b].ready \/ \A v \in Workers : ~Recordable(v, b)'
                 PROVE  rows'[b].attempts < MaxAttempts + slips
      BY <1>0 DEF SlipsPaid
    <2>1. CASE b = a
      <3>1. Recordable(w, a)'
        BY <1>0, <1>a, <1>b DEF Recordable
      <3> QED
        BY <1>a, <2>1, <3>1
    <2>2. CASE b # a
      <3>1. \A v \in Workers \ {w} : Recordable(v, b) => Recordable(v, b)'
        BY <1>a, <1>b, <2>2 DEF Recordable
      <3>2. ~Recordable(w, b)
        BY DEF IInv, WorkConsistent, Claim, Recordable
      <3> QED
        BY <1>a, <2>2, <3>1, <3>2 DEF IInv, SlipsPaid
    <2> QED
      BY <2>1, <2>2
  <1> QED
    BY <1>1, <1>2, <1>3, <1>4, <1>5, <1>6, <1>7, <1>9, <1>10 DEF IInv

-----------------------------------------------------------------------------
(* Recording.  Both records take a row from "leased" to the status of an   *)
(* outcome, and note that outcome under the attempt that held the lease.   *)

LEMMA RecordPreserves ==
  ASSUME IInv, NEW w \in Workers, NEW outcome \in Outcome, NEW row \in Row,
         Answered(w), Holds(w),
         outcome = "acknowledged" => row.ledger,
         outcome = "retryable_failure" => work[w].number < MaxAttempts,
         row.status = StatusOf[outcome],
         row.attempts = rows[work[w].row].attempts,
         row.lease = Null,
         rows' = [rows EXCEPT ![work[w].row] = row],
         Noted(work[w].row, work[w].number, outcome),
         reports' = [reports EXCEPT ![work[w].row] = IF outcome = "permanent_failure" THEN @ + 1 ELSE @],
         work' = [work EXCEPT ![w] = Null],
         UNCHANGED <<polling, sent, financial, slips>>
  PROVE  IInv'
  <1> USE DeliveryAssumption, NullAssumption
  <1> DEFINE a == work[w].row
             n == work[w].number
             entry == [number |-> n, outcome |-> outcome]
  <1>0. /\ work[w] \in Attempt /\ a \in Attestations /\ a \notin Legacy /\ n \in Nat
        /\ rows[a] \in Row /\ rows[a].status = "leased" /\ rows[a].attempts = n
    BY DEF IInv, TypeOK, Attempt, Answered, Holds, WorkConsistent, RowsConsistent
  <1>a. /\ StatusOf[outcome] \in Status \ {"pending", "leased", "legacy_reconciliation_required"}
        /\ StatusOf[outcome] \in {"retry_wait"} \cup Settled
        /\ StatusOf[outcome] \notin {"pending", "leased", "legacy_reconciliation_required"}
        /\ StatusOf[outcome] = "dead_letter" <=> outcome = "permanent_failure"
        /\ StatusOf[outcome] = "acknowledged" <=> outcome = "acknowledged"
        /\ StatusOf[outcome] = "retry_wait" <=> outcome = "retryable_failure"
    BY DEF StatusOf, Status, Settled, Outcome
  <1>b. /\ rows' \in [Attestations -> Row]
        /\ rows'[a].status = StatusOf[outcome] /\ rows'[a].attempts = n
        /\ rows'[a].lease = Null /\ rows'[a].ledger = row.ledger
        /\ \A b \in Attestations \ {a} : rows'[b] = rows[b]
    BY <1>0, <1>a DEF IInv, TypeOK, Row
  <1>c. /\ entry \in Entry /\ entry.number = n /\ entry.outcome = outcome
        /\ log' = [log EXCEPT ![a] = log[a] \cup {entry}]
        /\ log'[a] = log[a] \cup {entry}
        /\ \A b \in Attestations \ {a} : log'[b] = log[b]
    <2>1. log' = [log EXCEPT ![a] = log[a] \cup {entry}]
      BY DEF Noted
    <2>2. entry \in Entry
      BY <1>0 DEF Entry
    <2>3. log \in [Attestations -> SUBSET Entry]
      BY DEF IInv, TypeOK
    <2> QED
      BY <1>0, <2>1, <2>2, <2>3
  <1>g. log' \in [Attestations -> SUBSET Entry]
    <2>1. log \in [Attestations -> SUBSET Entry]
      BY DEF IInv, TypeOK
    <2> HIDE DEF entry
    <2> QED
      BY <1>0, <1>c, <2>1
  <1>d. \A e \in log[a] : e.number \in Nat /\ e.number < n
    <2>1. log[a] \subseteq Entry
      BY <1>0 DEF IInv, TypeOK
    <2>2. \A e \in log[a] : e.number < rows[a].attempts
      BY <1>0 DEF IInv, LogBehind
    <2> QED
      BY <1>0, <2>1, <2>2 DEF Entry
  <1>e. /\ reports' \in [Attestations -> Nat]
        /\ reports'[a] = IF outcome = "permanent_failure" THEN 1 ELSE 0
        /\ \A b \in Attestations \ {a} : reports'[b] = reports[b]
    <2>1. reports[a] = 0
      BY <1>0 DEF IInv, FailureReportedOnce
    <2> QED
      BY <1>0, <2>1 DEF IInv, TypeOK
  <1>f. /\ work' \in [Workers -> Attempt \cup {Null}]
        /\ work'[w] = Null
        /\ \A v \in Workers \ {w} : work'[v] = work[v]
        /\ \A v \in Workers : work'[v] # Null => work'[v].row \in Attestations
    BY DEF IInv, TypeOK, Attempt
  <1> HIDE DEF a, n, entry
  <1>1. TypeOK'
    <2>1. \A b \in Attestations : /\ rows'[b].status = "leased" <=> rows'[b].lease # Null
                                  /\ AckShape(rows'[b].status, rows'[b].ledger)
      <3> SUFFICES ASSUME NEW b \in Attestations
                   PROVE  /\ rows'[b].status = "leased" <=> rows'[b].lease # Null
                          /\ AckShape(rows'[b].status, rows'[b].ledger)
        OBVIOUS
      <3>1. CASE b = a
        BY <1>a, <1>b, <3>1 DEF AckShape
      <3>2. CASE b # a
        BY <1>b, <3>2 DEF IInv, TypeOK, AckShape
      <3> QED
        BY <3>1, <3>2
    <2>2. /\ polling' \subseteq Workers /\ sent' \subseteq Attestations \ Legacy
          /\ financial' \in [Attestations -> {"none", "held", "posted"}]
          /\ slips' \in 0..MaxSlips
      BY DEF IInv, TypeOK
    <2> QED
      BY <1>b, <1>e, <1>f, <1>g, <2>1, <2>2 DEF TypeOK, AckShape
  <1>2. RowsConsistent'
    BY <1>0, <1>a, <1>b DEF IInv, RowsConsistent
  <1>3. LogBehind'
    <2> SUFFICES ASSUME NEW b \in Attestations
                 PROVE  /\ rows'[b].status = "pending" => log'[b] = {}
                        /\ \A e \in log'[b] : /\ e.number <= rows'[b].attempts
                                              /\ rows'[b].status = "leased" => e.number < rows'[b].attempts
      BY DEF LogBehind
    <2>1. CASE b # a
      BY <1>b, <1>c, <2>1 DEF IInv, LogBehind
    <2>2. CASE b = a
      <3>1. rows'[a].status \notin {"pending", "leased"} /\ rows'[a].attempts = n
        BY <1>a, <1>b
      <3>2. \A e \in log'[a] : e.number <= n
        BY <1>0, <1>c, <1>d
      <3> QED
        BY <2>2, <3>1, <3>2
    <2> QED
      BY <2>1, <2>2
  <1>4. WorkConsistent'
    <2>1. \A b \in Attestations : rows'[b].attempts = rows[b].attempts
      BY <1>0, <1>b
    <2>2. \A v \in polling' : work'[v] = Null
      BY <1>f DEF IInv, TypeOK, WorkConsistent
    <2>3. ASSUME NEW v \in Workers, work'[v] # Null
          PROVE  work'[v].row \notin Legacy /\ work'[v].number <= rows'[work'[v].row].attempts
      <3>1. v # w /\ work'[v] = work[v] /\ work[v].row \in Attestations
        BY <1>f, <2>3
      <3> QED
        BY <2>1, <2>3, <3>1 DEF IInv, WorkConsistent
    <2> QED
      BY <2>2, <2>3 DEF WorkConsistent
  <1>5. AnswersTrue' /\ FiledWasSent'
    BY <1>f DEF IInv, AnswersTrue, FiledWasSent
  <1>6. StatusIsLatestAttempt'
    <2> SUFFICES ASSUME NEW b \in Attestations \ Legacy
                 PROVE  /\ \A e \in log'[b] : e.number = rows'[b].attempts
                                                => rows'[b].status = StatusOf[e.outcome]
                        /\ rows'[b].status \in {"retry_wait"} \cup Settled
                             => \E e \in log'[b] : e.number = rows'[b].attempts
                        /\ \A e, f \in log'[b] : e.number = f.number => e = f
      BY DEF StatusIsLatestAttempt
    <2>1. CASE b # a
      <3>1. rows'[b] = rows[b] /\ log'[b] = log[b]
        BY <1>b, <1>c, <2>1
      <3>2. /\ \A e \in log[b] : e.number = rows[b].attempts => rows[b].status = StatusOf[e.outcome]
            /\ rows[b].status \in {"retry_wait"} \cup Settled => \E e \in log[b] : e.number = rows[b].attempts
            /\ \A e, f \in log[b] : e.number = f.number => e = f
        BY DEF IInv, StatusIsLatestAttempt
      <3> QED
        BY <3>1, <3>2, Zenon
    <2>2. CASE b = a
      <3>1. \A e \in log'[a] : e.number = n => e = entry
        BY <1>0, <1>c, <1>d
      <3>4. entry \in log'[a] /\ rows'[a].attempts = n /\ rows'[a].status = StatusOf[entry.outcome]
        BY <1>b, <1>c
      <3>2. \A e, f \in log[a] : e.number = f.number => e = f
        BY <1>0 DEF IInv, StatusIsLatestAttempt
      <3>3. \A e, f \in log'[a] : e.number = f.number => e = f
        BY <1>c, <3>1, <3>2
      <3> QED
        <4>1. \A e \in log'[a] : e.number = rows'[a].attempts => rows'[a].status = StatusOf[e.outcome]
          BY <3>1, <3>4
        <4>2. \E e \in log'[a] : e.number = rows'[a].attempts
          BY <1>c, <3>4
        <4>3. \A e \in log'[b] : e.number = rows'[b].attempts => rows'[b].status = StatusOf[e.outcome]
          BY <2>2, <4>1
        <4>4. \E e \in log'[b] : e.number = rows'[b].attempts
          BY <2>2, <4>2
        <4>5. \A e, f \in log'[b] : e.number = f.number => e = f
          BY <2>2, <3>3
        <4> QED
          BY <4>3, <4>4, <4>5
    <2> QED
      BY <2>1, <2>2
  <1>7. FailureReportedOnce'
    BY <1>0, <1>a, <1>b, <1>e DEF IInv, FailureReportedOnce
  <1>8. GivenUpInTime'
    BY <1>0, <1>a, <1>b DEF IInv, GivenUpInTime, a, n
  <1>9. SlipsPaid'
    <2>1. \A b \in Attestations \ {a}, v \in Workers : Recordable(v, b) => Recordable(v, b)'
      BY <1>b, <1>f DEF Recordable, a
    <2> QED
      BY <1>0, <1>a, <1>b, <2>1 DEF IInv, SlipsPaid
  <1> QED
    BY <1>1, <1>2, <1>3, <1>4, <1>5, <1>6, <1>7, <1>8, <1>9 DEF IInv

LEMMA RecordSuccessPreserves ==
  ASSUME IInv, NEW w \in Workers, RecordSuccess(w)
  PROVE  IInv'
  <1> DEFINE a == work[w].row
             outcome == Verdict(work[w].answer)
             row == [rows[a] EXCEPT !.status = outcome, !.lease = Null,
                                    !.ledger = work[w].answer.ledger]
  <1>1. /\ a \in Attestations /\ rows[a] \in Row
        /\ work[w].answer \in Answer
    BY DEF IInv, TypeOK, Attempt, AnswersTrue, RecordSuccess, Answered
  <1>2. /\ outcome \in {"acknowledged", "review_required"} /\ outcome \in Outcome
        /\ StatusOf[outcome] = outcome
        /\ outcome = "acknowledged" => work[w].answer.ledger
    BY DEF Verdict, Outcome, StatusOf, RecordSuccess, AckShape
  <1>3. row \in Row /\ rows' = [rows EXCEPT ![a] = row]
    <2>1. row \in Row
      BY <1>1, <1>2 DEF Row, Answer, Status, Settled
    <2>2. rows \in [Attestations -> Row]
      BY DEF IInv, TypeOK
    <2> QED
      BY <1>1, <2>1, <2>2 DEF RecordSuccess
  <1>4. reports' = [reports EXCEPT ![a] = IF outcome = "permanent_failure" THEN @ + 1 ELSE @]
    BY <1>1, <1>2 DEF RecordSuccess, IInv, TypeOK
  <1>5. /\ row.status = StatusOf[outcome] /\ row.attempts = rows[a].attempts
        /\ row.lease = Null /\ row.ledger = work[w].answer.ledger
    BY <1>1, <1>2 DEF Row
  <1>6. /\ Answered(w) /\ Holds(w) /\ Noted(a, work[w].number, outcome)
        /\ work' = [work EXCEPT ![w] = Null]
        /\ UNCHANGED <<polling, sent, financial, slips>>
    BY DEF RecordSuccess
  <1>7. outcome # "retryable_failure"
    BY <1>2
  <1> HIDE DEF outcome, row
  <1> QED
    BY <1>1, <1>2, <1>3, <1>4, <1>5, <1>6, <1>7, RecordPreserves

LEMMA RecordFailurePreserves ==
  ASSUME IInv, NEW w \in Workers, RecordFailure(w)
  PROVE  IInv'
  <1> DEFINE a == work[w].row
             permanent == IsPermanent(work[w])
             outcome == IF permanent THEN "permanent_failure" ELSE "retryable_failure"
             row == [rows[a] EXCEPT !.status = IF permanent THEN "dead_letter" ELSE "retry_wait",
                                    !.lease = Null, !.ready = FALSE]
  <1>1. a \in Attestations /\ rows[a] \in Row /\ work[w].number \in Nat
    BY DEF IInv, TypeOK, Attempt, RecordFailure, Answered
  <1>2. /\ outcome \in Outcome /\ outcome # "acknowledged"
        /\ StatusOf[outcome] = IF permanent THEN "dead_letter" ELSE "retry_wait"
        /\ permanent <=> outcome = "permanent_failure"
    BY DEF Outcome, StatusOf
  <1>3. outcome = "retryable_failure" => work[w].number < MaxAttempts
    BY <1>1, DeliveryAssumption DEF IsPermanent
  <1>4. row \in Row /\ rows' = [rows EXCEPT ![a] = row]
    <2>1. row \in Row
      BY <1>1 DEF Row, Status, Settled
    <2>2. rows \in [Attestations -> Row]
      BY DEF IInv, TypeOK
    <2> QED
      BY <1>1, <2>1, <2>2 DEF RecordFailure
  <1>5. reports' = [reports EXCEPT ![a] = IF outcome = "permanent_failure" THEN @ + 1 ELSE @]
    BY <1>2 DEF RecordFailure
  <1>6. /\ Answered(w) /\ Holds(w) /\ Noted(a, work[w].number, outcome)
        /\ work' = [work EXCEPT ![w] = Null]
        /\ UNCHANGED <<polling, sent, financial, slips>>
    BY DEF RecordFailure
  <1>7. /\ row.status = StatusOf[outcome] /\ row.attempts = rows[a].attempts /\ row.lease = Null
    BY <1>1, <1>2 DEF Row
  <1> HIDE DEF outcome, row
  <1> QED
    BY <1>1, <1>2, <1>3, <1>4, <1>5, <1>6, <1>7, RecordPreserves

-----------------------------------------------------------------------------
(* The invariant, and what follows from it.                                *)

LEMMA StepInvariant == IInv /\ [Next]_vars => IInv'
  <1> SUFFICES ASSUME IInv, [Next]_vars PROVE IInv'
    OBVIOUS
  <1>1. ASSUME NEW w \in Workers, Deliver(w) \/ GetUnrecordable(w) \/ Slip(w)
        PROVE  IInv'
    <2>1. CASE QuarantineLegacyRows(w)
      BY <2>1, QuarantinePreserves
    <2>2. ASSUME NEW a \in Attestations, Claim(w, a) PROVE IInv'
      BY <2>2, ClaimPreserves
    <2>3. CASE FindNothing(w)
      BY <2>3, FindNothingPreserves
    <2>4. CASE Send(w)
      BY <2>4, SendPreserves
    <2>5. CASE GetAnswer(w)
      BY <2>5, GetAnswerPreserves
    <2>6. CASE RecordSuccess(w)
      BY <2>6, RecordSuccessPreserves
    <2>7. CASE RecordFailure(w)
      BY <2>7, RecordFailurePreserves
    <2>8. CASE RefuseAcknowledgement(w)
      BY <2>8, RefuseAcknowledgementPreserves
    <2>9. CASE LoseLease(w)
      BY <2>9, LoseLeasePreserves
    <2>10. CASE GetUnrecordable(w)
      BY <2>10, GetUnrecordablePreserves
    <2>11. CASE Slip(w)
      BY <2>11, SlipPreserves
    <2> QED
      BY <1>1, <2>1, <2>2, <2>3, <2>4, <2>5, <2>6, <2>7, <2>8, <2>9, <2>10, <2>11 DEF Deliver
  <1>2. ASSUME NEW a \in Attestations, File(a) \/ Post(a) \/ RetryDue(a) \/ LeaseLapses(a)
        PROVE  IInv'
    BY <1>2, FilePreserves, RetryDuePreserves, LeaseLapsesPreserves
  <1>3. CASE UNCHANGED vars
    BY <1>3 DEF vars, IInv, TypeOK, AckShape, RowsConsistent, LogBehind, WorkConsistent,
                AnswersTrue, FiledWasSent, SlipsPaid, Recordable, StatusIsLatestAttempt,
                FailureReportedOnce, GivenUpInTime
  <1> QED
    BY <1>1, <1>2, <1>3 DEF Next

LEMMA Invariance == Spec => []IInv
  BY InitInvariant, StepInvariant, PTL DEF Spec

\* The tables hold rows of their shape for any number of attestations and
\* workers: a lease exactly while leased, a ledger transaction when acknowledged.
THEOREM DeliveryTypeCorrect == Spec => []TypeOK
  <1>1. IInv => TypeOK
    BY DEF IInv
  <1> QED
    BY <1>1, Invariance, PTL

\* A worker that lost its lease neither decides the row nor notes its attempt.
THEOREM LatestAttemptDecides == Spec => []StatusIsLatestAttempt
  <1>1. IInv => StatusIsLatestAttempt
    BY DEF IInv
  <1> QED
    BY <1>1, Invariance, PTL

\* Security is told of a failed delivery once, exactly when the row is given up.
THEOREM FailureIsReportedOnce == Spec => []FailureReportedOnce
  <1>1. IInv => FailureReportedOnce
    BY DEF IInv
  <1> QED
    BY <1>1, Invariance, PTL

\* Only attempts that recorded nothing take a row past MaxAttempts.
THEOREM AttemptsAreBounded == Spec => []GivenUpInTime
  <1>1. IInv => GivenUpInTime
    BY DEF IInv
  <1> QED
    BY <1>1, Invariance, PTL

-----------------------------------------------------------------------------
(* The hand-over.                                                          *)

LEMMA HandoffInit == Init => Handoff!Init
  BY DEF Init, Handoff!Init, Settled

LEMMA VerdictsUntouched ==
  ASSUME \A a \in Attestations :
           \/ rows'[a].status = rows[a].status
           \/ rows'[a].status \notin Settled /\ rows[a].status \notin Settled
  PROVE  [a \in Attestations |-> IF rows[a].status \in Settled THEN rows[a].status ELSE "open"]'
           = [a \in Attestations |-> IF rows[a].status \in Settled THEN rows[a].status ELSE "open"]
  OBVIOUS

\* A step that takes one leased row to a verdict, or to none, concludes it.
LEMMA RecordConcludes ==
  ASSUME IInv, NEW a \in Attestations \ Legacy, NEW status \in Status \ {"legacy_reconciliation_required"},
         rows[a].status = "leased", rows'[a].status = status,
         \A b \in Attestations \ {a} : rows'[b] = rows[b],
         status = "acknowledged" => financial[a] = "posted",
         status = "review_required" => financial[a] # "none",
         UNCHANGED financial
  PROVE  [Handoff!Next]_(Handoff!vars)
  <1> DEFINE verdict == [b \in Attestations |->
                           IF rows[b].status \in Settled THEN rows[b].status ELSE "open"]
  <1>1. CASE status \notin Settled
    BY <1>1, VerdictsUntouched DEF Handoff!vars, Settled
  <1>2. CASE status \in Settled
    <2>1. Handoff!Warranted(a, status)
      BY <1>2 DEF Handoff!Warranted, Settled
    <2>2. verdict[a] = "open"
      BY DEF Settled
    <2>3. verdict' = [verdict EXCEPT ![a] = status]
      BY <1>2
    <2>4. Handoff!Conclude(a, status)
      BY <2>1, <2>2, <2>3 DEF Handoff!Conclude
    <2> QED
      BY <1>2, <2>4 DEF Handoff!Next, Handoff!Verdict, Settled
  <1> QED
    BY <1>1, <1>2

LEMMA FinancialFiles ==
  ASSUME IInv, NEW a \in Attestations, File(a) \/ Post(a)
  PROVE  Handoff!Next
  <1>1. PICK s \in {"held", "posted"} :
          /\ <<financial[a], s>> \in {<<"none", "held">>, <<"none", "posted">>, <<"held", "posted">>}
          /\ financial' = [financial EXCEPT ![a] = s]
    BY DEF File, Post
  <1>2. a \notin Legacy
    BY DEF IInv, TypeOK, FiledWasSent, File, Post
  <1>3. UNCHANGED rows
    BY DEF File, Post
  <1>4. Handoff!File(a, s)
    BY <1>1, <1>2, <1>3 DEF Handoff!File
  <1> QED
    BY <1>1, <1>4 DEF Handoff!Next, Handoff!Filed

LEMMA QuarantineSetsAside ==
  ASSUME IInv, NEW w \in Workers, QuarantineLegacyRows(w)
  PROVE  Handoff!Next
  <1> DEFINE S == {a \in Legacy : rows[a].status \notin Settled}
             verdict == [a \in Attestations |->
                           IF rows[a].status \in Settled THEN rows[a].status ELSE "open"]
  <1>0. Legacy \subseteq Attestations
    BY DeliveryAssumption
  <1>1. \A a \in Attestations : rows'[a].status = IF a \in S THEN "legacy_reconciliation_required" ELSE rows[a].status
    <2>1. \A a \in Attestations : rows[a] \in Row
      BY DEF IInv, TypeOK
    <2>2. \A a \in Legacy : Open(a) <=> rows[a].status \notin Settled
      BY <1>0, <2>1 DEF Row, Status, Settled, Open
    <2> QED
      BY <2>1, <2>2 DEF QuarantineLegacyRows, Row
  <1>2. S \subseteq {a \in Legacy : verdict[a] = "open"}
    BY <1>0
  <1>3. verdict' = [a \in Attestations |->
                      IF a \in S THEN "legacy_reconciliation_required" ELSE verdict[a]]
    BY <1>1 DEF Settled
  <1>4. UNCHANGED financial
    BY DEF QuarantineLegacyRows
  <1>5. Handoff!SetAside(S)
    BY <1>2, <1>3, <1>4 DEF Handoff!SetAside
  <1>6. S \in SUBSET Legacy
    OBVIOUS
  <1> HIDE DEF S
  <1>7. \E T \in SUBSET Legacy : Handoff!SetAside(T)
    BY <1>5, <1>6 DEF Handoff!SetAside
  <1> QED
    BY <1>7 DEF Handoff!Next

LEMMA HandoffStep == IInv /\ [Next]_vars => [Handoff!Next]_(Handoff!vars)
  <1> SUFFICES ASSUME IInv, [Next]_vars PROVE [Handoff!Next]_(Handoff!vars)
    OBVIOUS
  <1>1. ASSUME NEW w \in Workers, Deliver(w) \/ GetUnrecordable(w) \/ Slip(w)
        PROVE  [Handoff!Next]_(Handoff!vars)
    <2>1. CASE QuarantineLegacyRows(w)
      BY <2>1, QuarantineSetsAside
    <2>2. ASSUME NEW a \in Attestations, Claim(w, a) PROVE [Handoff!Next]_(Handoff!vars)
      <3>1. \A b \in Attestations : \/ rows'[b].status = rows[b].status
                                    \/ rows'[b].status \notin Settled /\ rows[b].status \notin Settled
        BY <2>2 DEF IInv, TypeOK, Row, Claim, Claimable, Settled
      <3> QED
        BY <2>2, <3>1, VerdictsUntouched DEF Claim, Handoff!vars
    <2>3. CASE FindNothing(w) \/ Send(w) \/ GetAnswer(w) \/ RefuseAcknowledgement(w) \/ LoseLease(w)
                 \/ GetUnrecordable(w) \/ Slip(w)
      BY <2>3 DEF FindNothing, Send, GetAnswer, RefuseAcknowledgement, LoseLease, GetUnrecordable,
                  Slip, Handoff!vars
    <2>4. CASE RecordSuccess(w)
      <3> DEFINE a == work[w].row
                 status == Verdict(work[w].answer)
      <3>1. /\ a \in Attestations \ Legacy /\ rows[a] \in Row
            /\ work[w].answer.outcome \in Success => financial[a] # "none"
            /\ work[w].answer.outcome \in Success /\ work[w].answer.ledger => financial[a] = "posted"
        BY <2>4 DEF IInv, TypeOK, Attempt, WorkConsistent, AnswersTrue, RecordSuccess, Answered
      <3>2. /\ status \in Status \ {"legacy_reconciliation_required"}
            /\ status = "acknowledged" => financial[a] = "posted"
            /\ status = "review_required" => financial[a] # "none"
        BY <2>4, <3>1 DEF RecordSuccess, AckShape, Verdict, Status, Settled
      <3>3. rows[a].status = "leased" /\ rows'[a].status = status
        BY <2>4, <3>1 DEF RecordSuccess, Holds, IInv, TypeOK, Row
      <3>4. \A b \in Attestations \ {a} : rows'[b] = rows[b]
        BY <2>4 DEF RecordSuccess, IInv, TypeOK
      <3>5. UNCHANGED financial
        BY <2>4 DEF RecordSuccess
      <3> HIDE DEF a, status
      <3> QED
        BY <3>1, <3>2, <3>3, <3>4, <3>5, RecordConcludes
    <2>5. CASE RecordFailure(w)
      <3> DEFINE a == work[w].row
                 status == IF IsPermanent(work[w]) THEN "dead_letter" ELSE "retry_wait"
      <3>1. a \in Attestations \ Legacy /\ rows[a] \in Row
        BY <2>5 DEF IInv, TypeOK, Attempt, WorkConsistent, RecordFailure, Answered
      <3>2. /\ status \in Status \ {"legacy_reconciliation_required"}
            /\ status # "acknowledged" /\ status # "review_required"
        BY DEF Status, Settled
      <3>3. rows[a].status = "leased" /\ rows'[a].status = status
        BY <2>5, <3>1 DEF RecordFailure, Holds, IInv, TypeOK, Row
      <3>4. \A b \in Attestations \ {a} : rows'[b] = rows[b]
        BY <2>5 DEF RecordFailure, IInv, TypeOK
      <3>5. UNCHANGED financial
        BY <2>5 DEF RecordFailure
      <3> HIDE DEF a, status
      <3> QED
        BY <3>1, <3>2, <3>3, <3>4, <3>5, RecordConcludes
    <2> QED
      BY <1>1, <2>1, <2>2, <2>3, <2>4, <2>5 DEF Deliver
  <1>2. ASSUME NEW a \in Attestations, File(a) \/ Post(a) \/ RetryDue(a) \/ LeaseLapses(a)
        PROVE  [Handoff!Next]_(Handoff!vars)
    <2>1. CASE File(a) \/ Post(a)
      BY <2>1, FinancialFiles
    <2>2. CASE RetryDue(a) \/ LeaseLapses(a)
      <3>1. \A b \in Attestations : rows'[b].status = rows[b].status
        BY <2>2 DEF RetryDue, LeaseLapses, IInv, TypeOK, Row
      <3>2. UNCHANGED financial
        BY <2>2 DEF RetryDue, LeaseLapses
      <3> QED
        BY <3>1, <3>2, VerdictsUntouched DEF Handoff!vars
    <2> QED
      BY <1>2, <2>1, <2>2
  <1>3. CASE UNCHANGED vars
    BY <1>3 DEF vars, Handoff!vars
  <1> QED
    BY <1>1, <1>2, <1>3 DEF Next

\* The delivery implements the hand-over: a verdict is given once, never taken
\* back, and never ahead of what Financial did.
THEOREM HandoffRefinement == Spec => ImplementsFundingHandoff
  BY HandoffInit, HandoffStep, Invariance, PTL DEF Spec, ImplementsFundingHandoff, Handoff!Spec
-----------------------------------------------------------------------------
(* What follows from the hand-over alone.                                  *)

\* Verdicts never run ahead of Financial: an acknowledged attestation has its
\* ledger transaction there, and one that waits for review has arrived.
Earned ==
  \A a \in Attestations :
    /\ rows[a].status = "acknowledged" => financial[a] = "posted"
    /\ rows[a].status = "review_required" => financial[a] # "none"

LEMMA HandoffEarns ==
  ASSUME IInv, IInv', Earned, [Handoff!Next]_(Handoff!vars)
  PROVE  Earned'
  <1> DEFINE verdict == [a \in Attestations |->
                           IF rows[a].status \in Settled THEN rows[a].status ELSE "open"]
  <1> USE DEF Settled
  <1>1. \A a \in Attestations : /\ verdict[a] = "acknowledged" => financial[a] = "posted"
                                /\ verdict[a] = "review_required" => financial[a] # "none"
    BY DEF Earned
  <1>2. financial \in [Attestations -> {"none", "held", "posted"}]
    BY DEF IInv, TypeOK
  <1>3. SUFFICES \A a \in Attestations : /\ verdict'[a] = "acknowledged" => financial'[a] = "posted"
                                         /\ verdict'[a] = "review_required" => financial'[a] # "none"
    BY DEF Earned
  <1>4. CASE UNCHANGED Handoff!vars
    BY <1>1, <1>4 DEF Handoff!vars
  <1>5. ASSUME NEW a \in Attestations, NEW s \in Handoff!Filed, Handoff!File(a, s)
        PROVE  \A b \in Attestations : /\ verdict'[b] = "acknowledged" => financial'[b] = "posted"
                                       /\ verdict'[b] = "review_required" => financial'[b] # "none"
    <2>1. verdict' = verdict /\ financial' = [financial EXCEPT ![a] = s]
      BY <1>5 DEF Handoff!File
    <2>2. s \in {"held", "posted"} /\ financial[a] # "posted" /\ (financial[a] = "held" => s = "posted")
      BY <1>5 DEF Handoff!File
    <2> HIDE DEF verdict
    <2> QED
      BY <1>1, <1>2, <2>1, <2>2
  <1>6. ASSUME NEW a \in Attestations, NEW v \in Handoff!Verdict, Handoff!Conclude(a, v)
        PROVE  \A b \in Attestations : /\ verdict'[b] = "acknowledged" => financial'[b] = "posted"
                                       /\ verdict'[b] = "review_required" => financial'[b] # "none"
    <2>1. verdict' = [verdict EXCEPT ![a] = v] /\ financial' = financial
      BY <1>6 DEF Handoff!Conclude
    <2>2. /\ v = "acknowledged" => financial[a] = "posted"
          /\ v = "review_required" => financial[a] # "none"
      BY <1>6 DEF Handoff!Conclude, Handoff!Warranted
    <2> QED
      BY <1>1, <2>1, <2>2
  <1>7. ASSUME NEW S \in SUBSET Legacy, Handoff!SetAside(S)
        PROVE  \A b \in Attestations : /\ verdict'[b] = "acknowledged" => financial'[b] = "posted"
                                       /\ verdict'[b] = "review_required" => financial'[b] # "none"
    <2>1. /\ verdict' = [a \in Attestations |->
                           IF a \in S THEN "legacy_reconciliation_required" ELSE verdict[a]]
          /\ financial' = financial
      BY <1>7 DEF Handoff!SetAside
    <2> QED
      BY <1>1, <2>1
  <1> QED
    BY <1>4, <1>5, <1>6, <1>7 DEF Handoff!Next

\* No attestation is acknowledged before Financial has posted it, and none
\* reported for review that never arrived, however many workers send it, however
\* often an answer is lost (FundingAttestationDeliveryWorker.ts, recordSuccess).
THEOREM VerdictsAreEarned == Spec => []Earned
  <1>1. Init => Earned
    BY DEF Init, Earned
  <1>2. IInv /\ IInv' /\ Earned /\ [Next]_vars => Earned'
    BY HandoffStep, HandoffEarns
  <1> QED
    BY <1>1, <1>2, Invariance, PTL DEF Spec

\* A verdict once given stands: no later answer, quarantine, lapse or worker
\* that still holds an old lease moves a row out of it, and no row goes back to
\* waiting (the UPDATEs match on delivery_status).
THEOREM VerdictsStand ==
  Spec => [][\A a \in Attestations :
               rows[a].status \in Settled => rows'[a].status = rows[a].status]_vars
  <1> DEFINE verdict == [a \in Attestations |->
                           IF rows[a].status \in Settled THEN rows[a].status ELSE "open"]
             Stand == \A a \in Attestations :
                        rows[a].status \in Settled => rows'[a].status = rows[a].status
  <1>1. ASSUME IInv, [Next]_vars PROVE Stand
    <2>1. [Handoff!Next]_(Handoff!vars)
      BY <1>1, HandoffStep
    <2>2. SUFFICES \A a \in Attestations : verdict[a] # "open" => verdict'[a] = verdict[a]
      BY DEF Settled
    <2>3. CASE UNCHANGED Handoff!vars
      BY <2>3 DEF Handoff!vars
    <2>4. ASSUME NEW a \in Attestations, NEW s \in Handoff!Filed, Handoff!File(a, s)
          PROVE  verdict' = verdict
      BY <2>4 DEF Handoff!File
    <2>5. ASSUME NEW a \in Attestations, NEW v \in Handoff!Verdict, Handoff!Conclude(a, v)
          PROVE  verdict' = [verdict EXCEPT ![a] = v] /\ verdict[a] = "open"
      BY <2>5 DEF Handoff!Conclude
    <2>6. ASSUME NEW S \in SUBSET Legacy, Handoff!SetAside(S)
          PROVE  /\ verdict' = [a \in Attestations |->
                                  IF a \in S THEN "legacy_reconciliation_required" ELSE verdict[a]]
                 /\ \A a \in S : verdict[a] = "open"
      BY <2>6 DEF Handoff!SetAside
    <2> QED
      BY <2>1, <2>3, <2>4, <2>5, <2>6 DEF Handoff!Next
  <1> QED
    BY <1>1, Invariance, PTL DEF Spec
=============================================================================
