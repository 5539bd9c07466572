------------------------ MODULE AttestationDelivery ------------------------
(***************************************************************************)
(* FundingAttestationDeliveryWorker: the workers of all API instances      *)
(* share the rows of financial_funding_instructions, lease one row at a    *)
(* time, send it to Financial and record the outcome while they still hold *)
(* the lease.                                                              *)
(*                                                                         *)
(* A claim, a record and the quarantine are one transaction each; between  *)
(* them a worker may crash, be overtaken by another worker, or learn       *)
(* nothing.  The attempt number stands for the lease token: each claim     *)
(* draws a fresh token and counts the attempt up in the same statement.    *)
(***************************************************************************)
EXTENDS Integers, FiniteSets

CONSTANTS
  Attestations,  \* rows of financial_funding_instructions, numbered by age
  Legacy,        \* those without a v1 payload
  Workers,       \* one delivery worker for each API instance
  Null,          \* SQL NULL, and a worker with no row
  MaxAttempts,   \* 12 in the code
  LedgerLater,   \* may Financial accept before it has a ledger transaction?
  MaxSlips       \* bound on attempts that end unrecorded or outlive their lease

ASSUME DeliveryAssumption ==
  /\ Attestations \subseteq Nat
  /\ Legacy \subseteq Attestations
  /\ MaxAttempts \in Nat \ {0}
  /\ LedgerLater \in BOOLEAN
  /\ MaxSlips \in Nat

VARIABLES
  rows,       \* the delivery columns of financial_funding_instructions
  log,        \* financial_funding_delivery_attempts, by attestation
  reports,    \* api.funding_delivery_failed.v1 rows of security_evidence_outbox
  work,       \* the attempt each worker is making, Null between attempts
  polling,    \* workers between the quarantine and the claim
  sent,       \* attestations of which a request is or was under way
  financial,  \* what Financial has done with each attestation
  slips       \* attempts spent against MaxSlips

vars == <<rows, log, reports, work, polling, sent, financial, slips>>

Settled == {"acknowledged", "review_required", "dead_letter",
            "legacy_reconciliation_required"}
Status == {"pending", "leased", "retry_wait"} \cup Settled

\* ready: next_attempt_at of a waiting row, or lease_expires_at of a leased
\* one, has passed.
Row == [status   : Status,
        attempts : Nat,
        lease    : Nat \cup {Null},
        ready    : BOOLEAN,
        ledger   : BOOLEAN]               \* ledger_transaction_id IS NOT NULL

Success == {"accepted", "duplicate", "review_required"}
Failure == {"retryable", "permanent"}     \* a network error is retryable
Answer == [outcome : Success \cup Failure, ledger : BOOLEAN]
Attempt == [row    : Attestations,
            number : Nat,
            stage  : {"claimed", "sent", "answered"},
            answer : Answer \cup {Null}]
Outcome == {"acknowledged", "review_required", "retryable_failure", "permanent_failure"}
Entry == [number : Nat, outcome : Outcome]

ASSUME NullAssumption == Null \notin Nat /\ Null \notin Attempt

-----------------------------------------------------------------------------
Init ==
  /\ rows = [a \in Attestations |->
               [status |-> "pending", attempts |-> 0, lease |-> Null,
                ready |-> TRUE, ledger |-> FALSE]]
  /\ log = [a \in Attestations |-> {}]
  /\ reports = [a \in Attestations |-> 0]
  /\ work = [w \in Workers |-> Null]
  /\ polling = {}
  /\ sent = {}
  /\ financial = [a \in Attestations |-> "none"]
  /\ slips = 0

-----------------------------------------------------------------------------
(* The worker.                                                             *)

Open(a) == rows[a].status \in {"pending", "retry_wait", "leased"}

QuarantineLegacyRows(w) ==
  /\ work[w] = Null
  /\ w \notin polling
  /\ polling' = polling \cup {w}
  /\ rows' = [a \in Attestations |->
                IF a \in Legacy /\ Open(a)
                THEN [rows[a] EXCEPT !.status = "legacy_reconciliation_required",
                                     !.lease = Null, !.ready = FALSE]
                ELSE rows[a]]
  /\ UNCHANGED <<log, reports, work, sent, financial, slips>>

\* Mutant: a leased row is never claimed again.
ClaimableOnce(a) ==
  /\ a \notin Legacy
  /\ rows[a].status \in {"pending", "retry_wait"}
  /\ rows[a].ready

Claimable(a) ==
  /\ a \notin Legacy
  /\ rows[a].status \in {"pending", "retry_wait", "leased"}
  /\ rows[a].ready

\* A row another worker may be recording is locked, and the claim skips it.
Skipped(w, a) == \E v \in Workers \ {w} : work[v] # Null /\ work[v].row = a

Claim(w, a) ==
  /\ w \in polling
  /\ Claimable(a)
  /\ \A b \in Attestations : b < a /\ Claimable(b) => Skipped(w, b)
  /\ rows' = [rows EXCEPT ![a].status = "leased",
                          ![a].attempts = @ + 1,
                          ![a].lease = rows[a].attempts + 1,
                          ![a].ready = FALSE]
  /\ work' = [work EXCEPT ![w] =
                [row |-> a, number |-> rows[a].attempts + 1,
                 stage |-> "claimed", answer |-> Null]]
  /\ polling' = polling \ {w}
  /\ UNCHANGED <<log, reports, sent, financial, slips>>

FindNothing(w) ==
  /\ w \in polling
  /\ \A a \in Attestations : Claimable(a) => Skipped(w, a)
  /\ polling' = polling \ {w}
  /\ UNCHANGED <<rows, log, reports, work, sent, financial, slips>>

Send(w) ==
  /\ work[w] # Null
  /\ work[w].stage = "claimed"
  /\ sent' = sent \cup {work[w].row}
  /\ work' = [work EXCEPT ![w].stage = "sent"]
  /\ UNCHANGED <<rows, log, reports, polling, financial, slips>>

-----------------------------------------------------------------------------
(* Financial, which files an attestation once however often it arrives,    *)
(* and the network, which may lose its answer or deliver a request late.   *)

File(a) ==
  /\ a \in sent
  /\ financial[a] = "none"
  /\ \E s \in {"held", "posted"} : financial' = [financial EXCEPT ![a] = s]
  /\ UNCHANGED <<rows, log, reports, work, polling, sent, slips>>

Post(a) ==
  /\ financial[a] = "held"
  /\ financial' = [financial EXCEPT ![a] = "posted"]
  /\ UNCHANGED <<rows, log, reports, work, polling, sent, slips>>

Answers(a) ==
  [outcome : Failure, ledger : {FALSE}]
  \cup (IF financial[a] = "posted" THEN [outcome : {"accepted", "duplicate"}, ledger : {TRUE}] ELSE {})
  \cup (IF financial[a] = "held" THEN [outcome : {"review_required", "duplicate"}, ledger : {FALSE}] ELSE {})

\* An acceptance without a ledger transaction, which cannot be recorded.
Unrecordable == [outcome |-> "accepted", ledger |-> FALSE]

GetAnswer(w) ==
  /\ work[w] # Null
  /\ work[w].stage = "sent"
  /\ \E answer \in Answers(work[w].row) :
       work' = [work EXCEPT ![w].stage = "answered", ![w].answer = answer]
  /\ UNCHANGED <<rows, log, reports, polling, sent, financial, slips>>

GetUnrecordable(w) ==
  /\ LedgerLater
  /\ work[w] # Null
  /\ work[w].stage = "sent"
  /\ financial[work[w].row] = "held"
  /\ slips < MaxSlips
  /\ slips' = slips + 1
  /\ work' = [work EXCEPT ![w].stage = "answered", ![w].answer = Unrecordable]
  /\ UNCHANGED <<rows, log, reports, polling, sent, financial>>

-----------------------------------------------------------------------------
(* Recording the outcome.                                                  *)

\* Mutant: the guarded UPDATE matches the id alone.
HoldsById(w) == work[w] # Null

\* Mutant: it matches any lease on the row.
HoldsAnyLease(w) == rows[work[w].row].status = "leased"

\* WHERE id=$1 AND lease_token=$2 AND delivery_status='leased'.
Holds(w) ==
  /\ rows[work[w].row].status = "leased"
  /\ rows[work[w].row].lease = work[w].number

Answered(w) == work[w] # Null /\ work[w].stage = "answered"

Verdict(answer) ==
  IF answer.outcome = "review_required" \/ (answer.outcome = "duplicate" /\ ~answer.ledger)
  THEN "review_required" ELSE "acknowledged"

\* CHECK financial_funding_delivery_ack_shape.
AckShape(status, ledger) == status = "acknowledged" => ledger

Noted(a, n, outcome) == log' = [log EXCEPT ![a] = @ \cup {[number |-> n, outcome |-> outcome]}]

RecordSuccess(w) ==
  LET a == work[w].row
      answer == work[w].answer
      status == Verdict(answer)
  IN /\ Answered(w)
     /\ answer.outcome \in Success
     /\ Holds(w)
     /\ AckShape(status, answer.ledger)
     /\ rows' = [rows EXCEPT ![a].status = status, ![a].lease = Null,
                             ![a].ledger = answer.ledger]
     /\ Noted(a, work[w].number, status)
     /\ work' = [work EXCEPT ![w] = Null]
     /\ UNCHANGED <<reports, polling, sent, financial, slips>>

\* Mutant: one attempt too many.
IsPermanentAfter(attempt) ==
  attempt.answer.outcome = "permanent" \/ attempt.number > MaxAttempts

IsPermanent(attempt) ==
  attempt.answer.outcome = "permanent" \/ attempt.number >= MaxAttempts

\* Mutant: the lease token is not cleared.
RecordFailureKeepingLease(w) ==
  LET a == work[w].row
      permanent == IsPermanent(work[w])
  IN /\ Answered(w)
     /\ work[w].answer.outcome \in Failure
     /\ Holds(w)
     /\ rows' = [rows EXCEPT ![a].status = IF permanent THEN "dead_letter" ELSE "retry_wait",
                             ![a].ready = FALSE]
     /\ Noted(a, work[w].number, IF permanent THEN "permanent_failure" ELSE "retryable_failure")
     /\ reports' = [reports EXCEPT ![a] = IF permanent THEN @ + 1 ELSE @]
     /\ work' = [work EXCEPT ![w] = Null]
     /\ UNCHANGED <<polling, sent, financial, slips>>

RecordFailure(w) ==
  LET a == work[w].row
      permanent == IsPermanent(work[w])
  IN /\ Answered(w)
     /\ work[w].answer.outcome \in Failure
     /\ Holds(w)
     /\ rows' = [rows EXCEPT ![a].status = IF permanent THEN "dead_letter" ELSE "retry_wait",
                             ![a].lease = Null, ![a].ready = FALSE]
     /\ Noted(a, work[w].number, IF permanent THEN "permanent_failure" ELSE "retryable_failure")
     /\ reports' = [reports EXCEPT ![a] = IF permanent THEN @ + 1 ELSE @]
     /\ work' = [work EXCEPT ![w] = Null]
     /\ UNCHANGED <<polling, sent, financial, slips>>

\* The guarded UPDATE finds no row: the transaction rolls back.
LoseLease(w) ==
  /\ Answered(w)
  /\ ~Holds(w)
  /\ work' = [work EXCEPT ![w] = Null]
  /\ UNCHANGED <<rows, log, reports, polling, sent, financial, slips>>

\* The CHECK constraint aborts the transaction, and the row stays leased.
RefuseAcknowledgement(w) ==
  LET answer == work[w].answer
  IN /\ Answered(w)
     /\ answer.outcome \in Success
     /\ Holds(w)
     /\ ~AckShape(Verdict(answer), answer.ledger)
     /\ work' = [work EXCEPT ![w] = Null]
     /\ UNCHANGED <<rows, log, reports, polling, sent, financial, slips>>

\* The attempt ends with nothing recorded: the process crashes, the body
\* cannot be read, or the database cannot be reached.
Slip(w) ==
  /\ work[w] # Null \/ w \in polling
  /\ slips < MaxSlips
  /\ slips' = slips + 1
  /\ work' = [work EXCEPT ![w] = Null]
  /\ polling' = polling \ {w}
  /\ UNCHANGED <<rows, log, reports, sent, financial>>

-----------------------------------------------------------------------------
(* Time.                                                                   *)

RetryDue(a) ==
  /\ rows[a].status = "retry_wait"
  /\ ~rows[a].ready
  /\ rows' = [rows EXCEPT ![a].ready = TRUE]
  /\ UNCHANGED <<log, reports, work, polling, sent, financial, slips>>

InHand(a) == \E w \in Workers : work[w] # Null /\ work[w].row = a /\ Holds(w)

\* 60 seconds pass.  A worker gives a request up after 10, so a lease that
\* lapses under the worker that holds it is a slip.
LeaseLapses(a) ==
  /\ rows[a].status = "leased"
  /\ ~rows[a].ready
  /\ rows' = [rows EXCEPT ![a].ready = TRUE]
  /\ IF InHand(a) THEN slips < MaxSlips /\ slips' = slips + 1 ELSE slips' = slips
  /\ UNCHANGED <<log, reports, work, polling, sent, financial>>

-----------------------------------------------------------------------------
Deliver(w) ==
  \/ QuarantineLegacyRows(w)
  \/ \E a \in Attestations : Claim(w, a)
  \/ FindNothing(w)
  \/ Send(w)
  \/ GetAnswer(w)
  \/ RecordSuccess(w)
  \/ RecordFailure(w)
  \/ RefuseAcknowledgement(w)
  \/ LoseLease(w)

Next ==
  \/ \E w \in Workers : Deliver(w) \/ GetUnrecordable(w) \/ Slip(w)
  \/ \E a \in Attestations : File(a) \/ Post(a) \/ RetryDue(a) \/ LeaseLapses(a)

Spec == Init /\ [][Next]_vars

\* A worker is started again every poll interval and an attempt always ends:
\* the request is given up after 10 seconds.  Time passes.  Nothing is assumed
\* of Financial, and a worker may slip, but only MaxSlips times.
FairSpec == /\ Spec
            /\ \A w \in Workers : WF_vars(Deliver(w))
            /\ \A a \in Attestations : WF_vars(RetryDue(a)) /\ WF_vars(LeaseLapses(a))
-----------------------------------------------------------------------------
(* Properties.                                                             *)

\* Every row of the tables and every worker has its shape: a row has a lease
\* exactly while it is leased, and an acknowledged one its ledger transaction.
TypeOK ==
  /\ rows \in [Attestations -> Row]
  /\ \A a \in Attestations : /\ rows[a].status = "leased" <=> rows[a].lease # Null
                             /\ AckShape(rows[a].status, rows[a].ledger)
  /\ log \in [Attestations -> SUBSET Entry]
  /\ reports \in [Attestations -> Nat]
  /\ work \in [Workers -> Attempt \cup {Null}]
  /\ polling \subseteq Workers
  /\ sent \subseteq Attestations \ Legacy
  /\ financial \in [Attestations -> {"none", "held", "posted"}]
  /\ slips \in 0..MaxSlips

\* What the attempt log says of the row's latest attempt, by status.
StatusOf == [acknowledged      |-> "acknowledged",
             review_required   |-> "review_required",
             retryable_failure |-> "retry_wait",
             permanent_failure |-> "dead_letter"]

\* The status of a row is the outcome of its latest attempt: a worker whose
\* lease was taken over neither decides a row it no longer holds nor notes its
\* attempt, and one row never gets two entries for the same attempt.
StatusIsLatestAttempt ==
  \A a \in Attestations \ Legacy :
    /\ \A e \in log[a] : e.number = rows[a].attempts => rows[a].status = StatusOf[e.outcome]
    /\ rows[a].status \in {"retry_wait"} \cup Settled =>
         \E e \in log[a] : e.number = rows[a].attempts
    /\ \A e, f \in log[a] : e.number = f.number => e = f

\* Security is told that a delivery failed once, when the row is given up, and
\* never about a row that was, or still may be, delivered.
FailureReportedOnce ==
  \A a \in Attestations :
    reports[a] = IF rows[a].status = "dead_letter" THEN 1 ELSE 0

\* A row does not wait for a retry once it has had MaxAttempts attempts, and
\* only attempts that slipped take it past that number.
GivenUpInTime ==
  \A a \in Attestations :
    /\ rows[a].status = "retry_wait" => rows[a].attempts < MaxAttempts
    /\ rows[a].attempts <= MaxAttempts + slips

\* Every attestation is acknowledged, handed to review, given up or set aside,
\* whoever crashes on the way.
EveryAttestationSettles == \A a \in Attestations : <>(rows[a].status \in Settled)

\* The delivery implements the hand-over FundingHandoff promises: verdicts are
\* final, and "acknowledged" and "review_required" follow what Financial did.
Handoff == INSTANCE FundingHandoff WITH
  filed   <- financial,
  verdict <- [a \in Attestations |->
                IF rows[a].status \in Settled THEN rows[a].status ELSE "open"]
ImplementsFundingHandoff == Handoff!Spec
=============================================================================
