------------------------ MODULE VerificationStatus ------------------------
(***************************************************************************)
(* What the KYC lifecycle promises its readers: one verification attempt   *)
(* counts at a time, a decided attempt is never decided again, and a       *)
(* player starts over only with a newer attempt.                           *)
(***************************************************************************)
EXTENDS Naturals

VARIABLES
  status,   \* the player's KYC status
  attempt   \* the attempt it rests on, 0 before the first

UnderWay == {"pending", "manual_review"}
Startable == {"not_started", "failed", "expired"}

Init == status = "not_started" /\ attempt = 0

Start ==
  /\ status \in Startable
  /\ status' = "pending"
  /\ attempt' \in Nat
  /\ attempt' > attempt

Park == status = "pending" /\ status' = "manual_review" /\ UNCHANGED attempt

Resume == status = "manual_review" /\ status' = "pending" /\ UNCHANGED attempt

Conclude ==
  /\ status \in UnderWay
  /\ status' \in {"verified", "failed", "expired"}
  /\ UNCHANGED attempt

Lapse == status = "verified" /\ status' = "expired" /\ UNCHANGED attempt

Next == Start \/ Park \/ Resume \/ Conclude \/ Lapse

Spec == Init /\ [][Next]_<<status, attempt>>
=============================================================================
