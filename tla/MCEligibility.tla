--------------------------- MODULE MCEligibility ---------------------------
(***************************************************************************)
(* A small instance of Eligibility for TLC.                                *)
(***************************************************************************)
EXTENDS Eligibility

CONSTANTS q1, q2
=============================================================================
