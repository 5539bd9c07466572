-------------------------- MODULE MCKycVerification --------------------------
(***************************************************************************)
(* Small instances of KycVerification for TLC.                             *)
(***************************************************************************)
EXTENDS KycVerification, TLC

CONSTANTS r1, r2, r3, h1, h2, a1, a2, k1

Interchangeable == Permutations(Requests) \cup Permutations(Handlers) \cup Permutations(Admins)
=============================================================================
