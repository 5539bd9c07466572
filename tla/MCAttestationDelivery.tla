----------------------- MODULE MCAttestationDelivery -----------------------
(***************************************************************************)
(* Small instances of AttestationDelivery for TLC.                         *)
(***************************************************************************)
EXTENDS AttestationDelivery, TLC

CONSTANTS w1, w2

Interchangeable == Permutations(Workers)
=============================================================================
