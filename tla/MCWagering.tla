----------------------------- MODULE MCWagering -----------------------------
(***************************************************************************)
(* A small instance of Wagering for TLC.                                   *)
(***************************************************************************)
EXTENDS Wagering

CONSTANTS p1, p2, h1, h2, u1, u2, k1, s1, s2

Interchangeable ==
  Permutations(Requests) \cup Permutations(Selections)
  \cup Permutations(Users) \cup Permutations(Settlers)
=============================================================================
