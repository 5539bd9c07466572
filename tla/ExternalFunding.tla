-------------------------- MODULE ExternalFunding --------------------------
(***************************************************************************)
(* What external crypto funding promises, without saying how: an intent    *)
(* that was requested either closes with nothing issued, or is funded in   *)
(* the very step that issues its one attestation to the financial service. *)
(* CryptoFunding implements this specification.                            *)
(***************************************************************************)
CONSTANT Intents

VARIABLES
  phase,    \* how far the funding of each intent has come
  issued    \* the intents whose funding has been attested

vars == <<phase, issued>>

Init ==
  /\ phase = [k \in Intents |-> "absent"]
  /\ issued = {}

Request(k) ==
  /\ phase[k] = "absent"
  /\ phase' = [phase EXCEPT ![k] = "open"]
  /\ UNCHANGED issued

Fund(k) ==
  /\ phase[k] = "open"
  /\ phase' = [phase EXCEPT ![k] = "funded"]
  /\ issued' = issued \cup {k}

\* One expiry batch may close several intents at once.
Close(S) ==
  /\ \A k \in S : phase[k] = "open"
  /\ phase' = [k \in Intents |-> IF k \in S THEN "closed" ELSE phase[k]]
  /\ UNCHANGED issued

Next ==
  \/ \E k \in Intents : Request(k) \/ Fund(k)
  \/ \E S \in SUBSET Intents : Close(S)

Spec == Init /\ [][Next]_vars

=============================================================================
