--------------------------- MODULE FundingHandoff ---------------------------
(***************************************************************************)
(* What the delivery of funding attestations promises, whoever delivers    *)
(* them and however often: Financial files each attestation at its own     *)
(* pace, and the verdict this service records about it is given once, is   *)
(* never taken back, and never runs ahead of what Financial did.           *)
(***************************************************************************)
CONSTANTS Attestations, Legacy

VARIABLES
  filed,    \* what Financial has done with each attestation
  verdict   \* what this service has concluded about it

vars == <<filed, verdict>>

Filed == {"none", "held", "posted"}
Verdict == {"open", "acknowledged", "review_required", "dead_letter",
            "legacy_reconciliation_required"}

Init == /\ filed = [a \in Attestations |-> "none"]
        /\ verdict = [a \in Attestations |-> "open"]

\* Financial takes an attestation in, with or without a ledger transaction,
\* and may post later what it first held back.
File(a, state) ==
  /\ a \notin Legacy
  /\ <<filed[a], state>> \in {<<"none", "held">>, <<"none", "posted">>, <<"held", "posted">>}
  /\ filed' = [filed EXCEPT ![a] = state]
  /\ UNCHANGED verdict

Warranted(a, v) ==
  \/ v = "acknowledged" /\ filed[a] = "posted"
  \/ v = "review_required" /\ filed[a] # "none"
  \/ v = "dead_letter" /\ a \notin Legacy

Conclude(a, v) ==
  /\ verdict[a] = "open"
  /\ Warranted(a, v)
  /\ verdict' = [verdict EXCEPT ![a] = v]
  /\ UNCHANGED filed

SetAside(S) ==
  /\ S \subseteq {a \in Legacy : verdict[a] = "open"}
  /\ verdict' = [a \in Attestations |->
                   IF a \in S THEN "legacy_reconciliation_required" ELSE verdict[a]]
  /\ UNCHANGED filed

Next == \/ \E a \in Attestations : \E s \in Filed : File(a, s)
        \/ \E a \in Attestations : \E v \in Verdict : Conclude(a, v)
        \/ \E S \in SUBSET Legacy : SetAside(S)

Spec == Init /\ [][Next]_vars
=============================================================================
