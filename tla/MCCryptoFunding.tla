-------------------------- MODULE MCCryptoFunding --------------------------
(***************************************************************************)
(* Small instances of CryptoFunding for TLC: the provider's repertoire of  *)
(* event contents, chosen for the question of each run.                    *)
(***************************************************************************)
EXTENDS CryptoFunding, TLC

CONSTANTS i1, i2, e1, e2, e3, r1, r2

ReportOf(ref, claim, owned, status, value, at) ==
  [ref |-> ref, claim |-> claim, owned |-> owned, status |-> status,
   value |-> value, at |-> at]

\* One intent: everything the provider can say about a session it holds, with
\* and without the claim that names the intent.
LifecycleReports ==
  {ReportOf(i1, c, TRUE, s, "EXACT", t) :
     c \in {Null, i1}, s \in {"payment_detected", "confirming", "confirmed"}, t \in {0, 1, 2}}
  \cup {ReportOf(i1, Null, TRUE, s, "EXACT", 1) : s \in {"failed", "expired"}}
  \cup {ReportOf(i1, Null, TRUE, "confirmed", "UNDERPAID", 1)}

\* Two intents, a reference nobody was given, claims of the wrong intent and
\* the wrong player, and a provider clock that runs ahead.
OwnershipReports ==
  {ReportOf(i1, c, o, "confirmed", "EXACT", 1) : c \in {Null, i1, i2}, o \in BOOLEAN}
  \cup {ReportOf(Foreign, c, TRUE, "confirmed", "EXACT", 1) : c \in {Null, i1, i2}}
  \cup {ReportOf(i2, i2, TRUE, "confirming", v, 1) : v \in {"EXACT", "ASSET_MISMATCH"}}
  \cup {ReportOf(i2, Null, TRUE, "confirmed", "OVERPAID", 3)}

Interchangeable == Permutations(Requests) \cup Permutations(Events)
=============================================================================
