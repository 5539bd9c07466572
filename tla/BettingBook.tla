----------------------------- MODULE BettingBook -----------------------------
(***************************************************************************)
(* What the betting backend promises about a race's bets, without wallets, *)
(* requests or nines-financial: a bet is placed once, settled once and     *)
(* final after that.  Where this service keeps the money itself, the step  *)
(* that places a bet charges its owner, one settlement at a time holds a   *)
(* bet, and the step that settles it credits its owner if it won.          *)
(* Wagering implements this specification.                                 *)
(***************************************************************************)
EXTENDS Naturals

CONSTANTS Bets, Users, Null

VARIABLES
  local,      \* this service keeps the money itself
  status,     \* how far each bet has come, and its result once it is settled
  owner,      \* who placed it
  held,       \* the bets a settlement holds
  charged,    \* stakes taken from a user for a bet
  credited    \* winnings paid to a user for a bet

vars == <<local, status, owner, held, charged, credited>>

Init ==
  /\ local \in BOOLEAN
  /\ status = [b \in Bets |-> "absent"]
  /\ owner = [b \in Bets |-> Null]
  /\ held = {}
  /\ charged = [p \in Users \X Bets |-> 0]
  /\ credited = [p \in Users \X Bets |-> 0]

Place(u, b) ==
  /\ status[b] = "absent"
  /\ status' = [status EXCEPT ![b] = "placed"]
  /\ owner' = [owner EXCEPT ![b] = u]
  /\ charged' = IF local THEN [charged EXCEPT ![<<u, b>>] = @ + 1] ELSE charged
  /\ UNCHANGED <<local, held, credited>>

Hold(S) ==
  /\ local
  /\ \A b \in S : status[b] = "placed" /\ b \notin held
  /\ held' = held \cup S
  /\ UNCHANGED <<local, status, owner, charged, credited>>

LetGo(S) ==
  /\ held' = held \ S
  /\ UNCHANGED <<local, status, owner, charged, credited>>

\* One settlement may close all bets of the race at once.
Settle(result) ==
  /\ \A b \in DOMAIN result : status[b] = "placed" /\ (local => b \in held)
  /\ status' = [b \in Bets |-> IF b \in DOMAIN result THEN result[b] ELSE status[b]]
  /\ held' = held \ DOMAIN result
  /\ credited' = [p \in Users \X Bets |->
       IF local /\ p[2] \in DOMAIN result /\ result[p[2]] = "won" /\ owner[p[2]] = p[1]
       THEN credited[p] + 1 ELSE credited[p]]
  /\ UNCHANGED <<local, owner, charged>>

Next ==
  \/ \E S \in SUBSET Bets :
       \/ LetGo(S) \/ Hold(S)
       \/ \E result \in [S -> {"won", "lost", "void"}] : Settle(result)
  \/ \E u \in Users, b \in Bets : Place(u, b)

Spec == Init /\ [][Next]_vars

=============================================================================
