------------------------------ MODULE Wagering ------------------------------
(***************************************************************************)
(* The historical betting backend, for one race: its pool at nines-financial*)
(* is opened and frozen with the race, bets are placed, settled and        *)
(* compared.  By configuration nines-financial is the authority and local  *)
(* bet rows are a read model, or the deprecated fallback is enabled and    *)
(* local wallets carry the money.                                          *)
(*                                                                         *)
(* Race, RaceState and nines-financial are external, seen as this code uses*)
(* them.  A bet's id is the request that generated it; a stake is one unit.*)
(***************************************************************************)
EXTENDS Integers, Sequences, FiniteSets, SequencesExt

CONSTANTS
  Requests,      \* POST /bets requests
  Users,         \* owners of one wallet each
  Selections,    \* horses of the race
  Keys,          \* idempotency keys clients send
  Settlers,      \* settlement requests under way at once
  Null,          \* SQL NULL
  AnswersLost,   \* may the answer to a pool call that took effect be lost?
  MaxEntries     \* bound on the ledger of a wallet when an administrator adds to it

ASSUME WageringAssumption ==
  /\ Null \notin Requests \cup Users \cup Selections \cup Keys \cup Settlers
  /\ Requests \cap Settlers = {}
  /\ IsFiniteSet(Requests)
  /\ AnswersLost \in BOOLEAN
  /\ MaxEntries \in Nat

VARIABLES
  fallback,    \* NINES_ENABLE_LEGACY_ALPHA_FINANCIAL_FALLBACK
  race,        \* lifecycle status and winner, in RaceState and in the races row
  pool,        \* nines-financial: status of the race's pool and its selections
  financial,   \* nines-financial: its bets by idempotency key
  calls,       \* the lifecycle service: its pool calls, in flight or completed
  bets,        \* the bets table
  balance,     \* wallets
  ledger,      \* wallet_ledger_entries by wallet
  holder,      \* the transaction that holds a wallet's row lock
  placing,     \* the requests to place a bet
  settling,    \* the requests to settle the race
  drift        \* a reconciliation under way

money == <<balance, ledger, holder>>
remote == <<pool, financial>>
vars == <<fallback, race, remote, calls, bets, money, placing, settling, drift>>

Race == [status : {"seeded", "running", "finished"}, winner : Selections \cup {Null}]
PoolStatus == {"absent", "open", "frozen", "settled", "manual_review"}
Pool == [status : PoolStatus, selections : SUBSET Selections]
Verdict == {"pending", "won", "lost", "void"}
FinancialBet == [bet : Requests, selection : Selections,
                 status : {"accepted", "rejected", "settled"}, result : Verdict]
Bet == [status : {"absent", "placed", "settled"}, user : Users \cup {Null},
        selection : Selections \cup {Null}, result : Verdict, payout : Nat]
Entry == [type : {"adjustment", "bet_stake", "settlement_credit"},
          bet : Requests \cup {Null}, delta : Int, after : Nat]
Placing == [stage : {"idle", "checked", "accepted", "locked", "done"}, user : Users \cup {Null},
            selection : Selections \cup {Null}, key : Keys \cup Requests \cup {Null},
            balance : Nat]
Settling == [stage : {"idle", "checked", "ready", "answered", "crediting"},
             winner : Selections \cup {Null}, batch : SUBSET Requests]
Call == {"none", "in_flight", "completed"}
Drift == [reading : BOOLEAN, rows : SUBSET Requests, placed : SUBSET Requests]

NewRace == [status |-> "seeded", winner |-> Null]
NoPool == [status |-> "absent", selections |-> {}]
Unread == [reading |-> FALSE, rows |-> {}, placed |-> {}]
NotSettling == [stage |-> "idle", winner |-> Null, batch |-> {}]

Init ==
  /\ fallback \in BOOLEAN
  /\ race = NewRace
  /\ pool = NoPool
  /\ financial = << >>
  /\ calls = [open |-> "none", freeze |-> "none"]
  /\ bets = [b \in Requests |-> [status |-> "absent", user |-> Null, selection |-> Null,
                                 result |-> "pending", payout |-> 0]]
  /\ balance = [u \in Users |-> 0]
  /\ ledger = [u \in Users |-> << >>]
  /\ holder = [u \in Users |-> Null]
  /\ placing = [p \in Requests |-> [stage |-> "idle", user |-> Null, selection |-> Null,
                                    key |-> Null, balance |-> 0]]
  /\ settling = [s \in Settlers |-> NotSettling]
  /\ drift = Unread

-----------------------------------------------------------------------------
(* The race, and RaceFinancialLifecycleService: calls of one process are   *)
(* coalesced, a failed one may be made again, a completed one never.  With *)
(* the fallback nothing asks for the pool, and its calls are left out.     *)

Advance ==
  /\ \/ race.status = "seeded" /\ race' = [race EXCEPT !.status = "running"]
     \/ /\ race.status = "running"
        /\ \E h \in Selections : race' = [status |-> "finished", winner |-> h]
  /\ UNCHANGED <<fallback, remote, calls, bets, money, placing, settling, drift>>

Begin(call) == calls[call] = "none" /\ calls' = [calls EXCEPT ![call] = "in_flight"]

EnsureRacePoolOpen ==
  /\ ~fallback
  /\ Begin("open")
  /\ UNCHANGED <<fallback, race, remote, bets, money, placing, settling, drift>>

\* createRacePool, under a key of its own; the pool may exist already.
CreateRacePool ==
  /\ calls.open = "in_flight" /\ pool.status = "absent"
  /\ pool' = [pool EXCEPT !.status = "open"]
  /\ UNCHANGED <<fallback, race, financial, calls, bets, money, placing, settling, drift>>

RegisterPoolSelection(h) ==
  /\ calls.open = "in_flight" /\ pool.status # "absent"
  /\ h \notin pool.selections
  /\ pool' = [pool EXCEPT !.selections = @ \cup {h}]
  /\ UNCHANGED <<fallback, race, financial, calls, bets, money, placing, settling, drift>>

FreezeRacePool ==
  /\ ~fallback
  /\ race.status # "seeded"
  /\ Begin("freeze")
  /\ UNCHANGED <<fallback, race, remote, bets, money, placing, settling, drift>>

FreezePool ==
  /\ calls.freeze = "in_flight" /\ pool.status = "open"
  /\ pool' = [pool EXCEPT !.status = "frozen"]
  /\ UNCHANGED <<fallback, race, financial, calls, bets, money, placing, settling, drift>>

Effected(call) ==
  IF call = "open" THEN pool.status # "absent" /\ pool.selections = Selections
  ELSE pool.status \notin {"absent", "open"}

\* The last answer arrived, or a call or, if AnswersLost, an answer was lost.
EndCall(call) ==
  /\ calls[call] = "in_flight"
  /\ \/ Effected(call) /\ calls' = [calls EXCEPT ![call] = "completed"]
     \/ (AnswersLost \/ ~Effected(call)) /\ calls' = [calls EXCEPT ![call] = "none"]
  /\ UNCHANGED <<fallback, race, remote, bets, money, placing, settling, drift>>

-----------------------------------------------------------------------------
(* Wallets: every change holds the row lock from its read to its commit.   *)

\* wallet_ledger_ref_uidx covers an entry that names a bet.
OnLedger(u, type, b) ==
  b # Null /\ \E n \in DOMAIN ledger[u] : ledger[u][n].bet = b /\ ledger[u][n].type = type

\* Mutant: a delta may take more than the wallet holds.
DeltaUnchecked(u, read, delta, type, b) ==
  /\ ~OnLedger(u, type, b)
  /\ balance' = [balance EXCEPT ![u] = read + delta]
  /\ ledger' = [ledger EXCEPT ![u] =
                  Append(@, [type |-> type, bet |-> b, delta |-> delta, after |-> read + delta])]

\* applyWalletDeltaInTransaction, from the balance the transaction has read.
Delta(u, read, delta, type, b) ==
  /\ read + delta >= 0
  /\ ~OnLedger(u, type, b)
  /\ balance' = [balance EXCEPT ![u] = read + delta]
  /\ ledger' = [ledger EXCEPT ![u] =
                  Append(@, [type |-> type, bet |-> b, delta |-> delta, after |-> read + delta])]

\* creditWallet and debitWallet, for an administrator.
AdjustWallet(u) ==
  /\ fallback
  /\ holder[u] = Null
  /\ Len(ledger[u]) < MaxEntries
  /\ \E delta \in {-1, 1} : Delta(u, balance[u], delta, "adjustment", Null)
  /\ UNCHANGED <<fallback, race, remote, calls, bets, holder, placing, settling, drift>>

Release(t) == holder' = [u \in Users |-> IF holder[u] = t THEN Null ELSE holder[u]]

-----------------------------------------------------------------------------
(* BetService.placeBet.                                                    *)

Step(p, stage) == placing' = [placing EXCEPT ![p].stage = stage]

\* The user may bet, and the race is open: nothing holds it open afterwards.
CheckRaceOpen(p) ==
  /\ placing[p].stage = "idle"
  /\ race.status = "seeded"
  /\ \E u \in Users, h \in Selections, k \in Keys \cup {p} :
       placing' = [placing EXCEPT ![p] = [stage |-> "checked", user |-> u, selection |-> h,
                                          key |-> k, balance |-> 0]]
  /\ UNCHANGED <<fallback, race, remote, calls, bets, money, settling, drift>>

\* nines-financial decides once for a key, and repeats its answer.
PlaceBet(p) ==
  /\ placing[p].stage = "checked" /\ ~fallback
  /\ LET k == placing[p].key
         h == placing[p].selection
     IN IF k \in DOMAIN financial
        THEN /\ Step(p, IF financial[k].status = "rejected" THEN "done" ELSE "accepted")
             /\ UNCHANGED financial
        ELSE \E accepts \in {pool.status = "open" /\ h \in pool.selections, FALSE} :
             /\ financial' = [j \in DOMAIN financial \cup {k} |->
                  IF j = k
                  THEN [bet |-> p, selection |-> h, result |-> "pending",
                        status |-> IF accepts THEN "accepted" ELSE "rejected"]
                  ELSE financial[j]]
             /\ Step(p, IF accepts THEN "accepted" ELSE "done")
  /\ UNCHANGED <<fallback, race, pool, calls, bets, money, settling, drift>>

CreateBet(p) ==
  bets' = [bets EXCEPT ![p] = [status |-> "placed", user |-> placing[p].user,
                               selection |-> placing[p].selection,
                               result |-> "pending", payout |-> 0]]

\* The local row is inserted after the answer, under this request's bet id.
RecordBet(p) ==
  /\ placing[p].stage = "accepted"
  /\ CreateBet(p)
  /\ Step(p, "done")
  /\ UNCHANGED <<fallback, race, remote, calls, money, settling, drift>>

\* Mutant: the wallet is read without its row lock.
LockAnyway(p) ==
  /\ placing[p].stage = "checked" /\ fallback
  /\ placing' = [placing EXCEPT ![p].stage = "locked", ![p].balance = balance[placing[p].user]]
  /\ UNCHANGED <<fallback, race, remote, calls, bets, money, settling, drift>>

\* placeBetViaLegacyAlphaMutation: findWalletByUserIdForUpdate.
LockWallet(p) ==
  /\ placing[p].stage = "checked" /\ fallback
  /\ holder[placing[p].user] = Null
  /\ holder' = [holder EXCEPT ![placing[p].user] = p]
  /\ placing' = [placing EXCEPT ![p].stage = "locked", ![p].balance = balance[placing[p].user]]
  /\ UNCHANGED <<fallback, race, remote, calls, bets, balance, ledger, settling, drift>>

\* Mutant: the bet is inserted in a transaction of its own.
TakeStakeApart(p) ==
  /\ placing[p].stage = "locked"
  /\ CreateBet(p)
  /\ \/ Delta(placing[p].user, placing[p].balance, -1, "bet_stake", p)
     \/ placing[p].balance = 0 /\ UNCHANGED <<balance, ledger>>
  /\ Release(p)
  /\ Step(p, "done")
  /\ UNCHANGED <<fallback, race, remote, calls, settling, drift>>

\* Bet, balance and ledger entry commit together; an insufficient balance
\* rolls back, as Stop does.
TakeStake(p) ==
  /\ placing[p].stage = "locked"
  /\ CreateBet(p)
  /\ Delta(placing[p].user, placing[p].balance, -1, "bet_stake", p)
  /\ Release(p)
  /\ Step(p, "done")
  /\ UNCHANGED <<fallback, race, remote, calls, settling, drift>>

\* A crash, a lost answer or a rollback.
Stop(p) ==
  /\ placing[p].stage \in {"checked", "accepted", "locked"}
  /\ Release(p)
  /\ Step(p, "done")
  /\ UNCHANGED <<fallback, race, remote, calls, bets, balance, ledger, settling, drift>>

-----------------------------------------------------------------------------
(* SettlementService.settleRaceBets.                                       *)

\* listUnsettledBetsByRaceId, FOR UPDATE.
Unsettled == {b \in Requests : bets[b].status = "placed"}

EnsureRaceCanSettle(s) ==
  /\ settling[s].stage = "idle"
  /\ race.status = "finished"
  /\ settling' = [settling EXCEPT ![s].stage = "checked", ![s].winner = race.winner]
  /\ UNCHANGED <<fallback, race, remote, calls, bets, money, placing, drift>>

\* assertFinancialPoolReadyForSettlementSubmit.
PoolReady(s) ==
  /\ settling[s].stage = "checked" /\ ~fallback
  /\ settling' = [settling EXCEPT ![s] =
                    IF pool.status \in {"frozen", "settled"} THEN [@ EXCEPT !.stage = "ready"]
                    ELSE NotSettling]
  /\ UNCHANGED <<fallback, race, remote, calls, bets, money, placing, drift>>

\* nines-financial settles the race once, or puts it under review.
SettleBet(s) ==
  /\ settling[s].stage = "ready"
  /\ \/ /\ pool.status = "frozen"
        /\ \E void \in BOOLEAN :
             financial' = [k \in DOMAIN financial |->
               IF financial[k].status # "accepted" THEN financial[k]
               ELSE [financial[k] EXCEPT
                       !.status = "settled",
                       !.result = IF void THEN "void"
                                  ELSE IF financial[k].selection = settling[s].winner
                                       THEN "won" ELSE "lost"]]
        /\ pool' = [pool EXCEPT !.status = "settled"]
        /\ settling' = [settling EXCEPT ![s].stage = "answered"]
     \/ /\ pool.status = "frozen"
        /\ pool' = [pool EXCEPT !.status = "manual_review"]
        /\ settling' = [settling EXCEPT ![s] = NotSettling]
        /\ UNCHANGED financial
     \/ /\ pool.status \in {"settled", "manual_review"}
        /\ settling' = [settling EXCEPT ![s] =
                          IF pool.status = "settled" THEN [@ EXCEPT !.stage = "answered"]
                          ELSE NotSettling]
        /\ UNCHANGED remote
  /\ UNCHANGED <<fallback, race, calls, bets, money, placing, drift>>

Payout == [pending |-> 0, lost |-> 0, void |-> 1, won |-> 2]

MarkBetSettled(b, result) ==
  [bets[b] EXCEPT !.status = "settled", !.result = result, !.payout = Payout[result]]

Settled == {k \in DOMAIN financial : financial[k].status = "settled"}

\* Mutant: the local selection and winner decide what a bet has won.
LocalResult(k) == IF bets[financial[k].bet].selection = race.winner THEN "won" ELSE "lost"

FinancialResult(k) == financial[k].result

\* The local rows that match a result, in one transaction.
ApplyResults(s) ==
  /\ settling[s].stage = "answered"
  /\ bets' = [b \in Requests |->
                IF b \in Unsettled /\ \E k \in Settled : financial[k].bet = b
                THEN MarkBetSettled(b, FinancialResult(CHOOSE k \in Settled : financial[k].bet = b))
                ELSE bets[b]]
  /\ settling' = [settling EXCEPT ![s] = NotSettling]
  /\ UNCHANGED <<fallback, race, remote, calls, money, placing, drift>>

\* Mutant: the bets are listed without their row locks.
LockBetsAnyway(s) ==
  /\ settling[s].stage = "checked" /\ fallback
  /\ settling' = [settling EXCEPT ![s].stage = "crediting", ![s].batch = Unsettled]
  /\ UNCHANGED <<fallback, race, remote, calls, bets, money, placing, drift>>

\* settleRaceBetsViaLegacyAlphaMutation: the rows stay locked to the commit.
LockBets(s) ==
  /\ settling[s].stage = "checked" /\ fallback
  /\ \A t \in Settlers : settling[t].batch \cap Unsettled = {}
  /\ settling' = [settling EXCEPT ![s].stage = "crediting", ![s].batch = Unsettled]
  /\ UNCHANGED <<fallback, race, remote, calls, bets, money, placing, drift>>

\* The bets of the batch that a wallet is credited for.
Winners(s, u) ==
  {b \in settling[s].batch : bets[b].user = u /\ bets[b].selection = settling[s].winner}

CreditWallet(s, u) ==
  /\ settling[s].stage = "crediting"
  /\ Winners(s, u) # {}
  /\ holder[u] = Null
  /\ holder' = [holder EXCEPT ![u] = s]
  /\ UNCHANGED <<fallback, race, remote, calls, bets, balance, ledger, placing, settling, drift>>

Credits(s, u) ==
  LET won == SetToSeq(Winners(s, u))
  IN [n \in DOMAIN won |->
        [type |-> "settlement_credit", bet |-> won[n], delta |-> Payout.won,
         after |-> balance[u] + n * Payout.won]]

\* Rows, wallets and ledger entries commit together.
CommitSettlement(s) ==
  /\ settling[s].stage = "crediting"
  /\ \A u \in Users :
       /\ Winners(s, u) # {} => holder[u] = s
       /\ \A b \in Winners(s, u) : ~OnLedger(u, "settlement_credit", b)
  /\ balance' = [u \in Users |-> balance[u] + Cardinality(Winners(s, u)) * Payout.won]
  /\ ledger' = [u \in Users |-> ledger[u] \o Credits(s, u)]
  /\ bets' = [b \in Requests |->
                IF b \notin settling[s].batch THEN bets[b]
                ELSE MarkBetSettled(b, IF b \in Winners(s, bets[b].user) THEN "won" ELSE "lost")]
  /\ Release(s)
  /\ settling' = [settling EXCEPT ![s] = NotSettling]
  /\ UNCHANGED <<fallback, race, remote, calls, placing, drift>>

\* A crash, a lost answer or a rollback.
Abort(s) ==
  /\ settling[s].stage # "idle"
  /\ Release(s)
  /\ settling' = [settling EXCEPT ![s] = NotSettling]
  /\ UNCHANGED <<fallback, race, remote, calls, bets, balance, ledger, placing, drift>>

-----------------------------------------------------------------------------
(* FinancialReconciliationService.detectRaceDrift: the local bets are read *)
(* first, the financial bets last.  (What it says of race and pool is      *)
(* computed from reads before these.)                                      *)

ReadLocalBets ==
  /\ ~fallback
  /\ ~drift.reading
  /\ drift' = [reading |-> TRUE, placed |-> Unsettled,
               rows |-> {b \in Requests : bets[b].status # "absent"}]
  /\ UNCHANGED <<fallback, race, remote, calls, bets, money, placing, settling>>

BetsWithStatus(status) ==
  {financial[k].bet : k \in {j \in DOMAIN financial : financial[j].status = status}}

\* Mutant: accepted bets are looked for in an open pool only.
AcceptedInOpenPool == IF pool.status = "open" THEN BetsWithStatus("accepted") ELSE {}

Accepted == BetsWithStatus("accepted")

\* What the report says of bets if it reads the financial bets now.
Issues ==
  [code : {"row_missing"}, bet : Accepted \ drift.rows]
  \cup [code : {"bet_missing"}, bet : drift.placed \ Accepted]

Detect ==
  /\ drift.reading
  /\ drift' = Unread
  /\ UNCHANGED <<fallback, race, remote, calls, bets, money, placing, settling>>

-----------------------------------------------------------------------------
Next ==
  \/ Advance
  \/ EnsureRacePoolOpen \/ CreateRacePool \/ FreezeRacePool \/ FreezePool
  \/ \E h \in Selections : RegisterPoolSelection(h)
  \/ EndCall("open") \/ EndCall("freeze")
  \/ \E u \in Users : AdjustWallet(u)
  \/ \E p \in Requests :
       \/ CheckRaceOpen(p) \/ PlaceBet(p) \/ RecordBet(p)
       \/ LockWallet(p) \/ TakeStake(p) \/ Stop(p)
  \/ \E s \in Settlers :
       \/ EnsureRaceCanSettle(s) \/ PoolReady(s) \/ SettleBet(s) \/ ApplyResults(s)
       \/ LockBets(s) \/ CommitSettlement(s) \/ Abort(s)
       \/ \E u \in Users : CreditWallet(s, u)
  \/ ReadLocalBets \/ Detect

Spec == Init /\ [][Next]_vars

-----------------------------------------------------------------------------
(* Properties.                                                             *)

\* Types of the rows, and of what requests and reports hold; no balance, and
\* no balance after an entry, is negative.
TypeOK ==
  /\ fallback \in BOOLEAN
  /\ race \in Race /\ pool \in Pool
  /\ DOMAIN financial \subseteq Keys \cup Requests
  /\ \A k \in DOMAIN financial : financial[k] \in FinancialBet
  /\ calls \in [{"open", "freeze"} -> Call]
  /\ bets \in [Requests -> Bet]
  /\ balance \in [Users -> Nat]
  /\ \A u \in Users : \A n \in DOMAIN ledger[u] : ledger[u][n] \in Entry
  /\ holder \in [Users -> Requests \cup Settlers \cup {Null}]
  /\ placing \in [Requests -> Placing]
  /\ settling \in [Settlers -> Settling]
  /\ drift \in Drift

\* A balance is what its ledger adds up to, although placements, settlements
\* and administrators change one wallet at once (walletService.ts:39-89).
LedgerMatchesBalance ==
  \A u \in Users :
    LET entries == ledger[u]
        before(n) == IF n = 1 THEN 0 ELSE entries[n - 1].after
    IN /\ \A n \in DOMAIN entries : entries[n].after = before(n) + entries[n].delta
       /\ balance[u] = before(Len(entries) + 1)

\* The entries of a type that a user's ledger has for a bet.
Entries(u, b, type) ==
  Cardinality({n \in DOMAIN ledger[u] : ledger[u][n].bet = b /\ ledger[u][n].type = type})

\* A bet of the fallback took one stake from its owner and, if it won, earned
\* them one credit; what a settlement is about to credit is unsettled still.
PaidOnce ==
  fallback =>
    /\ \A b \in Requests, u \in Users :
         LET owned == bets[b].status # "absent" /\ bets[b].user = u
         IN /\ Entries(u, b, "bet_stake") = IF owned THEN 1 ELSE 0
            /\ Entries(u, b, "settlement_credit") =
                 IF owned /\ bets[b].result = "won" THEN 1 ELSE 0
    /\ \A s \in Settlers : settling[s].batch \subseteq {b \in Requests : bets[b].status = "placed"}

\* Behind every local bet is an acceptance under the key of its request, and a
\* settled one says what nines-financial settled for that very bet, however
\* placement, settlement and its repetition overlap.
LocalMatchesFinancial ==
  ~fallback =>
    \A b \in Requests :
      /\ bets[b].status # "absent" =>
           /\ placing[b].key \in DOMAIN financial
           /\ financial[placing[b].key].status # "rejected"
      /\ bets[b].status = "settled" =>
           \E k \in DOMAIN financial :
             /\ financial[k].bet = b /\ financial[k].status = "settled"
             /\ financial[k].result = bets[b].result

\* A report misses no accepted bet that has no local row, and of a local bet
\* it calls unmatched there is no acceptance under the bet's own id: the order
\* of the reads makes it so, while bets are placed and settled.
DriftNotOverlooked ==
  drift.reading =>
    \A k \in DOMAIN financial :
      LET b == financial[k].bet
      IN financial[k].status = "accepted" =>
           /\ bets[b].status = "absent" => [code |-> "row_missing", bet |-> b] \in Issues
           /\ [code |-> "bet_missing", bet |-> b] \notin Issues

\* A bet, as BettingBook sees it.
BookStatus(b) == IF bets[b].status = "settled" THEN bets[b].result ELSE bets[b].status

Book == INSTANCE BettingBook WITH
  Bets <- Requests,
  local <- fallback,
  status <- [b \in Requests |-> BookStatus(b)],
  owner <- [b \in Requests |-> bets[b].user],
  held <- UNION {settling[s].batch : s \in Settlers},
  charged <- [p \in Users \X Requests |-> Entries(p[1], p[2], "bet_stake")],
  credited <- [p \in Users \X Requests |-> Entries(p[1], p[2], "settlement_credit")]

\* Whatever requests, settlements and administrators do at once, a bet is
\* placed once and settled once; with the fallback the step that places it is
\* the one that charges its owner, the step that settles it is of the one
\* settlement that holds it and credits a winner, and no ledger moves for a
\* bet otherwise (betService.ts:241-317, settlementService.ts:92-290).
ImplementsBettingBook == Book!Spec
=============================================================================
