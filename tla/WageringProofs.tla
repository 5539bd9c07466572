--------------------------- MODULE WageringProofs ---------------------------
(***************************************************************************)
(* Theorems about Wagering for every number of requests, wallets,          *)
(* selections, keys and settlers.                                          *)
(***************************************************************************)
EXTENDS Wagering, FiniteSetTheorems, SequenceTheorems, TLAPS

-----------------------------------------------------------------------------
(* Types, and how far a request can be in each mode *)

Sequenced == ledger \in [Users -> Seq(Entry)]

\* A request on its way has chosen what to bet; only the fallback locks wallets
\* and rows, only the delegated mode has answers of nines-financial.
Stages ==
  /\ \A p \in Requests :
       /\ placing[p].stage # "idle" =>
            /\ placing[p].user \in Users /\ placing[p].selection \in Selections
            /\ placing[p].key \in Keys \cup Requests
       /\ placing[p].stage = "accepted" => ~fallback
       /\ placing[p].stage = "locked" => fallback
  /\ \A s \in Settlers :
       /\ settling[s].stage \in {"ready", "answered"} => ~fallback
       /\ settling[s].stage = "crediting" => fallback
       /\ settling[s].stage # "crediting" => settling[s].batch = {}

Typed == TypeOK /\ Sequenced /\ Stages

\* A delta appends one typed entry and leaves no balance below zero.
LEMMA DeltaTyped ==
  ASSUME Typed, NEW u \in Users, NEW read \in Nat, NEW delta \in Int,
         NEW type \in {"adjustment", "bet_stake", "settlement_credit"},
         NEW b \in Requests \cup {Null}, Delta(u, read, delta, type, b)
  PROVE  /\ balance' \in [Users -> Nat]
         /\ ledger' \in [Users -> Seq(Entry)]
         /\ \A w \in Users : \A n \in DOMAIN ledger'[w] : ledger'[w][n] \in Entry
<1> DEFINE x == [type |-> type, bet |-> b, delta |-> delta, after |-> read + delta]
<1>1. read + delta \in Nat
  BY DEF Delta
<1>2. x \in Entry
  BY <1>1 DEF Entry
<1>3. ledger' = [ledger EXCEPT ![u] = Append(@, x)] /\ balance' = [balance EXCEPT ![u] = read + delta]
  BY DEF Delta
<1> HIDE DEF x
<1>4. Append(ledger[u], x) \in Seq(Entry)
  BY <1>2 DEF Typed, Sequenced
<1>5. ledger' \in [Users -> Seq(Entry)]
  BY <1>3, <1>4 DEF Typed, Sequenced
<1>6. balance' \in [Users -> Nat]
  BY <1>1, <1>3 DEF Typed, TypeOK
<1>7. QED
  BY <1>5, <1>6

LEMMA CreateBetTyped ==
  ASSUME Typed, NEW p \in Requests, placing[p].stage # "idle", CreateBet(p)
  PROVE  bets' \in [Requests -> Bet]
BY DEF Typed, TypeOK, Stages, CreateBet, Bet, Verdict

LEMMA PayoutTyped ==
  ASSUME NEW result \in Verdict
  PROVE  Payout[result] \in Nat
<1>1. Payout.pending = 0 /\ Payout.lost = 0 /\ Payout.void = 1 /\ Payout.won = 2
  BY DEF Payout
<1>2. QED
  BY <1>1 DEF Verdict

LEMMA SettledTyped ==
  ASSUME Typed, NEW b \in Requests, NEW result \in Verdict
  PROVE  /\ MarkBetSettled(b, result) \in Bet
         /\ MarkBetSettled(b, result).status = "settled"
         /\ MarkBetSettled(b, result).result = result
         /\ MarkBetSettled(b, result).user = bets[b].user
BY PayoutTyped DEF Typed, TypeOK, Bet, MarkBetSettled

LEMMA StepTyped ==
  ASSUME Typed, NEW p \in Requests, NEW stage \in {"accepted", "done"}, Step(p, stage)
  PROVE  /\ placing' \in [Requests -> Placing]
         /\ placing'[p].stage = stage
         /\ placing'[p].user = placing[p].user /\ placing'[p].key = placing[p].key
         /\ placing'[p].selection = placing[p].selection
         /\ \A q \in Requests \ {p} : placing'[q] = placing[q]
BY DEF Typed, TypeOK, Step, Placing

LEMMA ReleaseTyped ==
  ASSUME Typed, NEW t, Release(t)
  PROVE  holder' \in [Users -> Requests \cup Settlers \cup {Null}]
BY DEF Typed, TypeOK, Release

LEMMA RaceTyped ==
  ASSUME Typed, Advance \/ EnsureRacePoolOpen \/ CreateRacePool \/ FreezeRacePool \/ FreezePool
                \/ (\E h \in Selections : RegisterPoolSelection(h))
                \/ EndCall("open") \/ EndCall("freeze") \/ ReadLocalBets \/ Detect
  PROVE  Typed'
<1>1. CASE Advance
  BY <1>1 DEF Advance, Typed, TypeOK, Sequenced, Stages, Race, money, remote
<1>2. CASE EnsureRacePoolOpen
  BY <1>2 DEF EnsureRacePoolOpen, Begin, Typed, TypeOK, Sequenced, Stages, Call, money, remote
<1>3. CASE CreateRacePool
  BY <1>3 DEF CreateRacePool, Typed, TypeOK, Sequenced, Stages, Pool, PoolStatus, money
<1>4. CASE FreezeRacePool
  BY <1>4 DEF FreezeRacePool, Begin, Typed, TypeOK, Sequenced, Stages, Call, money, remote
<1>5. CASE FreezePool
  BY <1>5 DEF FreezePool, Typed, TypeOK, Sequenced, Stages, Pool, PoolStatus, money
<1>6. CASE \E h \in Selections : RegisterPoolSelection(h)
  <2>1. pool' \in Pool
    BY <1>6 DEF RegisterPoolSelection, Typed, TypeOK, Pool
  <2>2. QED
    BY <1>6, <2>1 DEF RegisterPoolSelection, Typed, TypeOK, Sequenced, Stages, money
<1>7. CASE EndCall("open") \/ EndCall("freeze")
  BY <1>7 DEF EndCall, Typed, TypeOK, Sequenced, Stages, Call, money, remote
<1>8. CASE ReadLocalBets
  BY <1>8 DEF ReadLocalBets, Unsettled, Typed, TypeOK, Sequenced, Stages, Drift, money, remote
<1>9. CASE Detect
  BY <1>9 DEF Detect, Unread, Typed, TypeOK, Sequenced, Stages, Drift, money, remote
<1>10. QED
  BY <1>1, <1>2, <1>3, <1>4, <1>5, <1>6, <1>7, <1>8, <1>9

LEMMA AdjustTyped ==
  ASSUME Typed, NEW u \in Users, AdjustWallet(u)
  PROVE  Typed'
<1>1. PICK delta \in {-1, 1} : Delta(u, balance[u], delta, "adjustment", Null)
  BY DEF AdjustWallet
<1>2. balance[u] \in Nat
  BY DEF Typed, TypeOK
<1>3. /\ balance' \in [Users -> Nat]
      /\ ledger' \in [Users -> Seq(Entry)]
      /\ \A w \in Users : \A n \in DOMAIN ledger'[w] : ledger'[w][n] \in Entry
  BY <1>1, <1>2, DeltaTyped
<1>4. QED
  BY <1>3 DEF AdjustWallet, Typed, TypeOK, Sequenced, Stages, remote

LEMMA PlacingTyped ==
  ASSUME Typed, NEW p \in Requests,
         CheckRaceOpen(p) \/ PlaceBet(p) \/ RecordBet(p) \/ LockWallet(p) \/ TakeStake(p) \/ Stop(p)
  PROVE  Typed'
<1>1. CASE CheckRaceOpen(p)
  <2>1. PICK u \in Users, h \in Selections, k \in Keys \cup {p} :
           placing' = [placing EXCEPT ![p] = [stage |-> "checked", user |-> u, selection |-> h,
                                              key |-> k, balance |-> 0]]
    BY <1>1 DEF CheckRaceOpen
  <2> DEFINE x == [stage |-> "checked", user |-> u, selection |-> h, key |-> k, balance |-> 0]
  <2>2. /\ x \in Placing /\ x.stage = "checked" /\ x.user = u /\ x.selection = h /\ x.key = k
        /\ x.user \in Users /\ x.selection \in Selections /\ x.key \in Keys \cup Requests
    BY DEF Placing
  <2> HIDE DEF x
  <2>3. /\ placing' \in [Requests -> Placing] /\ placing'[p] = x
        /\ \A q \in Requests \ {p} : placing'[q] = placing[q]
    BY <2>1, <2>2 DEF x, Typed, TypeOK
  <2>4. Stages'
    BY <1>1, <2>2, <2>3 DEF CheckRaceOpen, Typed, Stages
  <2>5. QED
    BY <1>1, <2>3, <2>4 DEF CheckRaceOpen, Typed, TypeOK, Sequenced, remote, money
<1>2. CASE PlaceBet(p)
  <2> DEFINE k == placing[p].key
             h == placing[p].selection
  <2>1. placing[p].stage = "checked" /\ ~fallback /\ k \in Keys \cup Requests /\ h \in Selections
    BY <1>2 DEF PlaceBet, Typed, Stages
  <2>2. \E stage \in {"accepted", "done"} : Step(p, stage)
    BY <1>2 DEF PlaceBet
  <2>3. /\ placing' \in [Requests -> Placing]
        /\ placing'[p].stage \in {"accepted", "done"}
        /\ placing'[p].user = placing[p].user /\ placing'[p].key = placing[p].key
        /\ placing'[p].selection = placing[p].selection
        /\ \A q \in Requests \ {p} : placing'[q] = placing[q]
    BY <2>2, StepTyped
  <2>4. Stages'
    BY <1>2, <2>1, <2>3 DEF PlaceBet, Typed, Stages
  <2>5. /\ DOMAIN financial' \subseteq Keys \cup Requests
        /\ \A j \in DOMAIN financial' : financial'[j] \in FinancialBet
    <3>1. CASE UNCHANGED financial
      BY <3>1 DEF Typed, TypeOK
    <3>2. CASE k \notin DOMAIN financial /\
               \E accepts \in BOOLEAN : financial' = [j \in DOMAIN financial \cup {k} |->
                  IF j = k
                  THEN [bet |-> p, selection |-> h, result |-> "pending",
                        status |-> IF accepts THEN "accepted" ELSE "rejected"]
                  ELSE financial[j]]
      BY <2>1, <3>2 DEF Typed, TypeOK, FinancialBet, Verdict
    <3>3. QED
      BY <1>2, <3>1, <3>2 DEF PlaceBet
  <2>6. QED
    BY <1>2, <2>3, <2>4, <2>5 DEF PlaceBet, Typed, TypeOK, Sequenced, money
<1>3. CASE RecordBet(p)
  <2>1. bets' \in [Requests -> Bet]
    BY <1>3, CreateBetTyped DEF RecordBet
  <2>2. /\ placing' \in [Requests -> Placing]
        /\ placing'[p].stage = "done"
        /\ placing'[p].user = placing[p].user /\ placing'[p].key = placing[p].key
        /\ placing'[p].selection = placing[p].selection
        /\ \A q \in Requests \ {p} : placing'[q] = placing[q]
    BY <1>3, StepTyped DEF RecordBet
  <2>3. Stages'
    BY <1>3, <2>2 DEF RecordBet, Typed, Stages
  <2>4. QED
    BY <1>3, <2>1, <2>2, <2>3 DEF RecordBet, Typed, TypeOK, Sequenced, remote, money
<1>4. CASE LockWallet(p)
  <2>1. placing[p].stage = "checked" /\ fallback /\ placing[p].user \in Users
    BY <1>4 DEF LockWallet, Typed, Stages
  <2>2. balance[placing[p].user] \in Nat
    BY <2>1 DEF Typed, TypeOK
  <2>3. /\ placing' \in [Requests -> Placing]
        /\ placing'[p].stage = "locked"
        /\ placing'[p].user = placing[p].user /\ placing'[p].key = placing[p].key
        /\ placing'[p].selection = placing[p].selection
        /\ \A q \in Requests \ {p} : placing'[q] = placing[q]
    <3> DEFINE x == [placing[p] EXCEPT !.stage = "locked", !.balance = balance[placing[p].user]]
    <3>1. /\ x \in Placing /\ x.stage = "locked"
          /\ x.user = placing[p].user /\ x.key = placing[p].key /\ x.selection = placing[p].selection
      BY <2>2 DEF Typed, TypeOK, Placing
    <3>2. placing' = [placing EXCEPT ![p] = x]
      BY <1>4 DEF LockWallet
    <3> HIDE DEF x
    <3>3. QED
      BY <3>1, <3>2 DEF Typed, TypeOK
  <2>4. holder' \in [Users -> Requests \cup Settlers \cup {Null}]
    BY <1>4 DEF LockWallet, Typed, TypeOK
  <2>5. Stages'
    BY <1>4, <2>1, <2>3 DEF LockWallet, Typed, Stages
  <2>6. QED
    BY <1>4, <2>3, <2>4, <2>5 DEF LockWallet, Typed, TypeOK, Sequenced, remote
<1>5. CASE TakeStake(p)
  <2>1. placing[p].stage = "locked" /\ placing[p].user \in Users /\ placing[p].balance \in Nat
    BY <1>5 DEF TakeStake, Typed, TypeOK, Stages, Placing
  <2>2. bets' \in [Requests -> Bet]
    BY <1>5, <2>1, CreateBetTyped DEF TakeStake
  <2>3. /\ placing' \in [Requests -> Placing]
        /\ placing'[p].stage = "done"
        /\ placing'[p].user = placing[p].user /\ placing'[p].key = placing[p].key
        /\ placing'[p].selection = placing[p].selection
        /\ \A q \in Requests \ {p} : placing'[q] = placing[q]
    BY <1>5, StepTyped DEF TakeStake
  <2>4. /\ balance' \in [Users -> Nat]
        /\ ledger' \in [Users -> Seq(Entry)]
        /\ \A w \in Users : \A n \in DOMAIN ledger'[w] : ledger'[w][n] \in Entry
    BY <1>5, <2>1, DeltaTyped DEF TakeStake
  <2>5. holder' \in [Users -> Requests \cup Settlers \cup {Null}]
    BY <1>5, ReleaseTyped DEF TakeStake
  <2>6. Stages'
    BY <1>5, <2>3 DEF TakeStake, Typed, Stages
  <2>7. QED
    BY <1>5, <2>2, <2>3, <2>4, <2>5, <2>6 DEF TakeStake, Typed, TypeOK, Sequenced, remote
<1>6. CASE Stop(p)
  <2>1. /\ placing' \in [Requests -> Placing]
        /\ placing'[p].stage = "done"
        /\ placing'[p].user = placing[p].user /\ placing'[p].key = placing[p].key
        /\ placing'[p].selection = placing[p].selection
        /\ \A q \in Requests \ {p} : placing'[q] = placing[q]
    BY <1>6, StepTyped DEF Stop
  <2>2. holder' \in [Users -> Requests \cup Settlers \cup {Null}]
    BY <1>6, ReleaseTyped DEF Stop
  <2>3. Stages'
    BY <1>6, <2>1 DEF Stop, Typed, Stages
  <2>4. QED
    BY <1>6, <2>1, <2>2, <2>3 DEF Stop, Typed, TypeOK, Sequenced, remote
<1>7. QED
  BY <1>1, <1>2, <1>3, <1>4, <1>5, <1>6

\* The enumeration of a finite set: each element once.
LEMMA Enumeration ==
  ASSUME NEW S, IsFiniteSet(S)
  PROVE  LET f == SetToSeq(S) IN
         /\ Cardinality(S) \in Nat
         /\ f \in [1..Cardinality(S) -> S] /\ f \in Seq(S) /\ Len(f) = Cardinality(S)
         /\ \A m, n \in 1..Cardinality(S) : f[m] = f[n] => m = n
         /\ \A x \in S : \E n \in 1..Cardinality(S) : f[n] = x
<1> DEFINE c == Cardinality(S)
           f == SetToSeq(S)
<1>1. c \in Nat /\ ExistsBijection(1..c, S)
  BY FS_CardinalityType
<1>2. PICK g \in [1..c -> S] : IsInjective(g)
  BY <1>1 DEF ExistsBijection, Bijection, Injection
<1>3. f \in [1..c -> S] /\ IsInjective(f)
  BY <1>2 DEF SetToSeq
<1>4. f \in Injection(1..c, S)
  BY <1>3 DEF Injection
<1>5. IsFiniteSet(1..c) /\ Cardinality(1..c) = c
  BY <1>1, FS_Interval
<1>6. f \in Surjection(1..c, S)
  BY <1>4, <1>5, FS_Injection
<1> HIDE DEF f, c
<1>7. f \in Seq(S) /\ Len(f) = c
  BY <1>1, <1>3, SeqDef
<1>8. QED
  BY <1>1, <1>3, <1>6, <1>7 DEF IsInjective, Surjection, f, c

\* The credits of one wallet, one for each winning bet.
LEMMA CreditsTyped ==
  ASSUME Typed, NEW s \in Settlers, NEW u \in Users
  PROVE  LET W == Winners(s, u)
             c == Cardinality(W)
             new == Credits(s, u) IN
         /\ W \subseteq Requests /\ c \in Nat
         /\ new \in Seq(Entry) /\ Len(new) = c
         /\ \A n \in 1..c : /\ new[n].type = "settlement_credit" /\ new[n].delta = 2
                            /\ new[n].after = balance[u] + n * 2
                            /\ new[n].bet \in W
         /\ \A m, n \in 1..c : new[m].bet = new[n].bet => m = n
         /\ \A b \in W : \E n \in 1..c : new[n].bet = b
<1> DEFINE W == Winners(s, u)
           c == Cardinality(W)
           won == SetToSeq(W)
           entry(n) == [type |-> "settlement_credit", bet |-> won[n], delta |-> Payout.won,
                        after |-> balance[u] + n * Payout.won]
           new == [n \in 1..c |-> entry(n)]
<1>1. W \subseteq Requests
  BY DEF Winners, Typed, TypeOK, Settling
<1>2. IsFiniteSet(W)
  BY <1>1, FS_Subset, WageringAssumption
<1> HIDE DEF W
<1>3. /\ c \in Nat
      /\ won \in [1..c -> W] /\ DOMAIN won = 1..c
      /\ \A m, n \in 1..c : won[m] = won[n] => m = n
      /\ \A x \in W : \E n \in 1..c : won[n] = x
  BY <1>2, Enumeration
<1>4. Payout.won = 2 /\ balance[u] \in Nat
  BY DEF Payout, Typed, TypeOK
<1>5. Credits(s, u) = new
  BY <1>3 DEF Credits, W
<1> HIDE DEF c, won
<1>6. ASSUME NEW n \in 1..c
      PROVE  /\ entry(n) \in Entry
             /\ entry(n).type = "settlement_credit" /\ entry(n).delta = 2
             /\ entry(n).after = balance[u] + n * 2
             /\ entry(n).bet = won[n] /\ won[n] \in W
  <2>1. n \in Nat /\ won[n] \in W /\ won[n] \in Requests /\ n * 2 \in Nat
    BY <1>1, <1>3
  <2>2. QED
    BY <1>4, <2>1 DEF Entry
<1> HIDE DEF entry
<1>7. new \in [1..c -> Entry] /\ \A n \in 1..c : new[n] = entry(n)
  BY <1>6
<1> HIDE DEF new
<1>8. new \in Seq(Entry) /\ Len(new) = c
  BY <1>3, <1>7, SeqDef
<1>9. QED
  BY <1>1, <1>3, <1>5, <1>6, <1>7, <1>8 DEF c, W

LEMMA CommitTyped ==
  ASSUME Typed, NEW s \in Settlers, CommitSettlement(s)
  PROVE  /\ balance' \in [Users -> Nat]
         /\ ledger' \in [Users -> Seq(Entry)]
         /\ \A u \in Users : \A n \in DOMAIN ledger'[u] : ledger'[u][n] \in Entry
         /\ bets' \in [Requests -> Bet]
<1>1. /\ balance' = [u \in Users |-> balance[u] + Cardinality(Winners(s, u)) * 2]
      /\ ledger' = [u \in Users |-> ledger[u] \o Credits(s, u)]
      /\ bets' = [b \in Requests |->
                IF b \notin settling[s].batch THEN bets[b]
                ELSE MarkBetSettled(b, IF b \in Winners(s, bets[b].user) THEN "won" ELSE "lost")]
  BY DEF CommitSettlement, Payout
<1>2. \A u \in Users : Cardinality(Winners(s, u)) \in Nat /\ balance[u] \in Nat
  BY CreditsTyped DEF Typed, TypeOK
<1>3. balance' \in [Users -> Nat]
  BY <1>1, <1>2
<1>4. ASSUME NEW u \in Users
      PROVE  ledger[u] \o Credits(s, u) \in Seq(Entry)
  <2>1. ledger[u] \in Seq(Entry) /\ Credits(s, u) \in Seq(Entry)
    BY CreditsTyped DEF Typed, Sequenced
  <2>2. QED
    BY <2>1, ConcatProperties
<1>5. ledger' \in [Users -> Seq(Entry)]
  BY <1>1, <1>4
<1>6. \A u \in Users : \A n \in DOMAIN ledger'[u] : ledger'[u][n] \in Entry
  BY <1>5
<1>7. {"won", "lost"} \subseteq Verdict
  BY DEF Verdict
<1>8. \A b \in Requests : bets[b] \in Bet
  BY DEF Typed, TypeOK
<1>9. bets' \in [Requests -> Bet]
  BY <1>1, <1>7, <1>8, SettledTyped
<1>10. QED
  BY <1>3, <1>5, <1>6, <1>9

\* A settlement that goes on, in a stage its mode allows, or ends.
SettlingRow(x) ==
  /\ x \in Settling
  /\ x.stage \in {"ready", "answered"} => ~fallback
  /\ x.stage = "crediting" => fallback
  /\ x.stage # "crediting" => x.batch = {}

LEMMA SettlingOne ==
  ASSUME Typed, NEW s \in Settlers, NEW x, SettlingRow(x),
         settling' = [settling EXCEPT ![s] = x], UNCHANGED <<fallback, placing>>
  PROVE  settling' \in [Settlers -> Settling] /\ Stages'
<1>1. /\ settling'[s] = x
      /\ \A t \in Settlers \ {s} : settling'[t] = settling[t]
      /\ settling' \in [Settlers -> Settling]
  BY DEF Typed, TypeOK, SettlingRow
<1>2. QED
  BY <1>1 DEF Typed, Stages, SettlingRow

LEMMA NotSettlingRow == SettlingRow(NotSettling)
BY DEF SettlingRow, NotSettling, Settling

LEMMA SettlingTyped ==
  ASSUME Typed, NEW s \in Settlers,
         \/ EnsureRaceCanSettle(s) \/ PoolReady(s) \/ SettleBet(s) \/ ApplyResults(s)
         \/ LockBets(s) \/ CommitSettlement(s) \/ Abort(s)
         \/ \E u \in Users : CreditWallet(s, u)
  PROVE  Typed'
<1> DEFINE old == settling[s]
<1>1. /\ old \in Settling
      /\ old.stage # "crediting" => old.batch = {}
      /\ old.stage \in {"ready", "answered"} => ~fallback
  BY DEF Typed, TypeOK, Stages
<1>2. ASSUME NEW stage \in {"ready", "answered"}, ~fallback, old.stage # "crediting"
      PROVE  SettlingRow([old EXCEPT !.stage = stage])
  BY <1>1, <1>2 DEF SettlingRow, Settling
<1>3. CASE EnsureRaceCanSettle(s)
  <2> DEFINE x == [old EXCEPT !.stage = "checked", !.winner = race.winner]
  <2>1. old.stage = "idle" /\ race.winner \in Selections \cup {Null}
    BY <1>3 DEF EnsureRaceCanSettle, Typed, TypeOK, Race
  <2>2. SettlingRow(x)
    BY <1>1, <2>1 DEF SettlingRow, Settling
  <2>3. settling' = [settling EXCEPT ![s] = x]
    BY <1>3 DEF EnsureRaceCanSettle
  <2> HIDE DEF x
  <2>4. settling' \in [Settlers -> Settling] /\ Stages'
    BY <1>3, <2>2, <2>3, SettlingOne DEF EnsureRaceCanSettle
  <2>5. QED
    BY <1>3, <2>4 DEF EnsureRaceCanSettle, Typed, TypeOK, Sequenced, remote, money
<1>4. CASE PoolReady(s)
  <2> DEFINE x == IF pool.status \in {"frozen", "settled"} THEN [old EXCEPT !.stage = "ready"]
                  ELSE NotSettling
  <2>1. SettlingRow(x)
    BY <1>2, <1>4, NotSettlingRow DEF PoolReady
  <2>2. settling' = [settling EXCEPT ![s] = x]
    BY <1>4 DEF PoolReady
  <2> HIDE DEF x
  <2>3. settling' \in [Settlers -> Settling] /\ Stages'
    BY <1>4, <2>1, <2>2, SettlingOne DEF PoolReady
  <2>4. QED
    BY <1>4, <2>3 DEF PoolReady, Typed, TypeOK, Sequenced, remote, money
<1>5. CASE SettleBet(s)
  <2>1. old.stage = "ready" /\ ~fallback
    BY <1>1, <1>5 DEF SettleBet
  <2>2. \/ settling' = [settling EXCEPT ![s] = [old EXCEPT !.stage = "answered"]]
        \/ settling' = [settling EXCEPT ![s] = NotSettling]
    BY <1>5 DEF SettleBet
  <2>3. settling' \in [Settlers -> Settling] /\ Stages'
    <3>1. UNCHANGED <<fallback, placing>>
      BY <1>5 DEF SettleBet
    <3>2. SettlingRow([old EXCEPT !.stage = "answered"]) /\ SettlingRow(NotSettling)
      BY <1>2, <2>1, NotSettlingRow
    <3>3. QED
      BY <2>2, <3>1, <3>2, SettlingOne
  <2>4. pool' \in Pool
    BY <1>5 DEF SettleBet, Typed, TypeOK, Pool, PoolStatus, remote
  <2>5. /\ DOMAIN financial' \subseteq Keys \cup Requests
        /\ \A k \in DOMAIN financial' : financial'[k] \in FinancialBet
    <3>1. CASE UNCHANGED financial
      BY <3>1 DEF Typed, TypeOK
    <3>2. CASE \E void \in BOOLEAN :
                 financial' = [k \in DOMAIN financial |->
                   IF financial[k].status # "accepted" THEN financial[k]
                   ELSE [financial[k] EXCEPT
                           !.status = "settled",
                           !.result = IF void THEN "void"
                                      ELSE IF financial[k].selection = settling[s].winner
                                           THEN "won" ELSE "lost"]]
      <4>1. ASSUME NEW x \in FinancialBet, NEW result \in {"void", "won", "lost"}
            PROVE  [x EXCEPT !.status = "settled", !.result = result] \in FinancialBet
        BY DEF FinancialBet, Verdict
      <4>2. /\ DOMAIN financial \subseteq Keys \cup Requests
            /\ \A k \in DOMAIN financial : financial[k] \in FinancialBet
        BY DEF Typed, TypeOK
      <4>3. PICK void \in BOOLEAN :
                 financial' = [k \in DOMAIN financial |->
                   IF financial[k].status # "accepted" THEN financial[k]
                   ELSE [financial[k] EXCEPT
                           !.status = "settled",
                           !.result = IF void THEN "void"
                                      ELSE IF financial[k].selection = settling[s].winner
                                           THEN "won" ELSE "lost"]]
        BY <3>2
      <4> DEFINE result(k) == IF void THEN "void"
                              ELSE IF financial[k].selection = settling[s].winner
                                   THEN "won" ELSE "lost"
      <4>4. \A k : result(k) \in {"void", "won", "lost"}
        OBVIOUS
      <4>5. DOMAIN financial' = DOMAIN financial
        BY <4>3
      <4>6. \A k \in DOMAIN financial : financial'[k] =
              IF financial[k].status # "accepted" THEN financial[k]
              ELSE [financial[k] EXCEPT !.status = "settled", !.result = result(k)]
        BY <4>3
      <4> HIDE DEF result
      <4>7. ASSUME NEW k \in DOMAIN financial
            PROVE  financial'[k] \in FinancialBet
        <5>1. CASE financial[k].status # "accepted"
          BY <4>2, <4>6, <5>1
        <5>2. CASE financial[k].status = "accepted"
          <6> DEFINE x == financial[k]
          <6>1. x \in FinancialBet /\ result(k) \in {"void", "won", "lost"}
            BY <4>2, <4>4
          <6>2. financial'[k] = [x EXCEPT !.status = "settled", !.result = result(k)]
            BY <4>6, <5>2
          <6> HIDE DEF x
          <6>3. QED
            BY <4>1, <6>1, <6>2
        <5>3. QED
          BY <5>1, <5>2
      <4>8. QED
        BY <4>2, <4>5, <4>7
    <3>3. QED
      BY <1>5, <3>1, <3>2 DEF SettleBet, remote
  <2>6. QED
    BY <1>5, <2>3, <2>4, <2>5 DEF SettleBet, Typed, TypeOK, Sequenced, money
<1>6. CASE ApplyResults(s)
  <2>1. ASSUME NEW b \in Requests, \E k \in Settled : financial[k].bet = b
        PROVE  MarkBetSettled(b, FinancialResult(CHOOSE k \in Settled : financial[k].bet = b)) \in Bet
    <3>1. (CHOOSE k \in Settled : financial[k].bet = b) \in DOMAIN financial
      BY <2>1 DEF Settled
    <3>2. FinancialResult(CHOOSE k \in Settled : financial[k].bet = b) \in Verdict
      BY <3>1 DEF FinancialResult, Typed, TypeOK, FinancialBet
    <3>3. QED
      BY <3>2, SettledTyped
  <2>2. \A b \in Requests : bets[b] \in Bet
    BY DEF Typed, TypeOK
  <2>3. bets' \in [Requests -> Bet]
    BY <1>6, <2>1, <2>2 DEF ApplyResults
  <2>4. settling' \in [Settlers -> Settling] /\ Stages'
    BY <1>6, NotSettlingRow, SettlingOne DEF ApplyResults
  <2>5. QED
    BY <1>6, <2>3, <2>4 DEF ApplyResults, Typed, TypeOK, Sequenced, remote, money
<1>7. CASE LockBets(s)
  <2> DEFINE x == [old EXCEPT !.stage = "crediting", !.batch = Unsettled]
  <2>1. Unsettled \subseteq Requests /\ fallback
    BY <1>7 DEF LockBets, Unsettled
  <2>2. SettlingRow(x)
    BY <1>1, <2>1 DEF SettlingRow, Settling
  <2>3. settling' = [settling EXCEPT ![s] = x]
    BY <1>7 DEF LockBets
  <2> HIDE DEF x
  <2>4. settling' \in [Settlers -> Settling] /\ Stages'
    BY <1>7, <2>2, <2>3, SettlingOne DEF LockBets
  <2>5. QED
    BY <1>7, <2>4 DEF LockBets, Typed, TypeOK, Sequenced, remote, money
<1>8. CASE \E u \in Users : CreditWallet(s, u)
  BY <1>8 DEF CreditWallet, Typed, TypeOK, Sequenced, Stages, remote
<1>9. CASE CommitSettlement(s)
  <2>1. /\ balance' \in [Users -> Nat]
        /\ ledger' \in [Users -> Seq(Entry)]
        /\ \A u \in Users : \A n \in DOMAIN ledger'[u] : ledger'[u][n] \in Entry
        /\ bets' \in [Requests -> Bet]
    BY <1>9, CommitTyped
  <2>2. holder' \in [Users -> Requests \cup Settlers \cup {Null}]
    BY <1>9, ReleaseTyped DEF CommitSettlement
  <2>3. settling' \in [Settlers -> Settling] /\ Stages'
    BY <1>9, NotSettlingRow, SettlingOne DEF CommitSettlement
  <2>4. QED
    BY <1>9, <2>1, <2>2, <2>3 DEF CommitSettlement, Typed, TypeOK, Sequenced, remote
<1>10. CASE Abort(s)
  <2>1. holder' \in [Users -> Requests \cup Settlers \cup {Null}]
    BY <1>10, ReleaseTyped DEF Abort
  <2>2. settling' \in [Settlers -> Settling] /\ Stages'
    BY <1>10, NotSettlingRow, SettlingOne DEF Abort
  <2>3. QED
    BY <1>10, <2>1, <2>2 DEF Abort, Typed, TypeOK, Sequenced, remote
<1>11. QED
  BY <1>3, <1>4, <1>5, <1>6, <1>7, <1>8, <1>9, <1>10

LEMMA TypedNext == Typed /\ [Next]_vars => Typed'
<1> SUFFICES ASSUME Typed, [Next]_vars
             PROVE  Typed'
  OBVIOUS
<1>1. CASE UNCHANGED vars
  BY <1>1 DEF vars, remote, money, Typed, TypeOK, Sequenced, Stages
<1>2. QED
  BY <1>1, RaceTyped, AdjustTyped, PlacingTyped, SettlingTyped DEF Next

LEMMA TypedInit == Init => Typed
<1> SUFFICES ASSUME Init
             PROVE  Typed
  OBVIOUS
<1>1. << >> \in Seq(Entry)
  BY EmptySeq
<1>2. race \in Race /\ pool \in Pool /\ calls \in [{"open", "freeze"} -> Call]
  BY DEF Init, NewRace, NoPool, Race, Pool, PoolStatus, Call
<1>3. DOMAIN financial = {}
  BY DEF Init
<1>4. /\ bets \in [Requests -> Bet] /\ balance \in [Users -> Nat]
      /\ holder \in [Users -> Requests \cup Settlers \cup {Null}]
  BY DEF Init, Bet, Verdict
<1>5. placing \in [Requests -> Placing] /\ \A p \in Requests : placing[p].stage = "idle"
  BY DEF Init, Placing
<1>6. /\ settling \in [Settlers -> Settling]
      /\ \A s \in Settlers : settling[s].stage = "idle" /\ settling[s].batch = {}
  BY DEF Init, NotSettling, Settling
<1>7. drift \in Drift /\ fallback \in BOOLEAN
  BY DEF Init, Unread, Drift
<1>8. ledger = [u \in Users |-> << >>]
  BY DEF Init
<1>9. TypeOK /\ Sequenced
  BY <1>1, <1>2, <1>3, <1>4, <1>5, <1>6, <1>7, <1>8 DEF TypeOK, Sequenced
<1>10. Stages
  BY <1>5, <1>6 DEF Stages
<1>11. QED
  BY <1>9, <1>10 DEF Typed

-----------------------------------------------------------------------------
(* What a step does to the answers of nines-financial, to a request and to *)
(* a bet                                                                   *)

Answered(k) == k \in DOMAIN financial /\ financial[k].status # "rejected"

\* An answer is never taken back, and a settled bet is settled for good.
AnswersStand ==
  \A k \in DOMAIN financial :
    /\ k \in DOMAIN financial' /\ financial'[k].bet = financial[k].bet
    /\ financial[k].status # "rejected" => financial'[k].status # "rejected"
    /\ financial[k].status = "settled" => financial'[k] = financial[k]

\* A request keeps its key, and is accepted only with an answer behind it.
RequestsStand ==
  \A p \in Requests :
    /\ placing[p].stage # "idle" =>
         /\ placing'[p].stage # "idle"
         /\ placing'[p].key = placing[p].key /\ placing'[p].user = placing[p].user
    /\ placing[p].stage = "done" => placing'[p].stage = "done"
    /\ placing'[p].stage = "accepted" => placing[p].stage = "accepted" \/ Answered(placing[p].key)'

Created(b) ==
  /\ placing[b].stage \in {"accepted", "locked"} /\ placing'[b].stage = "done"
  /\ bets'[b].status = "placed" /\ bets'[b].result = "pending"
  /\ bets'[b].user = placing[b].user

SettledByAnswer(b) ==
  /\ ~fallback
  /\ bets[b].status = "placed" /\ bets'[b].status = "settled"
  /\ \E k \in DOMAIN financial :
       financial[k].bet = b /\ financial[k].status = "settled" /\ financial[k].result = bets'[b].result

SettledLocally(b) == fallback /\ bets'[b].status = "settled"

BetsStand ==
  \A b \in Requests : bets'[b] = bets[b] \/ Created(b) \/ SettledByAnswer(b) \/ SettledLocally(b)

Stand == AnswersStand /\ RequestsStand /\ BetsStand /\ UNCHANGED fallback

LEMMA NoneStands ==
  ASSUME UNCHANGED <<fallback, financial, placing, bets>>
  PROVE  Stand
BY DEF Stand, AnswersStand, RequestsStand, BetsStand

LEMMA PlacingStands ==
  ASSUME Typed, NEW p \in Requests,
         CheckRaceOpen(p) \/ PlaceBet(p) \/ RecordBet(p) \/ LockWallet(p) \/ TakeStake(p) \/ Stop(p)
  PROVE  Stand
<1>1. CASE CheckRaceOpen(p)
  <2>1. /\ placing[p].stage = "idle"
        /\ placing'[p].stage = "checked"
        /\ \A q \in Requests \ {p} : placing'[q] = placing[q]
        /\ UNCHANGED <<fallback, financial, bets>>
    BY <1>1 DEF CheckRaceOpen, Typed, TypeOK, remote
  <2>2. QED
    BY <2>1 DEF Stand, AnswersStand, RequestsStand, BetsStand
<1>2. CASE PlaceBet(p)
  <2>1. placing[p].stage = "checked" /\ UNCHANGED <<fallback, bets>>
    BY <1>2 DEF PlaceBet
  <2>2. PICK k : k = placing[p].key
    OBVIOUS
  <2>3. PICK stage \in {"accepted", "done"} :
          /\ Step(p, stage) /\ AnswersStand
          /\ stage = "accepted" => k \in DOMAIN financial' /\ financial'[k].status # "rejected"
    <3>1. CASE k \in DOMAIN financial
      <4>1. /\ Step(p, IF financial[k].status = "rejected" THEN "done" ELSE "accepted")
            /\ UNCHANGED financial
        BY <1>2, <2>2, <3>1 DEF PlaceBet
      <4>2. AnswersStand
        BY <4>1 DEF AnswersStand
      <4>3. CASE financial[k].status = "rejected"
        BY <4>1, <4>2, <4>3
      <4>4. CASE financial[k].status # "rejected"
        BY <3>1, <4>1, <4>2, <4>4
      <4>5. QED
        BY <4>3, <4>4
    <3>2. CASE k \notin DOMAIN financial
      <4>1. PICK accepts \in BOOLEAN :
              /\ financial' = [j \in DOMAIN financial \cup {k} |->
                   IF j = k
                   THEN [bet |-> p, selection |-> placing[p].selection, result |-> "pending",
                         status |-> IF accepts THEN "accepted" ELSE "rejected"]
                   ELSE financial[j]]
              /\ Step(p, IF accepts THEN "accepted" ELSE "done")
        BY <1>2, <2>2, <3>2 DEF PlaceBet
      <4>2. /\ DOMAIN financial' = DOMAIN financial \cup {k}
            /\ \A j \in DOMAIN financial : financial'[j] = financial[j]
            /\ financial'[k].status = IF accepts THEN "accepted" ELSE "rejected"
        BY <3>2, <4>1
      <4>3. AnswersStand
        BY <4>2 DEF AnswersStand
      <4>4. CASE accepts
        BY <4>1, <4>2, <4>3, <4>4
      <4>5. CASE ~accepts
        BY <4>1, <4>3, <4>5
      <4>6. QED
        BY <4>4, <4>5
    <3>3. QED
      BY <3>1, <3>2
  <2>4. /\ placing'[p].stage = stage
        /\ placing'[p].user = placing[p].user /\ placing'[p].key = placing[p].key
        /\ \A q \in Requests \ {p} : placing'[q] = placing[q]
    BY <2>3, StepTyped
  <2>5. stage = "accepted" => Answered(placing[p].key)'
    BY <2>2, <2>3, <2>4 DEF Answered
  <2>6. QED
    BY <2>1, <2>3, <2>4, <2>5 DEF Stand, RequestsStand, BetsStand
<1>3. CASE RecordBet(p) \/ TakeStake(p)
  <2>1. /\ placing[p].stage \in {"accepted", "locked"}
        /\ CreateBet(p) /\ Step(p, "done") /\ UNCHANGED <<fallback, financial>>
    BY <1>3 DEF RecordBet, TakeStake, remote
  <2>2. /\ placing'[p].stage = "done"
        /\ placing'[p].user = placing[p].user /\ placing'[p].key = placing[p].key
        /\ \A q \in Requests \ {p} : placing'[q] = placing[q]
    BY <2>1, StepTyped
  <2>3. /\ bets'[p].status = "placed" /\ bets'[p].result = "pending"
        /\ bets'[p].user = placing[p].user
        /\ \A b \in Requests \ {p} : bets'[b] = bets[b]
    BY <2>1 DEF CreateBet, Typed, TypeOK
  <2>4. QED
    BY <2>1, <2>2, <2>3 DEF Stand, AnswersStand, RequestsStand, BetsStand, Created
<1>4. CASE LockWallet(p)
  <2>1. /\ placing[p].stage = "checked"
        /\ placing'[p].stage = "locked"
        /\ placing'[p].user = placing[p].user /\ placing'[p].key = placing[p].key
        /\ \A q \in Requests \ {p} : placing'[q] = placing[q]
        /\ UNCHANGED <<fallback, financial, bets>>
    BY <1>4 DEF LockWallet, Typed, TypeOK, Placing, remote
  <2>2. QED
    BY <2>1 DEF Stand, AnswersStand, RequestsStand, BetsStand
<1>5. CASE Stop(p)
  <2>1. /\ placing[p].stage # "done"
        /\ Step(p, "done") /\ UNCHANGED <<fallback, financial, bets>>
    BY <1>5 DEF Stop, remote
  <2>2. /\ placing'[p].stage = "done"
        /\ placing'[p].user = placing[p].user /\ placing'[p].key = placing[p].key
        /\ \A q \in Requests \ {p} : placing'[q] = placing[q]
    BY <2>1, StepTyped
  <2>3. QED
    BY <2>1, <2>2 DEF Stand, AnswersStand, RequestsStand, BetsStand
<1>6. QED
  BY <1>1, <1>2, <1>3, <1>4, <1>5

LEMMA SettledAnswer ==
  ASSUME NEW x \in FinancialBet, NEW result
  PROVE  LET y == [x EXCEPT !.status = "settled", !.result = result] IN
         y.status = "settled" /\ y.bet = x.bet
BY DEF FinancialBet

LEMMA SettlingStands ==
  ASSUME Typed, NEW s \in Settlers, SettleBet(s) \/ ApplyResults(s) \/ CommitSettlement(s)
  PROVE  Stand
<1>1. CASE SettleBet(s)
  <2>1. UNCHANGED <<fallback, placing, bets>>
    BY <1>1 DEF SettleBet
  <2>2. AnswersStand
    <3>1. CASE UNCHANGED financial
      BY <3>1 DEF AnswersStand
    <3>2. CASE \E void \in BOOLEAN :
                 financial' = [k \in DOMAIN financial |->
                   IF financial[k].status # "accepted" THEN financial[k]
                   ELSE [financial[k] EXCEPT
                           !.status = "settled",
                           !.result = IF void THEN "void"
                                      ELSE IF financial[k].selection = settling[s].winner
                                           THEN "won" ELSE "lost"]]
      <4> DEFINE result(void, k) == IF void THEN "void"
                                    ELSE IF financial[k].selection = settling[s].winner
                                         THEN "won" ELSE "lost"
      <4>1. PICK void \in BOOLEAN :
              financial' = [k \in DOMAIN financial |->
                IF financial[k].status # "accepted" THEN financial[k]
                ELSE [financial[k] EXCEPT !.status = "settled", !.result = result(void, k)]]
        BY <3>2
      <4> HIDE DEF result
      <4>2. ASSUME NEW k \in DOMAIN financial
            PROVE  /\ k \in DOMAIN financial' /\ financial'[k].bet = financial[k].bet
                   /\ financial[k].status # "rejected" => financial'[k].status # "rejected"
                   /\ financial[k].status = "settled" => financial'[k] = financial[k]
        <5> DEFINE x == financial[k]
        <5>1. x \in FinancialBet
          BY DEF Typed, TypeOK
        <5>2. /\ k \in DOMAIN financial'
              /\ financial'[k] = IF x.status # "accepted" THEN x
                                 ELSE [x EXCEPT !.status = "settled", !.result = result(void, k)]
          BY <4>1
        <5> HIDE DEF x
        <5>3. QED
          <6>1. CASE x.status # "accepted"
            BY <5>2, <6>1 DEF x
          <6>2. CASE x.status = "accepted"
            <7>1. financial'[k] = [x EXCEPT !.status = "settled", !.result = result(void, k)]
              BY <5>2, <6>2
            <7>2. financial'[k].status = "settled" /\ financial'[k].bet = x.bet
              BY <5>1, <7>1, SettledAnswer
            <7>3. QED
              BY <5>2, <6>2, <7>2 DEF x
          <6>3. QED
            BY <6>1, <6>2
      <4>3. QED
        BY <4>2 DEF AnswersStand
    <3>3. QED
      BY <1>1, <3>1, <3>2 DEF SettleBet, remote
  <2>3. QED
    BY <2>1, <2>2 DEF Stand, RequestsStand, BetsStand
<1>2. CASE ApplyResults(s)
  <2>1. /\ UNCHANGED <<fallback, placing, financial>> /\ ~fallback
        /\ bets' = [b \in Requests |->
             IF b \in Unsettled /\ \E k \in Settled : financial[k].bet = b
             THEN MarkBetSettled(b, FinancialResult(CHOOSE k \in Settled : financial[k].bet = b))
             ELSE bets[b]]
    BY <1>2 DEF ApplyResults, Typed, Stages, remote
  <2>2. ASSUME NEW b \in Requests, bets'[b] # bets[b]
        PROVE  SettledByAnswer(b)
    <3> DEFINE k == CHOOSE k \in Settled : financial[k].bet = b
    <3>1. /\ b \in Unsettled /\ \E j \in Settled : financial[j].bet = b
          /\ bets'[b] = MarkBetSettled(b, FinancialResult(k))
      BY <2>1, <2>2
    <3>2. k \in Settled /\ financial[k].bet = b
      BY <3>1
    <3> HIDE DEF k
    <3>3. financial[k].result \in Verdict /\ k \in DOMAIN financial /\ financial[k].status = "settled"
      BY <3>2 DEF Settled, Typed, TypeOK, FinancialBet
    <3>4. bets'[b].status = "settled" /\ bets'[b].result = financial[k].result
      BY <3>1, <3>3, SettledTyped DEF FinancialResult
    <3>5. QED
      BY <2>1, <3>1, <3>2, <3>3, <3>4 DEF SettledByAnswer, Unsettled
  <2>3. QED
    BY <2>1, <2>2 DEF Stand, AnswersStand, RequestsStand, BetsStand
<1>3. CASE CommitSettlement(s)
  <2>1. /\ UNCHANGED <<fallback, placing, financial>> /\ fallback
        /\ bets' = [b \in Requests |->
             IF b \notin settling[s].batch THEN bets[b]
             ELSE MarkBetSettled(b, IF b \in Winners(s, bets[b].user) THEN "won" ELSE "lost")]
    BY <1>3 DEF CommitSettlement, Typed, Stages, remote
  <2>2. {"won", "lost"} \subseteq Verdict
    BY DEF Verdict
  <2>3. \A b \in Requests : bets'[b] = bets[b] \/ bets'[b].status = "settled"
    BY <2>1, <2>2, SettledTyped
  <2>4. QED
    BY <2>1, <2>3 DEF Stand, AnswersStand, RequestsStand, BetsStand, SettledLocally
<1>4. QED
  BY <1>1, <1>2, <1>3

LEMMA StepStands ==
  ASSUME Typed, [Next]_vars
  PROVE  Stand
<1>1. CASE UNCHANGED <<fallback, financial, placing, bets>>
  BY <1>1, NoneStands
<1>2. CASE \E p \in Requests :
              CheckRaceOpen(p) \/ PlaceBet(p) \/ RecordBet(p) \/ LockWallet(p) \/ TakeStake(p) \/ Stop(p)
  BY <1>2, PlacingStands
<1>3. CASE \E s \in Settlers : SettleBet(s) \/ ApplyResults(s) \/ CommitSettlement(s)
  BY <1>3, SettlingStands
<1>4. CASE \/ Advance \/ EnsureRacePoolOpen \/ CreateRacePool \/ FreezeRacePool \/ FreezePool
           \/ \E h \in Selections : RegisterPoolSelection(h)
           \/ EndCall("open") \/ EndCall("freeze")
  BY <1>1, <1>4 DEF Advance, EnsureRacePoolOpen, CreateRacePool, FreezeRacePool, FreezePool,
                    RegisterPoolSelection, EndCall, remote
<1>5. CASE \E u \in Users : AdjustWallet(u)
  BY <1>1, <1>5 DEF AdjustWallet, remote
<1>6. CASE \E s \in Settlers : \/ EnsureRaceCanSettle(s) \/ PoolReady(s) \/ LockBets(s) \/ Abort(s)
                               \/ \E u \in Users : CreditWallet(s, u)
  BY <1>1, <1>6 DEF EnsureRaceCanSettle, PoolReady, LockBets, Abort, CreditWallet, remote
<1>7. CASE ReadLocalBets \/ Detect \/ UNCHANGED vars
  BY <1>1, <1>7 DEF ReadLocalBets, Detect, vars, remote
<1>8. QED
  BY <1>2, <1>3, <1>4, <1>5, <1>6, <1>7 DEF Next

-----------------------------------------------------------------------------
(* Local rows, answers and reports *)

\* In the delegated mode a bet is of a request that is done, and an accepted
\* request has its answer.
RowsHaveRequests ==
  ~fallback =>
    \A p \in Requests :
      /\ bets[p].status # "absent" => placing[p].stage = "done"
      /\ placing[p].stage = "accepted" => Answered(placing[p].key)

ReportedRowsExist ==
  drift.reading => ~fallback /\ \A b \in drift.rows : bets[b].status # "absent"

Delegated == Typed /\ RowsHaveRequests /\ LocalMatchesFinancial /\ ReportedRowsExist

LEMMA DelegatedInit == Init => Delegated
BY TypedInit DEF Init, Delegated, RowsHaveRequests, LocalMatchesFinancial, ReportedRowsExist, Unread

LEMMA DelegatedNext == Delegated /\ [Next]_vars => Delegated'
<1> SUFFICES ASSUME Delegated, [Next]_vars
             PROVE  Delegated'
  OBVIOUS
<1>1. Typed /\ Typed' /\ Stand
  BY TypedNext, StepStands DEF Delegated
<1>2. AnswersStand /\ RequestsStand /\ BetsStand /\ fallback' = fallback
  BY <1>1 DEF Stand
<1>3. ASSUME NEW k, Answered(k)
      PROVE  k \in DOMAIN financial' /\ financial'[k].status # "rejected"
  BY <1>2, <1>3 DEF AnswersStand, Answered
<1>4. ASSUME NEW b \in Requests, ~fallback
      PROVE  bets'[b] = bets[b] \/ Created(b) \/ SettledByAnswer(b)
  BY <1>2, <1>4 DEF BetsStand, SettledLocally
<1>5. RowsHaveRequests'
  <2>1. SUFFICES ASSUME ~fallback, NEW p \in Requests
                 PROVE  /\ bets'[p].status # "absent" => placing'[p].stage = "done"
                        /\ placing'[p].stage = "accepted" => Answered(placing[p].key)'
    BY <1>2 DEF RowsHaveRequests
  <2>2. bets'[p].status # "absent" => placing'[p].stage = "done"
    <3>1. CASE bets[p].status # "absent"
      BY <1>2, <2>1, <3>1 DEF Delegated, RowsHaveRequests, RequestsStand
    <3>2. CASE bets[p].status = "absent"
      BY <1>4, <2>1, <3>2 DEF Created, SettledByAnswer
    <3>3. QED
      BY <3>1, <3>2
  <2>3. ASSUME placing'[p].stage = "accepted", placing[p].stage = "accepted"
        PROVE  Answered(placing[p].key)'
    <3>1. Answered(placing[p].key)
      BY <2>1, <2>3 DEF Delegated, RowsHaveRequests
    <3>2. placing'[p].key = placing[p].key
      BY <1>2, <2>3 DEF RequestsStand
    <3>3. QED
      BY <1>3, <3>1, <3>2 DEF Answered
  <2>4. QED
    BY <1>2, <2>2, <2>3 DEF RequestsStand
<1>6. LocalMatchesFinancial'
  <2>1. SUFFICES ASSUME ~fallback, NEW b \in Requests
                 PROVE  /\ bets'[b].status # "absent" =>
                             /\ placing'[b].key \in DOMAIN financial'
                             /\ financial'[placing'[b].key].status # "rejected"
                        /\ bets'[b].status = "settled" =>
                             \E k \in DOMAIN financial' :
                               /\ financial'[k].bet = b /\ financial'[k].status = "settled"
                               /\ financial'[k].result = bets'[b].result
    BY <1>2 DEF LocalMatchesFinancial
  <2>2. /\ bets[b].status # "absent" => placing[b].stage = "done" /\ Answered(placing[b].key)
        /\ placing[b].stage = "accepted" => Answered(placing[b].key)
    BY <2>1 DEF Delegated, RowsHaveRequests, LocalMatchesFinancial, Answered
  <2>3. ASSUME NEW k \in DOMAIN financial,
               financial[k].bet = b, financial[k].status = "settled"
        PROVE  /\ k \in DOMAIN financial' /\ financial'[k].bet = b
               /\ financial'[k].status = "settled" /\ financial'[k].result = financial[k].result
    BY <1>2, <2>3 DEF AnswersStand
  <2>4. CASE bets'[b] = bets[b]
    <3>1. bets'[b].status # "absent" =>
            Answered(placing[b].key) /\ placing'[b].key = placing[b].key
      BY <1>2, <2>2, <2>4 DEF RequestsStand
    <3>2. ASSUME bets'[b].status = "settled"
          PROVE  \E k \in DOMAIN financial' :
                   /\ financial'[k].bet = b /\ financial'[k].status = "settled"
                   /\ financial'[k].result = bets'[b].result
      <4>1. PICK k \in DOMAIN financial :
              /\ financial[k].bet = b /\ financial[k].status = "settled"
              /\ financial[k].result = bets[b].result
        BY <2>1, <2>4, <3>2 DEF Delegated, LocalMatchesFinancial
      <4>2. QED
        BY <2>3, <2>4, <4>1
    <3>3. QED
      BY <1>3, <3>1, <3>2
  <2>5. CASE Created(b)
    <3>1. placing[b].stage = "accepted"
      BY <1>1, <2>1, <2>5 DEF Created, Typed, Stages
    <3>2. Answered(placing[b].key) /\ placing'[b].key = placing[b].key
      BY <1>2, <2>2, <3>1 DEF RequestsStand
    <3>3. QED
      BY <1>3, <2>5, <3>2 DEF Created
  <2>6. CASE SettledByAnswer(b)
    <3>1. Answered(placing[b].key) /\ placing'[b].key = placing[b].key
      BY <1>2, <2>2, <2>6 DEF RequestsStand, SettledByAnswer
    <3>2. PICK k \in DOMAIN financial :
            /\ financial[k].bet = b /\ financial[k].status = "settled"
            /\ financial[k].result = bets'[b].result
      BY <2>6 DEF SettledByAnswer
    <3>3. QED
      BY <1>3, <2>3, <3>1, <3>2
  <2>7. QED
    BY <1>4, <2>1, <2>4, <2>5, <2>6
<1>7. ReportedRowsExist'
  <2>1. \/ ReadLocalBets \/ Detect \/ UNCHANGED drift
    BY DEF Next, vars, Advance, EnsureRacePoolOpen, CreateRacePool, FreezeRacePool, FreezePool,
           RegisterPoolSelection, EndCall, AdjustWallet, CheckRaceOpen, PlaceBet, RecordBet,
           LockWallet, TakeStake, Stop, EnsureRaceCanSettle, PoolReady, SettleBet, ApplyResults,
           LockBets, CreditWallet, CommitSettlement, Abort
  <2>2. CASE ReadLocalBets
    BY <1>2, <2>2 DEF ReadLocalBets, ReportedRowsExist
  <2>3. CASE Detect
    BY <2>3 DEF Detect, Unread, ReportedRowsExist
  <2>4. CASE UNCHANGED drift
    <3>1. SUFFICES ASSUME drift.reading, NEW b \in drift.rows
                   PROVE  ~fallback /\ bets'[b].status # "absent"
      BY <1>2, <2>4 DEF ReportedRowsExist, Delegated
    <3>2. ~fallback /\ bets[b].status # "absent" /\ b \in Requests
      BY <1>1, <3>1 DEF Delegated, ReportedRowsExist, Typed, TypeOK, Drift
    <3>3. QED
      BY <1>4, <3>2 DEF Created, SettledByAnswer
  <2>5. QED
    BY <2>1, <2>2, <2>3, <2>4
<1>8. QED
  BY <1>1, <1>5, <1>6, <1>7 DEF Delegated

\* Rows, requests, reports and what nines-financial holds keep their types; no
\* wallet's balance goes below zero (walletService.ts:39-89).
THEOREM WageringTypeCorrect == Spec => []TypeOK
<1>1. Typed => TypeOK
  BY DEF Typed
<1>2. QED
  BY <1>1, TypedInit, TypedNext, PTL DEF Spec

\* In the delegated mode every local bet has an acceptance behind it, and a
\* settled one says what nines-financial settled for that very bet
\* (betService.ts:134-239, settlementService.ts:92-190).
THEOREM LocalBetsMatch == Spec => []LocalMatchesFinancial
<1>1. Delegated => LocalMatchesFinancial
  BY DEF Delegated
<1>2. QED
  BY <1>1, DelegatedInit, DelegatedNext, PTL DEF Spec

LEMMA DriftIsSeen == Delegated => DriftNotOverlooked
<1> SUFFICES ASSUME Delegated, drift.reading,
                    NEW k \in DOMAIN financial, financial[k].status = "accepted"
             PROVE  LET b == financial[k].bet IN
                    /\ bets[b].status = "absent" => [code |-> "row_missing", bet |-> b] \in Issues
                    /\ [code |-> "bet_missing", bet |-> b] \notin Issues
  BY DEF DriftNotOverlooked
<1> DEFINE b == financial[k].bet
<1>1. b \in Accepted
  BY DEF Accepted, BetsWithStatus
<1>2. bets[b].status = "absent" => b \in Accepted \ drift.rows
  BY <1>1 DEF Delegated, ReportedRowsExist
<1>3. [code |-> "bet_missing", bet |-> b] \notin [code : {"row_missing"}, bet : Accepted \ drift.rows]
  OBVIOUS
<1>4. [code |-> "bet_missing", bet |-> b] \notin [code : {"bet_missing"}, bet : drift.placed \ Accepted]
  BY <1>1
<1> HIDE DEF b
<1>5. bets[b].status = "absent" => [code |-> "row_missing", bet |-> b] \in Issues
  BY <1>2 DEF Issues
<1>6. [code |-> "bet_missing", bet |-> b] \notin Issues
  BY <1>3, <1>4 DEF Issues
<1>7. QED
  BY <1>5, <1>6 DEF b

\* Whatever is placed and settled between its reads, a drift report misses no
\* accepted bet without a row and calls no accepted bet unmatched
\* (financialReconciliationService.ts:78-178).
THEOREM DriftSeen == Spec => []DriftNotOverlooked
<1>1. QED
  BY DriftIsSeen, DelegatedInit, DelegatedNext, PTL DEF Spec

=============================================================================
