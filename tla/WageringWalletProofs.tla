------------------------ MODULE WageringWalletProofs ------------------------
(***************************************************************************)
(* Theorems about the wallets of Wagering: what row locks, ledger entries  *)
(* and the index on them keep true while placements, settlements and       *)
(* administrators change one wallet.                                       *)
(***************************************************************************)
EXTENDS WageringProofs

-----------------------------------------------------------------------------
(* One ledger *)

AddsUp(e, bal) ==
  LET before(n) == IF n = 1 THEN 0 ELSE e[n - 1].after
  IN /\ \A n \in DOMAIN e : e[n].after = before(n) + e[n].delta
     /\ bal = before(Len(e) + 1)

Has(e, type, b) == b # Null /\ \E n \in DOMAIN e : e[n].bet = b /\ e[n].type = type

Unrepeated(e) ==
  \A m, n \in DOMAIN e :
    e[m].bet # Null /\ e[m].bet = e[n].bet /\ e[m].type = e[n].type => m = n

LEMMA Appended ==
  ASSUME NEW e \in Seq(Entry), NEW x \in Entry, NEW bal
  PROVE  /\ AddsUp(e, bal) /\ x.after = bal + x.delta => AddsUp(Append(e, x), x.after)
         /\ Unrepeated(e) /\ ~Has(e, x.type, x.bet) => Unrepeated(Append(e, x))
         /\ \A type, b : Has(Append(e, x), type, b) <=>
                           Has(e, type, b) \/ (b # Null /\ x.bet = b /\ x.type = type)
<1> DEFINE f == Append(e, x)
           c == Len(e)
<1>1. /\ c \in Nat /\ DOMAIN e = 1..c
      /\ DOMAIN f = 1..(c + 1) /\ Len(f) = c + 1
      /\ \A n \in 1..c : f[n] = e[n]
      /\ f[c + 1] = x
  <2>1. /\ f \in Seq(Entry) /\ Len(f) = c + 1
        /\ \A n \in 1..c : f[n] = e[n] /\ f[c + 1] = x
        /\ f[c + 1] = x
    BY AppendProperties
  <2>2. QED
    BY <2>1, LenProperties
<1> HIDE DEF f, c
<1>2. AddsUp(e, bal) /\ x.after = bal + x.delta => AddsUp(f, x.after)
  <2> SUFFICES ASSUME AddsUp(e, bal), x.after = bal + x.delta
               PROVE  AddsUp(f, x.after)
    OBVIOUS
  <2>1. bal = IF c + 1 = 1 THEN 0 ELSE e[c].after
    BY <1>1 DEF AddsUp, c
  <2>2. ASSUME NEW n \in 1..(c + 1)
        PROVE  f[n].after = (IF n = 1 THEN 0 ELSE f[n - 1].after) + f[n].delta
    <3>1. CASE n = c + 1
      BY <1>1, <2>1, <3>1
    <3>2. CASE n \in 1..c
      <4>1. e[n].after = (IF n = 1 THEN 0 ELSE e[n - 1].after) + e[n].delta
        BY <1>1, <3>2 DEF AddsUp
      <4>2. f[n] = e[n] /\ (n # 1 => f[n - 1] = e[n - 1])
        BY <1>1, <3>2
      <4>3. QED
        BY <4>1, <4>2
    <3>3. QED
      BY <1>1, <3>1, <3>2
  <2>3. x.after = IF c + 2 = 1 THEN 0 ELSE f[c + 1].after
    BY <1>1
  <2>4. QED
    BY <1>1, <2>2, <2>3 DEF AddsUp
<1>3. Unrepeated(e) /\ ~Has(e, x.type, x.bet) => Unrepeated(f)
  <2> SUFFICES ASSUME Unrepeated(e), ~Has(e, x.type, x.bet),
                      NEW m \in DOMAIN f, NEW n \in DOMAIN f,
                      f[m].bet # Null, f[m].bet = f[n].bet, f[m].type = f[n].type
               PROVE  m = n
    BY DEF Unrepeated
  <2>1. CASE m \in 1..c /\ n \in 1..c
    BY <1>1, <2>1 DEF Unrepeated
  <2>2. CASE m = c + 1 /\ n \in 1..c
    BY <1>1, <2>2 DEF Has
  <2>3. CASE m \in 1..c /\ n = c + 1
    BY <1>1, <2>3 DEF Has
  <2>4. QED
    BY <1>1, <2>1, <2>2, <2>3
<1>4. ASSUME NEW type, NEW b
      PROVE  Has(f, type, b) <=> Has(e, type, b) \/ (b # Null /\ x.bet = b /\ x.type = type)
  <2>1. DOMAIN f = DOMAIN e \cup {c + 1}
    BY <1>1
  <2>2. QED
    BY <1>1, <2>1 DEF Has
<1>5. QED
  BY <1>2, <1>3, <1>4 DEF f

\* The entries of a settlement's credits, one for each of the bets.
CreditsOf(new, bal, W) ==
  /\ \A n \in DOMAIN new : /\ new[n].type = "settlement_credit" /\ new[n].delta = 2
                           /\ new[n].after = bal + n * 2 /\ new[n].bet \in W
  /\ \A m, n \in DOMAIN new : new[m].bet = new[n].bet => m = n
  /\ \A b \in W : \E n \in DOMAIN new : new[n].bet = b

LEMMA Concatenated ==
  ASSUME NEW e \in Seq(Entry), NEW new \in Seq(Entry), NEW bal \in Nat, NEW W,
         Null \notin W, CreditsOf(new, bal, W)
  PROVE  /\ AddsUp(e, bal) => AddsUp(e \o new, bal + Len(new) * 2)
         /\ Unrepeated(e) /\ (\A b \in W : ~Has(e, "settlement_credit", b)) => Unrepeated(e \o new)
         /\ \A type, b : Has(e \o new, type, b) <=>
                           Has(e, type, b) \/ (b \in W /\ type = "settlement_credit")
<1> DEFINE f == e \o new
           c == Len(e)
           d == Len(new)
<1>1. /\ c \in Nat /\ d \in Nat /\ DOMAIN e = 1..c /\ DOMAIN new = 1..d
      /\ DOMAIN f = 1..(c + d) /\ Len(f) = c + d
      /\ \A n \in 1..c : f[n] = e[n]
      /\ \A n \in 1..d : f[c + n] = new[n]
  <2>1. c \in Nat /\ d \in Nat /\ DOMAIN e = 1..c /\ DOMAIN new = 1..d
    BY LenProperties
  <2>2. /\ f \in Seq(Entry) /\ Len(f) = c + d
        /\ \A i \in 1..(c + d) : f[i] = IF i <= c THEN e[i] ELSE new[i - c]
    BY ConcatProperties
  <2>3. DOMAIN f = 1..(c + d)
    BY <2>2, LenProperties
  <2> HIDE DEF f, c, d
  <2>4. \A n \in 1..c : f[n] = e[n]
    BY <2>1, <2>2
  <2>5. ASSUME NEW n \in 1..d
        PROVE  f[c + n] = new[n]
    <3>1. PICK i : i = c + n
      OBVIOUS
    <3>2. i \in 1..(c + d) /\ ~(i <= c) /\ i - c = n
      BY <2>1, <3>1
    <3>3. f[i] = new[n]
      BY <2>2, <3>2
    <3>4. QED
      BY <3>1, <3>3
  <2>6. QED
    BY <2>1, <2>2, <2>3, <2>4, <2>5 DEF f, c, d
<1> HIDE DEF f, c, d
<1> DEFINE credit(k) == f[c + k]
<1>10. ASSUME NEW k \in 1..d
       PROVE  /\ c + k \in DOMAIN f /\ k \in DOMAIN new
              /\ credit(k) = new[k] /\ credit(k).bet \in W
              /\ credit(k).type = "settlement_credit" /\ credit(k).delta = 2
              /\ credit(k).after = bal + k * 2
  <2>1. credit(k) = new[k] /\ k \in DOMAIN new /\ c + k \in 1..(c + d)
    BY <1>1
  <2>2. /\ new[k].type = "settlement_credit" /\ new[k].delta = 2
        /\ new[k].after = bal + k * 2 /\ new[k].bet \in W
    BY <2>1 DEF CreditsOf
  <2> HIDE DEF credit
  <2>3. QED
    BY <1>1, <2>1, <2>2
<1>2. ASSUME NEW n \in DOMAIN f, n \notin 1..c
      PROVE  \E k \in 1..d : n = c + k
  <2>1. n - c \in 1..d /\ n = c + (n - c)
    BY <1>1, <1>2
  <2>2. QED
    BY <2>1
<1>3. AddsUp(e, bal) => AddsUp(f, bal + d * 2)
  <2> SUFFICES ASSUME AddsUp(e, bal)
               PROVE  AddsUp(f, bal + d * 2)
    OBVIOUS
  <2>1. bal = IF c + 1 = 1 THEN 0 ELSE e[c].after
    BY <1>1 DEF AddsUp, c
  <2>2. ASSUME NEW k \in 0..d
        PROVE  bal + k * 2 = IF c + k + 1 = 1 THEN 0 ELSE f[c + k].after
    <3>1. CASE k = 0
      BY <1>1, <2>1, <3>1
    <3>2. CASE k \in 1..d
      <4>1. f[c + k].after = bal + k * 2
        BY <1>10, <3>2
      <4>2. c + k + 1 # 1
        BY <1>1, <3>2
      <4>3. QED
        BY <4>1, <4>2
    <3>3. QED
      BY <1>1, <3>1, <3>2
  <2> DEFINE Links(n) == f[n].after = (IF n = 1 THEN 0 ELSE f[n - 1].after) + f[n].delta
  <2>3. ASSUME NEW n \in 1..c
        PROVE  Links(n)
    <3>1. e[n].after = (IF n = 1 THEN 0 ELSE e[n - 1].after) + e[n].delta
      BY <1>1 DEF AddsUp
    <3>2. f[n] = e[n] /\ (n # 1 => f[n - 1] = e[n - 1])
      BY <1>1
    <3>3. QED
      BY <3>1, <3>2
  <2>4. ASSUME NEW k \in 1..d
        PROVE  Links(c + k)
    <3>1. k - 1 \in 0..d /\ c + (k - 1) + 1 = c + k /\ c + (k - 1) = (c + k) - 1
      BY <1>1
    <3>2. bal + (k - 1) * 2 = IF c + k = 1 THEN 0 ELSE f[(c + k) - 1].after
      BY <2>2, <3>1
    <3>3. f[c + k].delta = 2 /\ f[c + k].after = bal + k * 2
      BY <1>10
    <3>4. bal + k * 2 = bal + (k - 1) * 2 + 2
      OBVIOUS
    <3>5. QED
      BY <3>2, <3>3, <3>4
  <2> HIDE DEF Links
  <2>5. \A n \in DOMAIN f : Links(n)
    BY <1>2, <2>3, <2>4
  <2> USE DEF Links
  <2>6. bal + d * 2 = IF c + d + 1 = 1 THEN 0 ELSE f[c + d].after
    <3>1. d \in 0..d
      BY <1>1
    <3>2. QED
      BY <2>2, <3>1
  <2>7. c + d + 1 - 1 = c + d
    BY <1>1
  <2>8. QED
    BY <1>1, <2>5, <2>6, <2>7 DEF AddsUp
<1>4. Unrepeated(e) /\ (\A b \in W : ~Has(e, "settlement_credit", b)) => Unrepeated(f)
  <2> SUFFICES ASSUME Unrepeated(e), \A b \in W : ~Has(e, "settlement_credit", b),
                      NEW m \in DOMAIN f, NEW n \in DOMAIN f,
                      f[m].bet # Null, f[m].bet = f[n].bet, f[m].type = f[n].type
               PROVE  m = n
    BY DEF Unrepeated
  <2>1. ASSUME NEW i \in 1..c, NEW k \in 1..d
        PROVE  ~(f[i].bet = f[c + k].bet /\ f[i].type = f[c + k].type)
    <3>1. /\ f[c + k].type = "settlement_credit" /\ f[c + k].bet \in W
          /\ f[i] = e[i] /\ i \in DOMAIN e
      BY <1>1, <1>10
    <3>2. QED
      BY <3>1 DEF Has
  <2>2. CASE m \in 1..c /\ n \in 1..c
    BY <1>1, <2>2 DEF Unrepeated
  <2>3. CASE m \in 1..c /\ n \notin 1..c
    BY <1>2, <2>1, <2>3
  <2>4. CASE m \notin 1..c /\ n \in 1..c
    BY <1>2, <2>1, <2>4
  <2>5. CASE m \notin 1..c /\ n \notin 1..c
    <3>1. PICK j \in 1..d, k \in 1..d : m = c + j /\ n = c + k
      BY <1>2, <2>5
    <3>2. new[j].bet = new[k].bet
      BY <1>1, <3>1
    <3>3. QED
      BY <1>1, <3>1, <3>2 DEF CreditsOf
  <2>6. QED
    BY <2>2, <2>3, <2>4, <2>5
<1>5. ASSUME NEW type, NEW b
      PROVE  Has(f, type, b) <=> Has(e, type, b) \/ (b \in W /\ type = "settlement_credit")
  <2>1. Has(f, type, b) => Has(e, type, b) \/ (b \in W /\ type = "settlement_credit")
    <3> SUFFICES ASSUME b # Null, NEW n \in DOMAIN f, f[n].bet = b, f[n].type = type
                 PROVE  Has(e, type, b) \/ (b \in W /\ type = "settlement_credit")
      BY DEF Has
    <3>1. CASE n \in 1..c
      BY <1>1, <3>1 DEF Has
    <3>2. CASE n \notin 1..c
      <4>1. PICK k \in 1..d : n = c + k
        BY <1>2, <3>2
      <4>2. QED
        BY <1>10, <4>1
    <3>3. QED
      BY <3>1, <3>2
  <2>2. Has(e, type, b) => Has(f, type, b)
    <3>1. \A n \in 1..c : n \in DOMAIN f
      BY <1>1
    <3>2. QED
      BY <1>1, <3>1 DEF Has
  <2>3. ASSUME b \in W, type = "settlement_credit"
        PROVE  Has(f, type, b)
    <3>1. PICK k \in 1..d : new[k].bet = b
      BY <1>1, <2>3 DEF CreditsOf
    <3>2. /\ c + k \in DOMAIN f /\ f[c + k] = new[k]
          /\ f[c + k].type = "settlement_credit"
      BY <1>10
    <3>3. QED
      BY <2>3, <3>1, <3>2 DEF Has
  <2>4. QED
    BY <2>1, <2>2, <2>3
<1>6. QED
  BY <1>3, <1>4, <1>5 DEF f, d

-----------------------------------------------------------------------------
(* Balances and locks *)

LEMMA MatchIsAddsUp ==
  LedgerMatchesBalance <=> \A u \in Users : AddsUp(ledger[u], balance[u])
BY DEF LedgerMatchesBalance, AddsUp

\* A placement that holds a wallet knows its balance.
Locks ==
  \A p \in Requests :
    placing[p].stage = "locked" =>
      /\ holder[placing[p].user] = p
      /\ placing[p].balance = balance[placing[p].user]

Money == Typed /\ Locks /\ LedgerMatchesBalance

LEMMA MoneyInit == Init => Money
<1> SUFFICES ASSUME Init
             PROVE  Money
  OBVIOUS
<1>1. Typed
  BY TypedInit
<1>2. Locks
  BY DEF Init, Locks
<1>3. \A u \in Users : ledger[u] = << >> /\ balance[u] = 0
  BY DEF Init
<1>4. AddsUp(<< >>, 0)
  <2>1. Len(<< >>) = 0 /\ DOMAIN << >> = {}
    OBVIOUS
  <2>2. QED
    BY <2>1 DEF AddsUp
<1>5. QED
  BY <1>1, <1>2, <1>3, <1>4, MatchIsAddsUp DEF Money

\* What a delta does to the wallets.
LEMMA DeltaAppends ==
  ASSUME Typed, NEW u \in Users, NEW read \in Nat, NEW delta \in Int,
         NEW type \in {"adjustment", "bet_stake", "settlement_credit"},
         NEW b \in Requests \cup {Null}, Delta(u, read, delta, type, b)
  PROVE  \E x \in Entry :
           /\ x.type = type /\ x.bet = b /\ x.delta = delta /\ x.after = read + delta
           /\ ~Has(ledger[u], type, b)
           /\ ledger'[u] = Append(ledger[u], x) /\ balance'[u] = read + delta
           /\ \A w \in Users \ {u} : ledger'[w] = ledger[w] /\ balance'[w] = balance[w]
           /\ ledger[u] \in Seq(Entry)
<1> DEFINE x == [type |-> type, bet |-> b, delta |-> delta, after |-> read + delta]
<1>1. read + delta \in Nat
  BY DEF Delta
<1>2. /\ x \in Entry /\ x.type = type /\ x.bet = b /\ x.delta = delta /\ x.after = read + delta
  BY <1>1 DEF Entry
<1>3. /\ ledger' = [ledger EXCEPT ![u] = Append(@, x)]
      /\ balance' = [balance EXCEPT ![u] = read + delta]
      /\ ~Has(ledger[u], type, b)
  BY DEF Delta, OnLedger, Has
<1> HIDE DEF x
<1>4. ledger \in [Users -> Seq(Entry)] /\ balance \in [Users -> Nat]
  BY DEF Typed, TypeOK, Sequenced
<1>5. QED
  BY <1>2, <1>3, <1>4

\* What a settlement does to the wallets.
LEMMA CommitAppends ==
  ASSUME Typed, NEW s \in Settlers, CommitSettlement(s), NEW u \in Users
  PROVE  LET W == Winners(s, u)
             new == Credits(s, u) IN
         /\ W \subseteq settling[s].batch /\ Null \notin W
         /\ Cardinality(W) \in Nat /\ CreditsOf(new, balance[u], W) /\ new \in Seq(Entry) /\ ledger[u] \in Seq(Entry)
         /\ ledger'[u] = ledger[u] \o new /\ balance'[u] = balance[u] + Len(new) * 2
         /\ balance[u] \in Nat
         /\ W # {} => holder[u] = s
         /\ W = {} => balance'[u] = balance[u]
         /\ \A b \in W : ~Has(ledger[u], "settlement_credit", b)
<1> DEFINE W == Winners(s, u)
           new == Credits(s, u)
<1>1. /\ W \subseteq Requests /\ Cardinality(W) \in Nat
      /\ new \in Seq(Entry) /\ Len(new) = Cardinality(W) /\ DOMAIN new = 1..Len(new)
      /\ CreditsOf(new, balance[u], W)
  <2>1. /\ W \subseteq Requests /\ Cardinality(W) \in Nat
        /\ new \in Seq(Entry) /\ Len(new) = Cardinality(W)
        /\ \A n \in 1..Cardinality(W) :
              /\ new[n].type = "settlement_credit" /\ new[n].delta = 2
              /\ new[n].after = balance[u] + n * 2 /\ new[n].bet \in W
        /\ \A m, n \in 1..Cardinality(W) : new[m].bet = new[n].bet => m = n
        /\ \A b \in W : \E n \in 1..Cardinality(W) : new[n].bet = b
    BY CreditsTyped
  <2> HIDE DEF W, new
  <2>2. DOMAIN new = 1..Len(new)
    BY <2>1, LenProperties
  <2>3. QED
    BY <2>1, <2>2 DEF CreditsOf
<1>2. balance' = [w \in Users |-> balance[w] + Cardinality(Winners(s, w)) * 2]
  BY DEF CommitSettlement, Payout
<1>3. /\ ledger' = [w \in Users |-> ledger[w] \o Credits(s, w)]
      /\ W # {} => holder[u] = s
      /\ \A b \in W : ~Has(ledger[u], "settlement_credit", b)
  BY DEF CommitSettlement, OnLedger, Has
<1>4. Null \notin W
  BY <1>1, WageringAssumption
<1>5. ledger[u] \in Seq(Entry) /\ balance[u] \in Nat
  BY DEF Typed, TypeOK, Sequenced
<1>6. W \subseteq settling[s].batch
  BY DEF Winners
<1>7. balance'[u] = balance[u] + Cardinality(W) * 2
  BY <1>2
<1> HIDE DEF new, W
<1>8. W = {} => balance'[u] = balance[u]
  <2>1. W = {} => Cardinality(W) = 0
    BY FS_EmptySet
  <2>2. QED
    BY <1>5, <1>7, <2>1
<1>9. QED
  BY <1>1, <1>3, <1>4, <1>5, <1>6, <1>7, <1>8 DEF W, new

\* A step that leaves wallets and their locks, and what holders have read.
Quiet ==
  /\ UNCHANGED money
  /\ \A p \in Requests : placing'[p].stage = "locked" => placing'[p] = placing[p]

LEMMA QuietSteps ==
  ASSUME Typed,
         \/ Advance \/ EnsureRacePoolOpen \/ CreateRacePool \/ FreezeRacePool \/ FreezePool
         \/ \E h \in Selections : RegisterPoolSelection(h)
         \/ EndCall("open") \/ EndCall("freeze") \/ ReadLocalBets \/ Detect \/ UNCHANGED vars
         \/ \E p \in Requests : CheckRaceOpen(p) \/ PlaceBet(p) \/ RecordBet(p)
         \/ \E s \in Settlers : \/ EnsureRaceCanSettle(s) \/ PoolReady(s) \/ SettleBet(s)
                              \/ ApplyResults(s) \/ LockBets(s)
  PROVE  Quiet
<1>1. CASE \E p \in Requests : CheckRaceOpen(p) \/ PlaceBet(p) \/ RecordBet(p)
  <2>1. PICK p \in Requests : CheckRaceOpen(p) \/ PlaceBet(p) \/ RecordBet(p)
    BY <1>1
  <2>2. CASE CheckRaceOpen(p)
    <3>1. /\ placing'[p].stage = "checked"
          /\ \A q \in Requests \ {p} : placing'[q] = placing[q]
      BY <2>2 DEF CheckRaceOpen, Typed, TypeOK
    <3>2. QED
      BY <2>2, <3>1 DEF CheckRaceOpen, Quiet
  <2>3. CASE PlaceBet(p) \/ RecordBet(p)
    <3>1. \E stage \in {"accepted", "done"} : Step(p, stage)
      BY <2>3 DEF PlaceBet, RecordBet
    <3>2. /\ placing'[p].stage # "locked"
          /\ \A q \in Requests \ {p} : placing'[q] = placing[q]
      BY <3>1, StepTyped
    <3>3. QED
      BY <2>3, <3>2 DEF PlaceBet, RecordBet, Quiet
  <2>4. QED
    BY <2>1, <2>2, <2>3
<1>2. CASE \/ Advance \/ EnsureRacePoolOpen \/ CreateRacePool \/ FreezeRacePool \/ FreezePool
           \/ \E h \in Selections : RegisterPoolSelection(h)
           \/ EndCall("open") \/ EndCall("freeze") \/ ReadLocalBets \/ Detect \/ UNCHANGED vars
  BY <1>2 DEF Quiet, Advance, EnsureRacePoolOpen, CreateRacePool, FreezeRacePool, FreezePool,
              RegisterPoolSelection, EndCall, ReadLocalBets, Detect, vars
<1>3. CASE \E s \in Settlers : \/ EnsureRaceCanSettle(s) \/ PoolReady(s) \/ SettleBet(s)
                             \/ ApplyResults(s) \/ LockBets(s)
  BY <1>3 DEF Quiet, EnsureRaceCanSettle, PoolReady, SettleBet, ApplyResults, LockBets
<1>4. QED
  BY <1>1, <1>2, <1>3

LEMMA MoneyNext == Money /\ [Next]_vars => Money'
<1> SUFFICES ASSUME Money, [Next]_vars
             PROVE  Money'
  OBVIOUS
<1>1. Typed /\ Typed' /\ Locks /\ \A u \in Users : AddsUp(ledger[u], balance[u])
  BY TypedNext, MatchIsAddsUp DEF Money
<1>2. SUFFICES Locks' /\ \A u \in Users : AddsUp(ledger'[u], balance'[u])
  <2>1. LedgerMatchesBalance' <=> \A u \in Users : AddsUp(ledger'[u], balance'[u])
    BY DEF LedgerMatchesBalance, AddsUp
  <2>2. QED
    BY <1>1, <2>1 DEF Money
<1>3. CASE Quiet
  BY <1>1, <1>3 DEF Quiet, Locks, money
<1>4. ASSUME NEW p \in Requests, LockWallet(p)
      PROVE  Locks' /\ \A u \in Users : AddsUp(ledger'[u], balance'[u])
  <2>1. /\ placing[p].stage = "checked" /\ placing[p].user \in Users
        /\ holder[placing[p].user] = Null
        /\ holder' = [holder EXCEPT ![placing[p].user] = p]
        /\ UNCHANGED <<balance, ledger>>
    BY <1>1, <1>4 DEF LockWallet, Typed, Stages
  <2>2. /\ placing'[p].user = placing[p].user
        /\ placing'[p].balance = balance[placing[p].user]
        /\ \A q \in Requests \ {p} : placing'[q] = placing[q]
    BY <1>1, <1>4 DEF LockWallet, Typed, TypeOK, Placing
  <2>3. \A u \in Users : holder'[u] = IF u = placing[p].user THEN p ELSE holder[u]
    BY <1>1, <2>1 DEF Typed, TypeOK
  <2>4. ASSUME NEW q \in Requests, placing'[q].stage = "locked"
        PROVE  holder'[placing'[q].user] = q /\ placing'[q].balance = balance'[placing'[q].user]
    <3>1. CASE q = p
      BY <2>1, <2>2, <2>3, <3>1
    <3>2. CASE q # p
      <4>1. /\ placing[q].user \in Users /\ holder[placing[q].user] = q
            /\ placing[q].balance = balance[placing[q].user]
        BY <1>1, <2>2, <2>4, <3>2 DEF Locks, Typed, Stages
      <4>2. placing[q].user # placing[p].user
        BY <2>1, <4>1, WageringAssumption
      <4>3. QED
        BY <2>1, <2>2, <2>3, <3>2, <4>1, <4>2
    <3>3. QED
      BY <3>1, <3>2
  <2>5. QED
    BY <1>1, <2>1, <2>4 DEF Locks
<1>5. ASSUME NEW p \in Requests, TakeStake(p)
      PROVE  Locks' /\ \A u \in Users : AddsUp(ledger'[u], balance'[u])
  <2> DEFINE u == placing[p].user
  <2>1. /\ u \in Users /\ placing[p].balance = balance[u] /\ holder[u] = p /\ balance[u] \in Nat
        /\ Delta(u, balance[u], -1, "bet_stake", p)
        /\ holder' = [w \in Users |-> IF holder[w] = p THEN Null ELSE holder[w]]
    BY <1>1, <1>5 DEF TakeStake, Release, Typed, TypeOK, Stages, Locks
  <2>2. /\ placing'[p].stage = "done"
        /\ \A q \in Requests \ {p} : placing'[q] = placing[q]
    BY <1>1, <1>5, StepTyped DEF TakeStake
  <2> HIDE DEF u
  <2>3. PICK x \in Entry :
          /\ x.delta = -1 /\ x.after = balance[u] + -1
          /\ ledger'[u] = Append(ledger[u], x) /\ balance'[u] = balance[u] + -1
          /\ \A w \in Users \ {u} : ledger'[w] = ledger[w] /\ balance'[w] = balance[w]
          /\ ledger[u] \in Seq(Entry)
    BY <1>1, <2>1, DeltaAppends
  <2>4. AddsUp(ledger'[u], balance'[u])
    BY <1>1, <2>1, <2>3, Appended
  <2>5. ASSUME NEW q \in Requests, placing'[q].stage = "locked"
        PROVE  holder'[placing'[q].user] = q /\ placing'[q].balance = balance'[placing'[q].user]
    <3>1. q # p /\ placing'[q] = placing[q]
      BY <2>2, <2>5
    <3>2. /\ placing[q].user \in Users /\ holder[placing[q].user] = q
          /\ placing[q].balance = balance[placing[q].user]
      BY <1>1, <2>5, <3>1 DEF Locks, Typed, Stages
    <3>3. placing[q].user # u
      BY <2>1, <3>1, <3>2
    <3>4. QED
      BY <2>1, <2>3, <3>1, <3>2, <3>3
  <2>6. QED
    BY <1>1, <2>3, <2>4, <2>5 DEF Locks
<1>6. ASSUME NEW p \in Requests, Stop(p)
      PROVE  Locks' /\ \A u \in Users : AddsUp(ledger'[u], balance'[u])
  <2>1. /\ placing'[p].stage = "done"
        /\ \A q \in Requests \ {p} : placing'[q] = placing[q]
        /\ holder' = [w \in Users |-> IF holder[w] = p THEN Null ELSE holder[w]]
        /\ UNCHANGED <<balance, ledger>>
    BY <1>1, <1>6, StepTyped DEF Stop, Release
  <2>2. QED
    BY <1>1, <2>1 DEF Locks, Typed, Stages
<1>7. ASSUME NEW u \in Users, AdjustWallet(u)
      PROVE  Locks' /\ \A w \in Users : AddsUp(ledger'[w], balance'[w])
  <2>1. holder[u] = Null /\ UNCHANGED <<holder, placing>> /\ balance[u] \in Nat
    BY <1>1, <1>7 DEF AdjustWallet, Typed, TypeOK
  <2>2. PICK delta \in {-1, 1} : Delta(u, balance[u], delta, "adjustment", Null)
    BY <1>7 DEF AdjustWallet
  <2>3. PICK x \in Entry :
          /\ x.delta = delta /\ x.after = balance[u] + delta
          /\ ledger'[u] = Append(ledger[u], x) /\ balance'[u] = balance[u] + delta
          /\ \A w \in Users \ {u} : ledger'[w] = ledger[w] /\ balance'[w] = balance[w]
          /\ ledger[u] \in Seq(Entry)
    <3>1. /\ delta \in Int /\ Null \in Requests \cup {Null}
          /\ "adjustment" \in {"adjustment", "bet_stake", "settlement_credit"}
      OBVIOUS
    <3>2. QED
      BY <1>1, <2>1, <2>2, <3>1, DeltaAppends
  <2>4. AddsUp(ledger'[u], balance'[u])
    BY <1>1, <2>3, Appended
  <2>5. Locks'
    BY <1>1, <2>1, <2>3, WageringAssumption DEF Locks, Typed, Stages
  <2>6. QED
    BY <1>1, <2>3, <2>4, <2>5
<1>8. ASSUME NEW s \in Settlers, NEW u \in Users, CreditWallet(s, u)
      PROVE  Locks' /\ \A w \in Users : AddsUp(ledger'[w], balance'[w])
  <2>1. /\ holder[u] = Null /\ UNCHANGED <<balance, ledger, placing>>
        /\ \A w \in Users \ {u} : holder'[w] = holder[w]
    BY <1>1, <1>8 DEF CreditWallet, Typed, TypeOK
  <2>2. Locks'
    BY <1>1, <2>1, WageringAssumption DEF Locks, Typed, Stages
  <2>3. QED
    BY <1>1, <2>1, <2>2
<1>9. ASSUME NEW s \in Settlers, CommitSettlement(s)
      PROVE  Locks' /\ \A u \in Users : AddsUp(ledger'[u], balance'[u])
  <2>1. /\ UNCHANGED placing
        /\ holder' = [w \in Users |-> IF holder[w] = s THEN Null ELSE holder[w]]
    BY <1>9 DEF CommitSettlement, Release
  <2>2. ASSUME NEW u \in Users
        PROVE  AddsUp(ledger'[u], balance'[u])
    <3> DEFINE W == Winners(s, u)
               new == Credits(s, u)
    <3>1. /\ Null \notin W /\ CreditsOf(new, balance[u], W)
          /\ new \in Seq(Entry) /\ ledger[u] \in Seq(Entry) /\ balance[u] \in Nat
          /\ ledger'[u] = ledger[u] \o new /\ balance'[u] = balance[u] + Len(new) * 2
      BY <1>1, <1>9, CommitAppends
    <3> HIDE DEF W, new
    <3>2. AddsUp(ledger[u] \o new, balance[u] + Len(new) * 2)
      BY <1>1, <3>1, Concatenated
    <3>3. QED
      BY <3>1, <3>2
  <2>3. ASSUME NEW u \in Users, holder[u] # s
        PROVE  balance'[u] = balance[u]
    BY <1>1, <1>9, <2>3, CommitAppends
  <2>4. ASSUME NEW q \in Requests, placing'[q].stage = "locked"
        PROVE  holder'[placing'[q].user] = q /\ placing'[q].balance = balance'[placing'[q].user]
    <3>1. /\ placing[q].user \in Users /\ holder[placing[q].user] = q
          /\ placing[q].balance = balance[placing[q].user]
      BY <1>1, <2>1, <2>4 DEF Locks, Typed, Stages
    <3>2. q # s
      BY WageringAssumption
    <3>3. QED
      BY <2>1, <2>3, <3>1, <3>2
  <2>5. QED
    BY <2>2, <2>4 DEF Locks
<1>10. ASSUME NEW s \in Settlers, Abort(s)
       PROVE  Locks' /\ \A u \in Users : AddsUp(ledger'[u], balance'[u])
  <2>1. /\ UNCHANGED <<placing, balance, ledger>>
        /\ holder' = [w \in Users |-> IF holder[w] = s THEN Null ELSE holder[w]]
    BY <1>10 DEF Abort, Release
  <2>2. Locks'
    BY <1>1, <2>1, WageringAssumption DEF Locks, Typed, Stages
  <2>3. QED
    BY <1>1, <2>1, <2>2
<1>11. QED
  BY <1>1, <1>3, <1>4, <1>5, <1>6, <1>7, <1>8, <1>9, <1>10, QuietSteps DEF Next

\* A balance is what its ledger adds up to, although placements, settlements
\* and administrators change one wallet at once: each change is made under the
\* row lock, from the balance read under it (walletService.ts:39-89).
THEOREM LedgersAddUp == Spec => []LedgerMatchesBalance
<1>1. Money => LedgerMatchesBalance
  BY DEF Money
<1>2. QED
  BY <1>1, MoneyInit, MoneyNext, PTL DEF Spec


-----------------------------------------------------------------------------
(* What a bet has moved in the fallback *)

\* Rows a settlement holds are unsettled, and no other settlement holds them.
Batches ==
  \A s \in Settlers :
    /\ settling[s].batch \subseteq {b \in Requests : bets[b].status = "placed"}
    /\ \A t \in Settlers \ {s} : settling[s].batch \cap settling[t].batch = {}

\* A row is inserted by a request that is done with it, and has no result before
\* its settlement.
Rows ==
  \A b \in Requests :
    /\ bets[b].status # "absent" => placing[b].stage = "done"
    /\ bets[b].status # "settled" => bets[b].result = "pending"

Owned(u, b) == bets[b].status # "absent" /\ bets[b].user = u

\* The ledgers say of each bet what its row says.
Paid ==
  \A u \in Users :
    /\ Unrepeated(ledger[u])
    /\ \A b \in Requests :
         /\ Has(ledger[u], "bet_stake", b) <=> Owned(u, b)
         /\ Has(ledger[u], "settlement_credit", b) <=> Owned(u, b) /\ bets[b].result = "won"

Books == Typed /\ (fallback => Batches /\ Rows /\ Paid)

LEMMA BooksInit == Init => Books
<1> SUFFICES ASSUME Init
             PROVE  Books
  OBVIOUS
<1>1. Typed
  BY TypedInit
<1>2. /\ \A s \in Settlers : settling[s].batch = {}
      /\ \A b \in Requests : bets[b].status = "absent" /\ bets[b].result = "pending"
      /\ \A u \in Users : ledger[u] = << >>
  BY DEF Init, NotSettling
<1>3. Batches /\ Rows
  BY <1>2 DEF Batches, Rows
<1>4. DOMAIN << >> = {}
  OBVIOUS
<1>5. Unrepeated(<< >>) /\ \A type, b : ~Has(<< >>, type, b)
  BY <1>4 DEF Unrepeated, Has
<1>6. Paid
  BY <1>2, <1>5 DEF Paid, Owned
<1>7. QED
  BY <1>1, <1>3, <1>6 DEF Books

\* Steps that change neither rows nor ledgers, and at most end a settlement.
LEMMA Undisturbed ==
  ASSUME Batches, Rows, Paid, RequestsStand, UNCHANGED <<bets, ledger>>,
         \A s \in Settlers : settling'[s].batch \in {settling[s].batch, {}}
  PROVE  Batches' /\ Rows' /\ Paid'
<1>1. Batches'
  BY DEF Batches
<1>2. Rows'
  BY DEF Rows, RequestsStand
<1>3. Paid'
  BY DEF Paid, Owned, Unrepeated, Has
<1>4. QED
  BY <1>1, <1>2, <1>3

LEMMA StakeBooked ==
  ASSUME Typed, fallback, Batches, Rows, Paid, RequestsStand, NEW p \in Requests, TakeStake(p)
  PROVE  Batches' /\ Rows' /\ Paid'
<1> DEFINE u == placing[p].user
<1>1. /\ u \in Users /\ placing[p].stage = "locked" /\ placing[p].balance \in Nat
      /\ Delta(u, placing[p].balance, -1, "bet_stake", p)
      /\ UNCHANGED settling
  BY DEF TakeStake, Typed, TypeOK, Stages, Placing
<1>2. placing'[p].stage = "done"
  BY StepTyped DEF TakeStake
<1>3. /\ bets'[p].status = "placed" /\ bets'[p].user = u /\ bets'[p].result = "pending"
      /\ \A b \in Requests \ {p} : bets'[b] = bets[b]
  BY DEF TakeStake, CreateBet, Typed, TypeOK
<1>4. bets[p].status = "absent" /\ p # Null
  BY <1>1, WageringAssumption DEF Rows
<1> HIDE DEF u
<1>5. PICK x \in Entry :
        /\ x.type = "bet_stake" /\ x.bet = p
        /\ ~Has(ledger[u], "bet_stake", p)
        /\ ledger'[u] = Append(ledger[u], x) /\ ledger[u] \in Seq(Entry)
        /\ \A w \in Users \ {u} : ledger'[w] = ledger[w]
  BY <1>1, DeltaAppends
<1>6. /\ Unrepeated(ledger[u]) => Unrepeated(ledger'[u])
      /\ \A type, b : Has(ledger'[u], type, b) <=>
                        Has(ledger[u], type, b) \/ (b = p /\ type = "bet_stake")
  <2>1. /\ Unrepeated(ledger[u]) /\ ~Has(ledger[u], x.type, x.bet) =>
             Unrepeated(Append(ledger[u], x))
        /\ \A type, b : Has(Append(ledger[u], x), type, b) <=>
                          Has(ledger[u], type, b) \/ (b # Null /\ x.bet = b /\ x.type = type)
    BY <1>5, Appended, Zenon
  <2>2. QED
    BY <1>4, <1>5, <2>1
<1>7. Batches'
  <2>1. \A b \in Requests : bets[b].status = "placed" => bets'[b].status = "placed"
    BY <1>3
  <2>2. settling' = settling
    BY <1>1
  <2>3. QED
    BY <2>1, <2>2 DEF Batches
<1>8. Rows'
  BY <1>2, <1>3 DEF Rows, RequestsStand
<1>9. ASSUME NEW w \in Users
      PROVE  /\ Unrepeated(ledger'[w])
             /\ \A b \in Requests :
                  /\ Has(ledger'[w], "bet_stake", b) <=> Owned(w, b)'
                  /\ Has(ledger'[w], "settlement_credit", b) <=>
                       Owned(w, b)' /\ bets'[b].result = "won"
  <2>1. Unrepeated(ledger'[w])
    BY <1>5, <1>6 DEF Paid
  <2>2. ASSUME NEW b \in Requests, b # p
        PROVE  /\ Owned(w, b)' <=> Owned(w, b)
               /\ bets'[b].result = bets[b].result
               /\ \A type : Has(ledger'[w], type, b) <=> Has(ledger[w], type, b)
    BY <1>3, <1>5, <1>6, <2>2 DEF Owned
  <2>3. /\ Owned(w, p)' <=> w = u
        /\ bets'[p].result # "won" /\ ~Owned(w, p)
    BY <1>3, <1>4 DEF Owned
  <2>4. /\ Has(ledger'[w], "bet_stake", p) <=> w = u
        /\ ~Has(ledger'[w], "settlement_credit", p)
    <3>1. ~Has(ledger[w], "bet_stake", p) /\ ~Has(ledger[w], "settlement_credit", p)
      BY <2>3 DEF Paid
    <3>2. CASE w = u
      BY <1>6, <3>1, <3>2
    <3>3. CASE w # u
      BY <1>5, <3>1, <3>3
    <3>4. QED
      BY <3>2, <3>3
  <2>5. QED
    BY <2>1, <2>2, <2>3, <2>4 DEF Paid
<1>10. Paid'
  BY <1>9 DEF Paid
<1>11. QED
  BY <1>7, <1>8, <1>10

LEMMA AdjustmentBooked ==
  ASSUME Typed, Batches, Rows, Paid, RequestsStand, NEW u \in Users, AdjustWallet(u)
  PROVE  Batches' /\ Rows' /\ Paid'
<1>1. PICK delta \in {-1, 1} : Delta(u, balance[u], delta, "adjustment", Null)
  BY DEF AdjustWallet
<1>2. UNCHANGED <<bets, settling>> /\ balance[u] \in Nat
  BY DEF AdjustWallet, Typed, TypeOK
<1>3. PICK x \in Entry :
        /\ x.type = "adjustment" /\ x.bet = Null
        /\ ledger'[u] = Append(ledger[u], x) /\ ledger[u] \in Seq(Entry)
        /\ \A w \in Users \ {u} : ledger'[w] = ledger[w]
  <2>1. /\ delta \in Int /\ Null \in Requests \cup {Null}
        /\ "adjustment" \in {"adjustment", "bet_stake", "settlement_credit"}
    OBVIOUS
  <2>2. QED
    BY <1>1, <1>2, <2>1, DeltaAppends
<1>4. ~Has(ledger[u], x.type, x.bet)
  BY <1>3 DEF Has
<1>5. /\ Unrepeated(ledger[u]) => Unrepeated(ledger'[u])
      /\ \A type, b : Has(ledger'[u], type, b) <=> Has(ledger[u], type, b)
  <2>1. /\ Unrepeated(ledger[u]) /\ ~Has(ledger[u], x.type, x.bet) =>
             Unrepeated(Append(ledger[u], x))
        /\ \A type, b : Has(Append(ledger[u], x), type, b) <=>
                          Has(ledger[u], type, b) \/ (b # Null /\ x.bet = b /\ x.type = type)
    BY <1>3, Appended, Zenon
  <2>2. QED
    BY <1>3, <1>4, <2>1
<1>6. Batches' /\ Rows'
  BY <1>2 DEF Batches, Rows, RequestsStand
<1>7. ASSUME NEW w \in Users
      PROVE  /\ Unrepeated(ledger'[w])
             /\ \A type, b : Has(ledger'[w], type, b) <=> Has(ledger[w], type, b)
  BY <1>3, <1>5 DEF Paid
<1>8. \A w, b : Owned(w, b)' <=> Owned(w, b)
  BY <1>2 DEF Owned
<1>9. Paid'
  BY <1>2, <1>7, <1>8 DEF Paid
<1>10. QED
  BY <1>6, <1>9

LEMMA BatchBooked ==
  ASSUME Typed, Batches, Rows, Paid, RequestsStand, NEW s \in Settlers, LockBets(s)
  PROVE  Batches' /\ Rows' /\ Paid'
<1>1. /\ UNCHANGED <<bets, ledger>>
      /\ \A t \in Settlers : settling[t].batch \cap Unsettled = {}
  BY DEF LockBets, money
<1>2. /\ settling'[s].batch = Unsettled
      /\ \A t \in Settlers \ {s} : settling'[t] = settling[t]
  BY DEF LockBets, Typed, TypeOK, Settling
<1>3. \A t \in Settlers : settling[t].batch = {}
  BY <1>1 DEF Batches, Unsettled
<1>4. Batches'
  <2>1. \A t \in Settlers : settling'[t].batch = IF t = s THEN Unsettled ELSE {}
    BY <1>2, <1>3
  <2>2. Unsettled = {b \in Requests : bets'[b].status = "placed"}
    BY <1>1 DEF Unsettled
  <2>3. QED
    BY <2>1, <2>2 DEF Batches
<1>5. Rows'
  BY <1>1 DEF Rows, RequestsStand
<1>6. Paid'
  BY <1>1 DEF Paid, Owned, Has, Unrepeated
<1>7. QED
  BY <1>4, <1>5, <1>6

LEMMA SettlementBooked ==
  ASSUME Typed, Batches, Rows, Paid, RequestsStand, NEW s \in Settlers, CommitSettlement(s)
  PROVE  Batches' /\ Rows' /\ Paid'
<1> DEFINE B == settling[s].batch
<1>1. /\ settling' = [settling EXCEPT ![s] = NotSettling]
      /\ bets' = [b \in Requests |->
                    IF b \notin B THEN bets[b]
                    ELSE MarkBetSettled(b, IF b \in Winners(s, bets[b].user) THEN "won" ELSE "lost")]
  BY DEF CommitSettlement
<1>2. /\ settling'[s].batch = {}
      /\ \A t \in Settlers \ {s} : settling'[t] = settling[t]
  BY <1>1 DEF Typed, TypeOK, NotSettling
<1>3. \A b \in Requests \ B : bets'[b] = bets[b]
  BY <1>1
<1>4. \A b \in B : b \in Requests /\ bets[b].status = "placed" /\ bets[b].result = "pending"
  BY DEF Batches, Rows
<1>5. ASSUME NEW b \in B
      PROVE  /\ bets'[b].status = "settled" /\ bets'[b].user = bets[b].user
             /\ bets'[b].result = IF b \in Winners(s, bets[b].user) THEN "won" ELSE "lost"
  <2> DEFINE result == IF b \in Winners(s, bets[b].user) THEN "won" ELSE "lost"
  <2>1. result \in Verdict
    BY DEF Verdict
  <2>2. bets'[b] = MarkBetSettled(b, result) /\ b \in Requests
    BY <1>1, <1>4
  <2> HIDE DEF result
  <2>3. QED
    BY <2>1, <2>2, SettledTyped DEF result
<1>6. Batches'
  BY <1>2, <1>3 DEF Batches
<1>7. Rows'
  <2>1. \A b \in Requests : /\ bets'[b].status # "absent" => placing[b].stage = "done"
                            /\ bets'[b].status # "settled" => bets'[b].result = "pending"
    BY <1>3, <1>4, <1>5 DEF Rows
  <2>2. QED
    BY <2>1 DEF Rows, RequestsStand
<1>8. ASSUME NEW u \in Users
      PROVE  /\ Unrepeated(ledger'[u])
             /\ \A type, b : Has(ledger'[u], type, b) <=>
                               \/ Has(ledger[u], type, b)
                               \/ b \in Winners(s, u) /\ type = "settlement_credit"
  <2> DEFINE W == Winners(s, u)
             new == Credits(s, u)
  <2>1. /\ Null \notin W /\ CreditsOf(new, balance[u], W)
        /\ new \in Seq(Entry) /\ ledger[u] \in Seq(Entry) /\ balance[u] \in Nat
        /\ ledger'[u] = ledger[u] \o new
        /\ \A b \in W : ~Has(ledger[u], "settlement_credit", b)
    BY CommitAppends
  <2> HIDE DEF W, new
  <2>2. /\ Unrepeated(ledger[u]) /\ (\A b \in W : ~Has(ledger[u], "settlement_credit", b)) =>
             Unrepeated(ledger[u] \o new)
        /\ \A type, b : Has(ledger[u] \o new, type, b) <=>
                          Has(ledger[u], type, b) \/ (b \in W /\ type = "settlement_credit")
    BY <2>1, Concatenated
  <2>3. Unrepeated(ledger[u])
    BY DEF Paid
  <2>4. QED
    BY <2>1, <2>2, <2>3 DEF W
<1>9. ASSUME NEW u \in Users, NEW b \in Requests
      PROVE  /\ Owned(u, b)' <=> Owned(u, b)
             /\ Owned(u, b)' /\ bets'[b].result = "won" <=>
                  (Owned(u, b) /\ bets[b].result = "won") \/ b \in Winners(s, u)
  <2>1. b \in Winners(s, u) => b \in B /\ bets[b].user = u
    BY DEF Winners
  <2>2. CASE b \in B
    BY <1>4, <1>5, <2>1, <2>2 DEF Owned
  <2>3. CASE b \notin B
    BY <1>3, <2>1, <2>3 DEF Owned
  <2>4. QED
    BY <2>2, <2>3
<1>10. Paid'
  <2>1. ASSUME NEW u \in Users, NEW b \in Requests
        PROVE  /\ Has(ledger'[u], "bet_stake", b) <=> Owned(u, b)'
               /\ Has(ledger'[u], "settlement_credit", b) <=>
                    Owned(u, b)' /\ bets'[b].result = "won"
    <3>1. /\ Has(ledger'[u], "bet_stake", b) <=> Has(ledger[u], "bet_stake", b)
          /\ Has(ledger'[u], "settlement_credit", b) <=>
               Has(ledger[u], "settlement_credit", b) \/ b \in Winners(s, u)
      BY <1>8
    <3>2. QED
      BY <1>9, <3>1 DEF Paid
  <2>2. QED
    BY <1>8, <2>1 DEF Paid
<1>11. QED
  BY <1>6, <1>7, <1>10

LEMMA BooksNext == Books /\ [Next]_vars => Books'
<1> SUFFICES ASSUME Books, [Next]_vars
             PROVE  Books'
  OBVIOUS
<1>1. Typed /\ Typed' /\ RequestsStand /\ fallback' = fallback
  BY TypedNext, StepStands DEF Books, Stand
<1>2. SUFFICES ASSUME fallback
               PROVE  Batches' /\ Rows' /\ Paid'
  BY <1>1 DEF Books
<1>3. Batches /\ Rows /\ Paid
  BY <1>2 DEF Books
<1>4. CASE \/ Advance \/ EnsureRacePoolOpen \/ CreateRacePool \/ FreezeRacePool \/ FreezePool
           \/ \E h \in Selections : RegisterPoolSelection(h)
           \/ EndCall("open") \/ EndCall("freeze") \/ ReadLocalBets \/ Detect \/ UNCHANGED vars
  <2>1. UNCHANGED <<bets, ledger, settling>>
    BY <1>4 DEF Advance, EnsureRacePoolOpen, CreateRacePool, FreezeRacePool, FreezePool,
                RegisterPoolSelection, EndCall, ReadLocalBets, Detect, vars, money
  <2>2. QED
    BY <1>1, <1>3, <2>1, Undisturbed
<1>5. CASE \E u \in Users : AdjustWallet(u)
  BY <1>1, <1>3, <1>5, AdjustmentBooked
<1>6. ASSUME NEW p \in Requests,
             CheckRaceOpen(p) \/ PlaceBet(p) \/ RecordBet(p) \/ LockWallet(p) \/ Stop(p)
      PROVE  Batches' /\ Rows' /\ Paid'
  <2>1. ~PlaceBet(p) /\ ~RecordBet(p)
    BY <1>1, <1>2 DEF PlaceBet, RecordBet, Typed, Stages
  <2>2. UNCHANGED <<bets, ledger, settling>>
    BY <1>6, <2>1 DEF CheckRaceOpen, LockWallet, Stop, money
  <2>3. QED
    BY <1>1, <1>3, <2>2, Undisturbed
<1>7. ASSUME NEW p \in Requests, TakeStake(p)
      PROVE  Batches' /\ Rows' /\ Paid'
  BY <1>1, <1>2, <1>3, <1>7, StakeBooked
<1>8. ASSUME NEW s \in Settlers,
             \/ EnsureRaceCanSettle(s) \/ PoolReady(s) \/ SettleBet(s) \/ ApplyResults(s)
             \/ Abort(s) \/ \E u \in Users : CreditWallet(s, u)
      PROVE  Batches' /\ Rows' /\ Paid'
  <2>1. ~PoolReady(s) /\ ~SettleBet(s) /\ ~ApplyResults(s)
    BY <1>1, <1>2 DEF PoolReady, SettleBet, ApplyResults, Typed, Stages
  <2>2. UNCHANGED <<bets, ledger>>
    BY <1>8, <2>1 DEF EnsureRaceCanSettle, Abort, CreditWallet, money
  <2>3. \A t \in Settlers : settling'[t].batch \in {settling[t].batch, {}}
    <3>1. CASE EnsureRaceCanSettle(s)
      BY <1>1, <3>1 DEF EnsureRaceCanSettle, Typed, TypeOK, Settling
    <3>2. CASE Abort(s)
      BY <1>1, <3>2 DEF Abort, NotSettling, Typed, TypeOK
    <3>3. CASE \E u \in Users : CreditWallet(s, u)
      BY <3>3 DEF CreditWallet
    <3>4. QED
      BY <1>8, <2>1, <3>1, <3>2, <3>3
  <2>4. QED
    BY <1>1, <1>3, <2>2, <2>3, Undisturbed
<1>9. CASE \E s \in Settlers : LockBets(s)
  BY <1>1, <1>3, <1>9, BatchBooked
<1>10. CASE \E s \in Settlers : CommitSettlement(s)
  BY <1>1, <1>3, <1>10, SettlementBooked
<1>11. QED
  BY <1>4, <1>5, <1>6, <1>7, <1>8, <1>9, <1>10 DEF Next

\* An entry that is never repeated is there once or not at all.
LEMMA CountedOnce ==
  ASSUME NEW e \in Seq(Entry), Unrepeated(e), NEW b, b # Null, NEW type
  PROVE  Cardinality({n \in DOMAIN e : e[n].bet = b /\ e[n].type = type}) =
           IF Has(e, type, b) THEN 1 ELSE 0
<1> DEFINE P == {n \in DOMAIN e : e[n].bet = b /\ e[n].type = type}
<1>1. CASE Has(e, type, b)
  <2>1. PICK n \in DOMAIN e : e[n].bet = b /\ e[n].type = type
    BY <1>1 DEF Has
  <2>2. P = {n}
    BY <2>1 DEF Unrepeated
  <2>3. QED
    BY <1>1, <2>2, FS_Singleton
<1>2. CASE ~Has(e, type, b)
  <2>1. P = {}
    BY <1>2 DEF Has
  <2>2. QED
    BY <1>2, <2>1, FS_EmptySet
<1>3. QED
  BY <1>1, <1>2

LEMMA BooksPayOnce == Books => PaidOnce
<1> SUFFICES ASSUME Books, fallback
             PROVE  PaidOnce
  BY DEF PaidOnce
<1>1. Typed /\ Batches /\ Paid
  BY DEF Books
<1>2. ASSUME NEW b \in Requests, NEW u \in Users, NEW type
      PROVE  Cardinality({n \in DOMAIN ledger[u] : ledger[u][n].bet = b /\ ledger[u][n].type = type})
               = IF Has(ledger[u], type, b) THEN 1 ELSE 0
  <2>1. ledger[u] \in Seq(Entry) /\ Unrepeated(ledger[u]) /\ b # Null
    BY <1>1, WageringAssumption DEF Typed, Sequenced, Paid
  <2>2. QED
    BY <2>1, CountedOnce
<1>3. ASSUME NEW b \in Requests, NEW u \in Users
      PROVE  /\ Has(ledger[u], "bet_stake", b) <=> bets[b].status # "absent" /\ bets[b].user = u
             /\ Has(ledger[u], "settlement_credit", b) <=>
                  (bets[b].status # "absent" /\ bets[b].user = u) /\ bets[b].result = "won"
  BY <1>1 DEF Paid, Owned
<1>4. \A s \in Settlers : settling[s].batch \subseteq {b \in Requests : bets[b].status = "placed"}
  BY <1>1 DEF Batches
<1>5. QED
  BY <1>2, <1>3, <1>4 DEF PaidOnce, Entries

\* A bet of the fallback took one stake from its owner and, if it won, earned
\* them one credit; what a settlement is about to credit is unsettled still
\* (betService.ts:241-317, settlementService.ts:192-290).
THEOREM BetsPaidOnce == Spec => []PaidOnce
<1>1. QED
  BY BooksPayOnce, BooksInit, BooksNext, PTL DEF Spec

=============================================================================
