------------------------- MODULE WageringBookProofs -------------------------
(***************************************************************************)
(* Wagering implements BettingBook, for every number of requests, wallets, *)
(* selections, keys and settlers.                                          *)
(***************************************************************************)
EXTENDS WageringWalletProofs

-----------------------------------------------------------------------------
(* What the delegated mode adds to the invariants of bets and wallets      *)

\* Without the fallback no wallet is ever touched.
NoLocalMoney == ~fallback => \A u \in Users : ledger[u] = << >>

\* nines-financial has a result for every bet it has settled.
Ruled == \A k \in DOMAIN financial : financial[k].status = "settled" => financial[k].result # "pending"

BookInv == Books /\ Delegated /\ NoLocalMoney /\ Ruled

LEMMA BookInvInit == Init => BookInv
BY BooksInit, DelegatedInit DEF Init, BookInv, NoLocalMoney, Ruled

LEMMA NoLocalMoneyNext ==
  ASSUME Typed, NoLocalMoney, [Next]_vars, ~fallback
  PROVE  UNCHANGED ledger
<1>1. CASE UNCHANGED vars
  BY <1>1 DEF vars, money
<1>2. CASE \/ Advance \/ EnsureRacePoolOpen \/ CreateRacePool \/ FreezeRacePool \/ FreezePool
           \/ \E h \in Selections : RegisterPoolSelection(h)
           \/ EndCall("open") \/ EndCall("freeze") \/ ReadLocalBets \/ Detect
  BY <1>2 DEF Advance, EnsureRacePoolOpen, CreateRacePool, FreezeRacePool, FreezePool,
              RegisterPoolSelection, EndCall, ReadLocalBets, Detect, money
<1>3. ~\E u \in Users : AdjustWallet(u)
  BY DEF AdjustWallet
<1>4. ASSUME NEW p \in Requests,
             CheckRaceOpen(p) \/ PlaceBet(p) \/ RecordBet(p) \/ LockWallet(p) \/ TakeStake(p) \/ Stop(p)
      PROVE  UNCHANGED ledger
  <2>1. ~TakeStake(p)
    BY DEF TakeStake, Typed, Stages
  <2>2. QED
    BY <1>4, <2>1 DEF CheckRaceOpen, PlaceBet, RecordBet, LockWallet, Stop, money
<1>5. ASSUME NEW s \in Settlers,
             \/ EnsureRaceCanSettle(s) \/ PoolReady(s) \/ SettleBet(s) \/ ApplyResults(s)
             \/ LockBets(s) \/ CommitSettlement(s) \/ Abort(s)
             \/ \E u \in Users : CreditWallet(s, u)
      PROVE  UNCHANGED ledger
  <2>1. ~CommitSettlement(s)
    BY DEF CommitSettlement, Typed, Stages
  <2>2. QED
    BY <1>5, <2>1 DEF EnsureRaceCanSettle, PoolReady, SettleBet, ApplyResults, LockBets,
                      Abort, CreditWallet, money
<1>6. QED
  BY <1>1, <1>2, <1>3, <1>4, <1>5 DEF Next

LEMMA RuledResult ==
  ASSUME NEW x \in FinancialBet, NEW result
  PROVE  [x EXCEPT !.status = "settled", !.result = result].result = result
BY DEF FinancialBet

LEMMA RuledNext ==
  ASSUME Typed, Ruled, [Next]_vars
  PROVE  Ruled'
<1>1. CASE UNCHANGED financial
  BY <1>1 DEF Ruled
<1>2. ASSUME NEW p \in Requests, PlaceBet(p), ~UNCHANGED financial
      PROVE  Ruled'
  <2> DEFINE k == placing[p].key
  <2>1. PICK accepts \in BOOLEAN :
          financial' = [j \in DOMAIN financial \cup {k} |->
             IF j = k THEN [bet |-> p, selection |-> placing[p].selection, result |-> "pending",
                            status |-> IF accepts THEN "accepted" ELSE "rejected"]
             ELSE financial[j]]
    BY <1>2 DEF PlaceBet
  <2> HIDE DEF k
  <2>2. /\ DOMAIN financial' = DOMAIN financial \cup {k}
        /\ financial'[k].status # "settled"
        /\ \A j \in DOMAIN financial \ {k} : financial'[j] = financial[j]
    BY <2>1
  <2>3. QED
    BY <2>2 DEF Ruled
<1>3. ASSUME NEW s \in Settlers, SettleBet(s), ~UNCHANGED financial
      PROVE  Ruled'
  <2> DEFINE result(void, k) == IF void THEN "void"
                                ELSE IF financial[k].selection = settling[s].winner
                                     THEN "won" ELSE "lost"
  <2>1. PICK void \in BOOLEAN :
          financial' = [k \in DOMAIN financial |->
            IF financial[k].status # "accepted" THEN financial[k]
            ELSE [financial[k] EXCEPT !.status = "settled", !.result = result(void, k)]]
    BY <1>3 DEF SettleBet, remote
  <2>2. \A k \in DOMAIN financial : result(void, k) # "pending" /\ financial[k] \in FinancialBet
    BY DEF Typed, TypeOK
  <2> HIDE DEF result
  <2>3. ASSUME NEW k \in DOMAIN financial', financial'[k].status = "settled"
        PROVE  financial'[k].result # "pending"
    <3>1. k \in DOMAIN financial
      BY <2>1
    <3>2. CASE financial[k].status # "accepted"
      BY <2>1, <2>3, <3>1, <3>2 DEF Ruled
    <3>3. CASE financial[k].status = "accepted"
      <4>1. financial'[k] = [financial[k] EXCEPT !.status = "settled", !.result = result(void, k)]
        BY <2>1, <3>1, <3>3
      <4>2. financial'[k].result = result(void, k)
        BY <2>2, <3>1, <4>1, RuledResult
      <4>3. QED
        BY <2>2, <3>1, <4>2
    <3>4. QED
      BY <3>2, <3>3
  <2>4. QED
    BY <2>3 DEF Ruled
<1>4. CASE \/ Advance \/ EnsureRacePoolOpen \/ CreateRacePool \/ FreezeRacePool \/ FreezePool
           \/ \E h \in Selections : RegisterPoolSelection(h)
           \/ EndCall("open") \/ EndCall("freeze") \/ ReadLocalBets \/ Detect \/ UNCHANGED vars
           \/ \E u \in Users : AdjustWallet(u)
  BY <1>1, <1>4 DEF Advance, EnsureRacePoolOpen, CreateRacePool, FreezeRacePool, FreezePool,
                    RegisterPoolSelection, EndCall, ReadLocalBets, Detect, vars, AdjustWallet, remote
<1>5. CASE \E p \in Requests : CheckRaceOpen(p) \/ RecordBet(p) \/ LockWallet(p) \/ TakeStake(p) \/ Stop(p)
  BY <1>1, <1>5 DEF CheckRaceOpen, RecordBet, LockWallet, TakeStake, Stop, remote
<1>6. CASE \E s \in Settlers : \/ EnsureRaceCanSettle(s) \/ PoolReady(s) \/ ApplyResults(s)
                               \/ LockBets(s) \/ CommitSettlement(s) \/ Abort(s)
                               \/ \E u \in Users : CreditWallet(s, u)
  BY <1>1, <1>6 DEF EnsureRaceCanSettle, PoolReady, ApplyResults, LockBets, CommitSettlement,
                    Abort, CreditWallet, remote
<1>7. QED
  BY <1>1, <1>2, <1>3, <1>4, <1>5, <1>6 DEF Next

LEMMA BookInvNext == BookInv /\ [Next]_vars => BookInv'
<1> SUFFICES ASSUME BookInv, [Next]_vars
             PROVE  BookInv'
  OBVIOUS
<1>1. Books' /\ Delegated'
  BY BooksNext, DelegatedNext DEF BookInv
<1>2. Typed /\ fallback' = fallback
  BY StepStands DEF BookInv, Books, Stand
<1>3. NoLocalMoney'
  BY <1>2, NoLocalMoneyNext DEF BookInv, NoLocalMoney
<1>4. Ruled'
  BY <1>2, RuledNext DEF BookInv
<1>5. QED
  BY <1>1, <1>3, <1>4 DEF BookInv

-----------------------------------------------------------------------------
(* The book, read off the rows                                             *)

\* The entries of a bet follow from its row.
Counts ==
  \A u \in Users, b \in Requests :
    /\ Entries(u, b, "bet_stake") = IF fallback /\ Owned(u, b) THEN 1 ELSE 0
    /\ Entries(u, b, "settlement_credit") =
         IF fallback /\ Owned(u, b) /\ bets[b].result = "won" THEN 1 ELSE 0

LEMMA RowsCount == BookInv => Counts
<1> SUFFICES ASSUME BookInv, NEW u \in Users, NEW b \in Requests
             PROVE  /\ Entries(u, b, "bet_stake") = IF fallback /\ Owned(u, b) THEN 1 ELSE 0
                    /\ Entries(u, b, "settlement_credit") =
                         IF fallback /\ Owned(u, b) /\ bets[b].result = "won" THEN 1 ELSE 0
  BY DEF Counts
<1>1. CASE fallback
  <2>1. PaidOnce
    BY BooksPayOnce DEF BookInv
  <2>2. QED
    BY <1>1, <2>1 DEF PaidOnce, Owned
<1>2. CASE ~fallback
  <2>1. ledger[u] = << >> /\ DOMAIN << >> = {}
    BY <1>2 DEF BookInv, NoLocalMoney
  <2>2. ASSUME NEW type
        PROVE  Entries(u, b, type) = 0
    <3>1. {n \in DOMAIN ledger[u] : ledger[u][n].bet = b /\ ledger[u][n].type = type} = {}
      BY <2>1
    <3>2. QED
      BY <3>1, FS_EmptySet DEF Entries
  <2>3. QED
    BY <1>2, <2>2
<1>3. QED
  BY <1>1, <1>2

Held == UNION {settling[s].batch : s \in Settlers}

\* A step that changes no row at most takes or leaves bets.
LEMMA RowsKept ==
  ASSUME Counts, Counts', UNCHANGED <<fallback, bets>>
  PROVE  /\ UNCHANGED <<[b \in Requests |-> BookStatus(b)], [b \in Requests |-> bets[b].user],
                        [p \in Users \X Requests |-> Entries(p[1], p[2], "bet_stake")],
                        [p \in Users \X Requests |-> Entries(p[1], p[2], "settlement_credit")]>>
<1>1. \A b \in Requests : BookStatus(b)' = BookStatus(b) /\ \A u : Owned(u, b)' <=> Owned(u, b)
  BY DEF BookStatus, Owned
<1>2. ASSUME NEW p \in Users \X Requests
      PROVE  /\ Entries(p[1], p[2], "bet_stake")' = Entries(p[1], p[2], "bet_stake")
             /\ Entries(p[1], p[2], "settlement_credit")' = Entries(p[1], p[2], "settlement_credit")
  <2>1. p[1] \in Users /\ p[2] \in Requests
    OBVIOUS
  <2>2. QED
    BY <1>1, <2>1 DEF Counts
<1>3. QED
  BY <1>1, <1>2

\* A request's row appears: its owner is charged, unless nines-financial was.
LEMMA RowPlaced ==
  ASSUME Typed, Typed', Counts, Counts', UNCHANGED fallback, NEW p \in Requests, NEW u \in Users,
         bets[p].status = "absent", bets'[p].status = "placed",
         bets'[p].user = u, bets'[p].result = "pending",
         \A b \in Requests \ {p} : bets'[b] = bets[b],
         Held' = Held
  PROVE  Book!Place(u, p)
<1> DEFINE status == [b \in Requests |-> BookStatus(b)]
           owner == [b \in Requests |-> bets[b].user]
           charged == [q \in Users \X Requests |-> Entries(q[1], q[2], "bet_stake")]
           credited == [q \in Users \X Requests |-> Entries(q[1], q[2], "settlement_credit")]
<1>1. /\ BookStatus(p) = "absent" /\ BookStatus(p)' = "placed"
      /\ \A b \in Requests \ {p} : BookStatus(b)' = BookStatus(b)
  BY DEF BookStatus
<1>2. ASSUME NEW w \in Users, NEW b \in Requests
      PROVE  /\ Entries(w, b, "bet_stake")' =
                  IF fallback /\ b = p /\ w = u THEN Entries(w, b, "bet_stake") + 1
                  ELSE Entries(w, b, "bet_stake")
             /\ Entries(w, b, "settlement_credit")' = Entries(w, b, "settlement_credit")
  <2>1. /\ Entries(w, b, "bet_stake")' = IF fallback /\ Owned(w, b)' THEN 1 ELSE 0
        /\ Entries(w, b, "settlement_credit")' =
             IF fallback /\ Owned(w, b)' /\ bets'[b].result = "won" THEN 1 ELSE 0
        /\ Entries(w, b, "bet_stake") = IF fallback /\ Owned(w, b) THEN 1 ELSE 0
        /\ Entries(w, b, "settlement_credit") =
             IF fallback /\ Owned(w, b) /\ bets[b].result = "won" THEN 1 ELSE 0
    BY DEF Counts
  <2>2. CASE b = p
    <3>1. ~Owned(w, b) /\ (Owned(w, b)' <=> w = u) /\ bets'[b].result # "won"
      BY <2>2 DEF Owned
    <3>2. QED
      BY <2>1, <2>2, <3>1
  <2>3. CASE b # p
    <3>1. (Owned(w, b)' <=> Owned(w, b)) /\ bets'[b] = bets[b]
      BY <2>3 DEF Owned
    <3>2. QED
      BY <2>1, <2>3, <3>1
  <2>4. QED
    BY <2>2, <2>3
<1>3. /\ status[p] = "absent"
      /\ status' = [status EXCEPT ![p] = "placed"]
      /\ owner' = [owner EXCEPT ![p] = u]
  BY <1>1
<1>4. charged' = IF fallback THEN [charged EXCEPT ![<<u, p>>] = @ + 1] ELSE charged
  <2>1. CASE fallback
    <3>1. ASSUME NEW q \in Users \X Requests
          PROVE  Entries(q[1], q[2], "bet_stake")' =
                   IF q = <<u, p>> THEN charged[q] + 1 ELSE charged[q]
      <4>1. q[1] \in Users /\ q[2] \in Requests /\ (q = <<u, p>> <=> q[1] = u /\ q[2] = p)
        OBVIOUS
      <4>2. QED
        BY <1>2, <2>1, <4>1
    <3>2. QED
      BY <2>1, <3>1
  <2>2. CASE ~fallback
    <3>1. ASSUME NEW q \in Users \X Requests
          PROVE  Entries(q[1], q[2], "bet_stake")' = Entries(q[1], q[2], "bet_stake")
      BY <1>2, <2>2
    <3>2. QED
      BY <2>2, <3>1
  <2>3. QED
    BY <2>1, <2>2
<1>5. credited' = credited
  <2>1. ASSUME NEW q \in Users \X Requests
        PROVE  Entries(q[1], q[2], "settlement_credit")' = Entries(q[1], q[2], "settlement_credit")
    BY <1>2
  <2>2. QED
    BY <2>1
<1>6. QED
  BY <1>3, <1>4, <1>5 DEF Book!Place, Held

\* Bets that are settled together: their owners are credited for those that won.
LEMMA RowsSettled ==
  ASSUME Typed, Typed', Counts, Counts', UNCHANGED fallback,
         NEW S \in SUBSET Requests, NEW result \in [S -> {"won", "lost", "void"}],
         \A b \in S : /\ bets[b].status = "placed" /\ (fallback => bets[b].result = "pending" /\ b \in Held)
                      /\ bets'[b].status = "settled" /\ bets'[b].result = result[b]
                      /\ bets'[b].user = bets[b].user,
         \A b \in Requests \ S : bets'[b] = bets[b],
         Held' = Held \ S
  PROVE  Book!Settle(result)
<1> DEFINE status == [b \in Requests |-> BookStatus(b)]
           owner == [b \in Requests |-> bets[b].user]
           charged == [q \in Users \X Requests |-> Entries(q[1], q[2], "bet_stake")]
           credited == [q \in Users \X Requests |-> Entries(q[1], q[2], "settlement_credit")]
<1>1. /\ \A b \in S : BookStatus(b) = "placed" /\ BookStatus(b)' = result[b]
      /\ \A b \in Requests \ S : BookStatus(b)' = BookStatus(b)
  BY DEF BookStatus
<1>2. ASSUME NEW w \in Users, NEW b \in Requests
      PROVE  /\ Entries(w, b, "bet_stake")' = Entries(w, b, "bet_stake")
             /\ Entries(w, b, "settlement_credit")' =
                  IF fallback /\ b \in S /\ result[b] = "won" /\ bets[b].user = w
                  THEN Entries(w, b, "settlement_credit") + 1
                  ELSE Entries(w, b, "settlement_credit")
  <2>1. /\ Entries(w, b, "bet_stake")' = IF fallback /\ Owned(w, b)' THEN 1 ELSE 0
        /\ Entries(w, b, "settlement_credit")' =
             IF fallback /\ Owned(w, b)' /\ bets'[b].result = "won" THEN 1 ELSE 0
        /\ Entries(w, b, "bet_stake") = IF fallback /\ Owned(w, b) THEN 1 ELSE 0
        /\ Entries(w, b, "settlement_credit") =
             IF fallback /\ Owned(w, b) /\ bets[b].result = "won" THEN 1 ELSE 0
    BY DEF Counts
  <2>2. CASE b \in S
    <3>1. /\ Owned(w, b)' <=> Owned(w, b)
          /\ Owned(w, b) <=> bets[b].user = w
          /\ fallback => bets[b].result # "won"
          /\ bets'[b].result = result[b]
      BY <2>2 DEF Owned
    <3>2. QED
      BY <2>1, <2>2, <3>1
  <2>3. CASE b \notin S
    <3>1. (Owned(w, b)' <=> Owned(w, b)) /\ bets'[b] = bets[b]
      BY <2>3 DEF Owned
    <3>2. QED
      BY <2>1, <2>3, <3>1
  <2>4. QED
    BY <2>2, <2>3
<1>3. /\ DOMAIN result = S
      /\ \A b \in S : status[b] = "placed"
      /\ status' = [b \in Requests |-> IF b \in S THEN result[b] ELSE status[b]]
      /\ owner' = owner
  BY <1>1
<1>4. charged' = charged
  <2>1. ASSUME NEW q \in Users \X Requests
        PROVE  Entries(q[1], q[2], "bet_stake")' = Entries(q[1], q[2], "bet_stake")
    BY <1>2
  <2>2. QED
    BY <2>1
<1>5. credited' = [q \in Users \X Requests |->
         IF fallback /\ q[2] \in S /\ result[q[2]] = "won" /\ owner[q[2]] = q[1]
         THEN credited[q] + 1 ELSE credited[q]]
  <2>1. ASSUME NEW q \in Users \X Requests
        PROVE  Entries(q[1], q[2], "settlement_credit")' =
                 IF fallback /\ q[2] \in S /\ result[q[2]] = "won" /\ owner[q[2]] = q[1]
                 THEN credited[q] + 1 ELSE credited[q]
    <3>1. q[1] \in Users /\ q[2] \in Requests
      OBVIOUS
    <3>2. QED
      BY <1>2, <3>1
  <2>2. QED
    BY <2>1
<1>6. \A b \in DOMAIN result : status[b] = "placed" /\ (fallback => b \in Held)
  BY <1>3
<1> HIDE DEF status, owner, charged, credited
<1>7. /\ \A b \in DOMAIN result : status[b] = "placed" /\ (fallback => b \in Held)
      /\ status' = [b \in Requests |-> IF b \in DOMAIN result THEN result[b] ELSE status[b]]
      /\ Held' = Held \ DOMAIN result
      /\ credited' = [q \in Users \X Requests |->
           IF fallback /\ q[2] \in DOMAIN result /\ result[q[2]] = "won" /\ owner[q[2]] = q[1]
           THEN credited[q] + 1 ELSE credited[q]]
      /\ UNCHANGED <<fallback, owner, charged>>
  BY <1>3, <1>4, <1>5, <1>6
<1>8. QED
  BY <1>7, Zenon DEF Book!Settle, Held, status, owner, charged, credited

-----------------------------------------------------------------------------
(* The bets under settlement                                               *)

LEMMA HeldSame ==
  ASSUME \A s \in Settlers : settling'[s].batch = settling[s].batch
  PROVE  Held' = Held
BY DEF Held

\* A settlement that ends leaves what it held, and no more.
LEMMA HeldLess ==
  ASSUME BookInv, NEW s \in Settlers, settling' = [settling EXCEPT ![s] = NotSettling]
  PROVE  Held' = Held \ settling[s].batch
<1>1. \A t \in Settlers \ {s} : settling[s].batch \cap settling[t].batch = {}
  <2>1. CASE fallback
    BY <2>1 DEF BookInv, Books, Batches
  <2>2. CASE ~fallback
    BY <2>2 DEF BookInv, Books, Typed, Stages
  <2>3. QED
    BY <2>1, <2>2
<1>2. /\ settling'[s].batch = {}
      /\ \A t \in Settlers \ {s} : settling'[t].batch = settling[t].batch
  BY DEF BookInv, Books, Typed, TypeOK, NotSettling
<1>3. QED
  BY <1>1, <1>2 DEF Held

LEMMA HeldMore ==
  ASSUME BookInv, NEW s \in Settlers, LockBets(s)
  PROVE  Held' = Held \cup Unsettled
<1>1. settling[s].batch = {}
  BY DEF LockBets, BookInv, Books, Typed, Stages
<1>2. /\ settling'[s].batch = Unsettled
      /\ \A t \in Settlers \ {s} : settling'[t].batch = settling[t].batch
  BY DEF LockBets, BookInv, Books, Typed, TypeOK, Settling
<1>3. QED
  BY <1>1, <1>2 DEF Held

LEMMA HeldInOneBatch ==
  ASSUME NEW s \in Settlers
  PROVE  settling[s].batch \subseteq Held
BY DEF Held

-----------------------------------------------------------------------------
(* Each step is a step of the book, or none                                *)

Booking == BookInv /\ BookInv' /\ Counts /\ Counts' /\ UNCHANGED fallback

LEMMA BookQuiet ==
  ASSUME Booking, UNCHANGED bets, Held' = Held
  PROVE  UNCHANGED Book!vars
BY RowsKept DEF Booking, Book!vars, Held

LEMMA BookLetGo ==
  ASSUME Booking, NEW s \in Settlers, Abort(s)
  PROVE  Book!Next
<1>1. PICK S \in SUBSET Requests : S = settling[s].batch
  BY DEF Booking, BookInv, Books, Typed, TypeOK, Settling
<1>2. Held' = Held \ S
  BY <1>1, HeldLess DEF Booking, Abort
<1>3. UNCHANGED bets
  BY DEF Abort
<1>4. Book!LetGo(S)
  BY <1>2, <1>3, RowsKept DEF Booking, Book!LetGo, Held
<1>5. QED
  BY <1>4 DEF Book!Next

LEMMA BookHold ==
  ASSUME Booking, NEW s \in Settlers, LockBets(s)
  PROVE  Book!Next
<1>1. PICK S \in SUBSET Requests : S = Unsettled
  BY DEF Unsettled
<1>2. Held' = Held \cup S
  BY <1>1, HeldMore DEF Booking
<1>3. UNCHANGED bets /\ fallback /\ \A t \in Settlers : settling[t].batch \cap S = {}
  BY <1>1 DEF LockBets
<1>4. \A b \in S : b \notin Held
  BY <1>3 DEF Held
<1>5. \A b \in S : BookStatus(b) = "placed"
  BY <1>1 DEF Unsettled, BookStatus
<1>6. Book!Hold(S)
  BY <1>2, <1>3, <1>4, <1>5, RowsKept DEF Booking, Book!Hold, Held
<1>7. QED
  BY <1>6 DEF Book!Next

LEMMA BookPlace ==
  ASSUME Booking, NEW p \in Requests, RecordBet(p) \/ TakeStake(p)
  PROVE  Book!Next
<1>1. /\ Typed /\ Typed' /\ Counts /\ Counts' /\ UNCHANGED fallback
      /\ placing[p].stage \in {"accepted", "locked"} /\ CreateBet(p) /\ UNCHANGED settling
  BY DEF Booking, BookInv, Books, RecordBet, TakeStake
<1>2. placing[p].user \in Users
  BY <1>1 DEF Typed, Stages
<1>3. /\ bets'[p].status = "placed" /\ bets'[p].user = placing[p].user
      /\ bets'[p].result = "pending"
      /\ \A b \in Requests \ {p} : bets'[b] = bets[b]
  BY <1>1 DEF CreateBet, Typed, TypeOK
<1>4. bets[p].status = "absent"
  <2>1. CASE fallback
    BY <1>1, <2>1 DEF Booking, BookInv, Books, Rows
  <2>2. CASE ~fallback
    BY <1>1, <2>2 DEF Booking, BookInv, Delegated, RowsHaveRequests
  <2>3. QED
    BY <2>1, <2>2
<1>5. Held' = Held
  BY <1>1, HeldSame
<1>6. Book!Place(placing[p].user, p)
  BY <1>1, <1>2, <1>3, <1>4, <1>5, RowPlaced, Zenon
<1>7. QED
  BY <1>2, <1>6 DEF Book!Next

LEMMA BookSettleLocally ==
  ASSUME Booking, NEW s \in Settlers, CommitSettlement(s)
  PROVE  Book!Next
<1>0. PICK S, result :
        /\ S = settling[s].batch
        /\ result = [b \in S |-> IF b \in Winners(s, bets[b].user) THEN "won" ELSE "lost"]
  OBVIOUS
<1>1. /\ Typed /\ Typed' /\ Counts /\ Counts' /\ UNCHANGED fallback /\ fallback
      /\ Batches /\ Rows
  BY DEF Booking, BookInv, Books, CommitSettlement, Typed, Stages
<1>2. \A b \in S : b \in Requests /\ bets[b].status = "placed" /\ bets[b].result = "pending"
  BY <1>0, <1>1 DEF Batches, Rows
<1>3. S \in SUBSET Requests /\ result \in [S -> {"won", "lost", "void"}]
  BY <1>0, <1>2
<1>4. bets' = [b \in Requests |-> IF b \notin S THEN bets[b] ELSE MarkBetSettled(b, result[b])]
  BY <1>0 DEF CommitSettlement
<1>5. Held' = Held \ S
  BY <1>0, HeldLess DEF Booking, CommitSettlement
<1>6. S \subseteq Held
  BY <1>0, HeldInOneBatch
<1>7. ASSUME NEW b \in S
      PROVE  /\ bets'[b].status = "settled" /\ bets'[b].result = result[b]
             /\ bets'[b].user = bets[b].user
  <2>1. result[b] \in Verdict
    BY <1>3 DEF Verdict
  <2>2. b \in Requests /\ bets'[b] = MarkBetSettled(b, result[b])
    BY <1>2, <1>4
  <2>3. QED
    BY <1>1, <2>1, <2>2, SettledTyped
<1>8. \A b \in Requests \ S : bets'[b] = bets[b]
  BY <1>4
<1>9. \A b \in S : /\ bets[b].status = "placed" /\ (fallback => bets[b].result = "pending" /\ b \in Held)
                   /\ bets'[b].status = "settled" /\ bets'[b].result = result[b]
                   /\ bets'[b].user = bets[b].user
  BY <1>2, <1>6, <1>7
<1>10. Book!Settle(result)
  BY <1>1, <1>3, <1>5, <1>8, <1>9, RowsSettled, Zenon
<1>11. QED
  BY <1>3, <1>10 DEF Book!Next

LEMMA BookSettleByAnswer ==
  ASSUME Booking, NEW s \in Settlers, ApplyResults(s)
  PROVE  Book!Next
<1>0. PICK S : S = {b \in Unsettled : \E k \in Settled : financial[k].bet = b}
  OBVIOUS
<1> DEFINE answer(b) == CHOOSE k \in Settled : financial[k].bet = b
<1>1. /\ Typed /\ Typed' /\ Counts /\ Counts' /\ UNCHANGED fallback /\ ~fallback /\ Ruled
  BY DEF Booking, BookInv, Books, ApplyResults, Typed, Stages
<1>2. S \in SUBSET Requests /\ \A b \in S : bets[b].status = "placed"
  BY <1>0 DEF Unsettled
<1>3. ASSUME NEW b \in S
      PROVE  financial[answer(b)].result \in {"won", "lost", "void"}
  <2>1. answer(b) \in Settled
    BY <1>0
  <2> HIDE DEF answer
  <2>2. /\ answer(b) \in DOMAIN financial /\ financial[answer(b)] \in FinancialBet
        /\ financial[answer(b)].result # "pending"
    BY <1>1, <2>1 DEF Settled, Ruled, Typed, TypeOK
  <2>3. QED
    BY <2>2 DEF FinancialBet, Verdict
<1>4. PICK result \in [S -> {"won", "lost", "void"}] :
        \A b \in S : result[b] = financial[answer(b)].result
  <2> DEFINE answers == [b \in S |-> financial[answer(b)].result]
  <2>1. answers \in [S -> {"won", "lost", "void"}] /\ \A b \in S : answers[b] = financial[answer(b)].result
    BY <1>3
  <2> HIDE DEF answers
  <2>2. QED
    BY <2>1
<1>5. bets' = [b \in Requests |-> IF b \in S THEN MarkBetSettled(b, result[b]) ELSE bets[b]]
  BY <1>0, <1>4 DEF ApplyResults, FinancialResult
<1>6. Held' = Held \ S
  <2>1. Held' = Held \ settling[s].batch
    BY HeldLess DEF Booking, ApplyResults
  <2>2. Held = {}
    BY <1>1 DEF Held, Typed, Stages
  <2>3. QED
    BY <2>1, <2>2
<1> HIDE DEF answer
<1>7. ASSUME NEW b \in S
      PROVE  /\ bets'[b].status = "settled" /\ bets'[b].result = result[b]
             /\ bets'[b].user = bets[b].user
  <2>1. result[b] \in Verdict
    BY <1>4 DEF Verdict
  <2>2. b \in Requests /\ bets'[b] = MarkBetSettled(b, result[b])
    BY <1>2, <1>5
  <2>3. QED
    BY <1>1, <2>1, <2>2, SettledTyped
<1>8. \A b \in Requests \ S : bets'[b] = bets[b]
  BY <1>5
<1>9. \A b \in S : /\ bets[b].status = "placed" /\ (fallback => bets[b].result = "pending" /\ b \in Held)
                   /\ bets'[b].status = "settled" /\ bets'[b].result = result[b]
                   /\ bets'[b].user = bets[b].user
  BY <1>1, <1>2, <1>7
<1>10. Book!Settle(result)
  BY <1>1, <1>2, <1>4, <1>6, <1>8, <1>9, RowsSettled, Zenon
<1>11. QED
  BY <1>2, <1>4, <1>10 DEF Book!Next

LEMMA BookStep ==
  ASSUME BookInv, BookInv', Counts, Counts', [Next]_vars
  PROVE  [Book!Next]_(Book!vars)
<1>1. Booking /\ Typed
  BY StepStands DEF Booking, BookInv, Books, Stand
<1>2. CASE \/ Advance \/ EnsureRacePoolOpen \/ CreateRacePool \/ FreezeRacePool \/ FreezePool
           \/ \E h \in Selections : RegisterPoolSelection(h)
           \/ EndCall("open") \/ EndCall("freeze") \/ ReadLocalBets \/ Detect \/ UNCHANGED vars
           \/ \E u \in Users : AdjustWallet(u)
           \/ \E p \in Requests : CheckRaceOpen(p) \/ PlaceBet(p) \/ LockWallet(p) \/ Stop(p)
           \/ \E s \in Settlers, u \in Users : CreditWallet(s, u)
  <2>1. UNCHANGED <<bets, settling>>
    BY <1>2 DEF Advance, EnsureRacePoolOpen, CreateRacePool, FreezeRacePool, FreezePool,
                RegisterPoolSelection, EndCall, ReadLocalBets, Detect, vars, AdjustWallet,
                CheckRaceOpen, PlaceBet, LockWallet, Stop, CreditWallet
  <2>2. QED
    BY <1>1, <2>1, HeldSame, BookQuiet
<1>3. ASSUME NEW s \in Settlers, EnsureRaceCanSettle(s) \/ PoolReady(s) \/ SettleBet(s)
      PROVE  UNCHANGED Book!vars
  <2>1. UNCHANGED bets /\ settling[s].stage # "crediting"
    BY <1>3 DEF EnsureRaceCanSettle, PoolReady, SettleBet
  <2>2. \A t \in Settlers : settling'[t].batch \in {{}, settling[t].batch}
    <3>1. CASE EnsureRaceCanSettle(s)
      BY <1>1, <3>1 DEF EnsureRaceCanSettle, Typed, TypeOK, Settling
    <3>2. CASE PoolReady(s)
      BY <1>1, <3>2 DEF PoolReady, NotSettling, Typed, TypeOK, Settling
    <3>3. CASE SettleBet(s)
      <4>1. \/ settling' = [settling EXCEPT ![s].stage = "answered"]
            \/ settling' = [settling EXCEPT ![s] = NotSettling]
        BY <3>3 DEF SettleBet
      <4>2. QED
        BY <1>1, <4>1 DEF NotSettling, Typed, TypeOK, Settling
    <3>4. QED
      BY <1>3, <3>1, <3>2, <3>3
  <2>3. /\ settling[s].batch = {}
        /\ \A t \in Settlers \ {s} : settling'[t] = settling[t]
    BY <1>1, <1>3, <2>1 DEF Typed, TypeOK, Stages, EnsureRaceCanSettle, PoolReady, SettleBet
  <2>4. \A t \in Settlers : settling'[t].batch = settling[t].batch
    BY <2>2, <2>3
  <2>5. QED
    BY <1>1, <2>1, <2>4, HeldSame, BookQuiet
<1>4. ASSUME NEW s \in Settlers, Abort(s)
      PROVE  Book!Next
  BY <1>1, <1>4, BookLetGo
<1>5. ASSUME NEW s \in Settlers, LockBets(s)
      PROVE  Book!Next
  BY <1>1, <1>5, BookHold
<1>6. ASSUME NEW s \in Settlers, CommitSettlement(s) \/ ApplyResults(s)
      PROVE  Book!Next
  BY <1>1, <1>6, BookSettleLocally, BookSettleByAnswer
<1>7. ASSUME NEW p \in Requests, RecordBet(p) \/ TakeStake(p)
      PROVE  Book!Next
  BY <1>1, <1>7, BookPlace
<1>8. QED
  BY <1>2, <1>3, <1>4, <1>5, <1>6, <1>7 DEF Next

LEMMA BookInit == Init => Book!Init
<1> SUFFICES ASSUME Init
             PROVE  Book!Init
  OBVIOUS
<1>1. BookInv /\ Counts
  BY BookInvInit, RowsCount
<1>2. \A b \in Requests : BookStatus(b) = "absent" /\ bets[b].user = Null /\ \A u : ~Owned(u, b)
  BY DEF Init, BookStatus, Owned
<1>3. ASSUME NEW q \in Users \X Requests
      PROVE  Entries(q[1], q[2], "bet_stake") = 0 /\ Entries(q[1], q[2], "settlement_credit") = 0
  <2>1. q[1] \in Users /\ q[2] \in Requests
    OBVIOUS
  <2>2. QED
    BY <1>1, <1>2, <2>1 DEF Counts
<1>4. UNION {settling[s].batch : s \in Settlers} = {} /\ fallback \in BOOLEAN
  BY DEF Init, NotSettling
<1>5. QED
  BY <1>2, <1>3, <1>4 DEF Book!Init

\* Whatever requests, settlements and administrators do at once, a bet is
\* placed once and settled once; with the fallback the step that places it
\* charges its owner, the step that settles it is of the one settlement that
\* holds it and credits a winner, and no ledger moves for a bet otherwise
\* (betService.ts:134-317, settlementService.ts:92-290).
THEOREM WageringImplements == Spec => ImplementsBettingBook
<1>1. BookInv /\ BookInv' /\ Counts /\ Counts' /\ [Next]_vars => [Book!Next]_(Book!vars)
  BY BookStep
<1>2. QED
  BY <1>1, BookInit, BookInvInit, BookInvNext, RowsCount, PTL
     DEF Spec, ImplementsBettingBook, Book!Spec

\* A bet is placed once and by one user, and a settled one keeps its result:
\* no retry, later settlement, repeated answer or rollback moves it (markBetSettled,
\* settlementService.ts).  That is so in both modes.
THEOREM ResultsStand ==
  Spec => [][\A b \in Requests :
               /\ BookStatus(b) # "absent" => BookStatus(b)' # "absent" /\ bets'[b].user = bets[b].user
               /\ BookStatus(b) \notin {"absent", "placed"} => BookStatus(b)' = BookStatus(b)]_vars
<1> DEFINE Stays ==
      \A b \in Requests :
        /\ BookStatus(b) # "absent" => BookStatus(b)' # "absent" /\ bets'[b].user = bets[b].user
        /\ BookStatus(b) \notin {"absent", "placed"} => BookStatus(b)' = BookStatus(b)
<1>1. ASSUME BookInv, BookInv', Counts, Counts', [Next]_vars PROVE Stays
  <2> DEFINE status == [b \in Requests |-> BookStatus(b)]
             owner == [b \in Requests |-> bets[b].user]
  <2>1. [Book!Next]_(Book!vars)
    BY <1>1, BookStep
  <2>2. SUFFICES \A b \in Requests :
                   /\ status[b] # "absent" => status'[b] # "absent" /\ owner'[b] = owner[b]
                   /\ status[b] \notin {"absent", "placed"} => status'[b] = status[b]
    OBVIOUS
  <2>3. CASE UNCHANGED Book!vars
    BY <2>3 DEF Book!vars
  <2>4. ASSUME NEW u \in Users, NEW b \in Requests, Book!Place(u, b)
        PROVE  /\ status[b] = "absent"
               /\ status' = [status EXCEPT ![b] = "placed"] /\ owner' = [owner EXCEPT ![b] = u]
    BY <2>4 DEF Book!Place
  <2>5. ASSUME NEW S \in SUBSET Requests, Book!Hold(S) \/ Book!LetGo(S)
        PROVE  status' = status /\ owner' = owner
    BY <2>5 DEF Book!Hold, Book!LetGo
  <2>6. ASSUME NEW S \in SUBSET Requests, NEW result \in [S -> {"won", "lost", "void"}],
               Book!Settle(result)
        PROVE  /\ \A b \in S : status[b] = "placed" /\ result[b] # "absent"
               /\ status' = [b \in Requests |-> IF b \in S THEN result[b] ELSE status[b]]
               /\ owner' = owner
    BY <2>6 DEF Book!Settle
  <2>7. DOMAIN status = Requests /\ DOMAIN owner = Requests
    OBVIOUS
  <2> HIDE DEF status, owner
  <2> DEFINE Kept == \A b \in Requests :
                         /\ status[b] # "absent" => status'[b] # "absent" /\ owner'[b] = owner[b]
                         /\ status[b] \notin {"absent", "placed"} => status'[b] = status[b]
  <2>8. ASSUME NEW u \in Users, NEW b \in Requests, Book!Place(u, b) PROVE Kept
    BY <2>4, <2>7, <2>8
  <2>9. ASSUME NEW S \in SUBSET Requests, Book!Hold(S) \/ Book!LetGo(S) PROVE Kept
    BY <2>5, <2>9
  <2>10. ASSUME NEW S \in SUBSET Requests, NEW result \in [S -> {"won", "lost", "void"}],
                Book!Settle(result)
         PROVE  Kept
    BY <2>6, <2>10
  <2> HIDE DEF Kept
  <2>11. ASSUME Book!Next PROVE Kept
    BY <2>8, <2>9, <2>10, <2>11 DEF Book!Next
  <2> QED
    <3>1. CASE Book!Next
      BY <2>11, <3>1 DEF Kept
    <3> QED
      BY <2>1, <2>3, <3>1
<1>2. QED
  BY <1>1, BookInvInit, BookInvNext, RowsCount, PTL DEF Spec
=============================================================================
