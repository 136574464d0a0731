------------------------ MODULE EscrowBillingProofs ------------------------
(***************************************************************************)
(* Proofs about EscrowBilling, for any number of requests, any COIN, any   *)
(* costs and any number of crashes.                                        *)
(***************************************************************************)
EXTENDS EscrowBilling, SumTheorems

(* Whole coins contained in an amount.                                       *)
LEMMA WholeCoins ==
    ASSUME NEW c \in Nat, NEW k \in Nat \ {0}
    PROVE  c \div k \in Nat /\ c \div k <= c /\ k * (c \div k) <= c
OBVIOUS

(* The whole coins of an amount do not shrink when the amount grows.        *)
LEMMA WholeCoinsGrow ==
    ASSUME NEW c \in Nat, NEW d \in Nat, c <= d, NEW k \in Nat \ {0}
    PROVE  c \div k <= d \div k
OBVIOUS

(* A product of naturals grows with its second factor.                      *)
LEMMA ProductGrows ==
    ASSUME NEW a \in Nat, NEW b \in Nat, NEW c \in Nat, a <= b
    PROVE  c * a <= c * b
OBVIOUS

(* The price of a token lies between one satoshi and one TKNC.               *)
LEMMA RateBounds ==
    ASSUME NEW e, e.rate \in Nat, e.rate <= Coin,
           NEW a \in TokensPerTknc \cup {0}
    PROVE  RatePerToken(e, a) \in 1..Coin
<1>1. a \in Nat BY AmountAssumption
<1>2. a > 0 => Coin \div a \in Nat /\ Coin \div a <= Coin
  BY <1>1, CoinAssumption, WholeCoins
<1>3. QED BY <1>1, <1>2, CoinAssumption DEF RatePerToken

(* An inference of a billable record costs something, at most MaxCost, and   *)
(* never more than what is left of a prepaid limit.                          *)
LEMMA ChargeBounds ==
    ASSUME NEW e, e.total \in Nat, e.consumed \in Nat, ~IsExhausted(e),
           NEW t \in Tokens, NEW rate \in 1..Coin
    PROVE  /\ Charge(e, t, rate).cost \in Nat
           /\ Charge(e, t, rate).cost <= MaxCost
           /\ Charge(e, t, rate).tokens \in Nat
           /\ e.total > 0 => e.consumed + Charge(e, t, rate).cost <= e.total
<1>1. t \in Nat /\ rate \in Nat \ {0} /\ Coin \in Nat /\ MaxCost \in Nat
  BY AmountAssumption, CoinAssumption
<1>2. t * rate \in Nat /\ t * rate <= t * Coin
  BY <1>1, ProductGrows
<1>3. t * rate <= MaxCost
  BY <1>1, <1>2, CostAssumption
<1> DEFINE full == IF t * rate <= 0 THEN 1 ELSE t * rate
<1>4. full \in Nat /\ full <= MaxCost
  BY <1>1, <1>2, <1>3, CostAssumption
<1>5. GetRemainingLimit(e) \in Nat
  BY AmountAssumption DEF GetRemainingLimit, IsExhausted
<1>6. GetRemainingLimit(e) \div rate \in Nat
  BY <1>1, <1>5, WholeCoins
<1>7. Charge(e, t, rate) =
          IF full > GetRemainingLimit(e)
          THEN [cost |-> GetRemainingLimit(e),
                tokens |-> GetRemainingLimit(e) \div rate]
          ELSE [cost |-> full, tokens |-> t]
  BY DEF Charge
<1> HIDE DEF full
<1>8. e.total > 0 => GetRemainingLimit(e) = e.total - e.consumed
  BY DEF GetRemainingLimit
<1>9. CASE full > GetRemainingLimit(e)
  BY <1>1, <1>4, <1>5, <1>6, <1>7, <1>8, <1>9
<1>10. CASE ~(full > GetRemainingLimit(e))
  BY <1>1, <1>4, <1>5, <1>7, <1>8, <1>10
<1>11. QED BY <1>9, <1>10

(* The amount of any set of broadcast transfers is a natural.                *)
LEMMA TotalType ==
    ASSUME txs \in Seq(Nat), NEW ids \in SUBSET (1..Len(txs))
    PROVE  IsFiniteSet(ids) /\ TotalAmount(ids) \in Nat
<1>1. Len(txs) \in Nat /\ \A i \in ids : txs[i] \in Nat
  OBVIOUS
<1>2. IsFiniteSet(1..Len(txs))
  BY <1>1, FS_Interval
<1>3. IsFiniteSet(ids)
  BY <1>2, FS_Subset, Zenon
<1>4. SumFunctionOnSet(txs, ids) \in Nat
  BY <1>1, <1>3, SumNat, Zenon
<1>5. QED BY <1>3, <1>4 DEF TotalAmount

(* Moving confirmed transfers touches confirmed_tknc and pending_txids only. *)
LEMMA UpdateKeeps ==
    ASSUME TypeOK, NEW e, e \in SpendingLimit
    PROVE  LET u == UpdateConfirmedTransfers(e)
           IN  /\ u \in SpendingLimit
               /\ u.total = e.total /\ u.consumed = e.consumed
               /\ u.transferred = e.transferred /\ u.rate = e.rate
               /\ u.state = e.state /\ u.used = e.used /\ u.quota = e.quota
               /\ u.miner = e.miner
<1> DEFINE done == IF wallet.loaded THEN e.pending \cap onchain ELSE {}
           moved == e.confirmed + TotalAmount(done)
<1>1. done \in SUBSET (1..Len(txs)) /\ txs \in Seq(Nat)
  BY Zenon DEF TypeOK
<1> HIDE DEF done
<1>2. moved \in Nat
  BY <1>1, TotalType DEF SpendingLimit
<1>3. UpdateConfirmedTransfers(e) =
          [e EXCEPT !.confirmed = moved, !.pending = @ \ done]
  BY DEF UpdateConfirmedTransfers, done, SpendingLimit
<1> HIDE DEF moved
<1>4. QED BY <1>2, <1>3, Zenon DEF SpendingLimit

(* The first write of a billing adds the charge and sets the state.          *)
LEMMA BilledRecord ==
    ASSUME NEW e, e \in SpendingLimit,
           NEW c, c.cost \in Nat, c.tokens \in Nat
    PROVE  LET b == Billed(e, c)
           IN  /\ b \in SpendingLimit
               /\ b.consumed = e.consumed + c.cost
               /\ b.total = e.total /\ b.transferred = e.transferred
               /\ b.rate = e.rate /\ b.miner = e.miner
<1> DEFINE consumed == e.consumed + c.cost
           used == e.used + c.tokens
           spent == [e EXCEPT !.consumed = consumed, !.used = used]
<1>0. consumed \in Nat /\ used \in Nat
  BY DEF SpendingLimit
<1> HIDE DEF consumed, used
<1>1. /\ spent \in SpendingLimit
      /\ spent.consumed = consumed
      /\ spent.total = e.total /\ spent.transferred = e.transferred
      /\ spent.rate = e.rate /\ spent.miner = e.miner
  BY <1>0, Zenon DEF SpendingLimit
<1>2. Billed(e, c) = [spent EXCEPT !.state = IF IsExhausted(spent)
                                            THEN "EXHAUSTED" ELSE "ACTIVE"]
  BY DEF Billed, consumed, used
<1> HIDE DEF spent
<1>3. QED BY <1>1, <1>2 DEF SpendingLimit, States, consumed

(* What a billing that goes through does to the record.                      *)
LEMMA DeductRecord ==
    ASSUME TypeOK, NEW t \in Tokens, NEW a \in TokensPerTknc \cup {0},
           ~IsExhausted(db)
    PROVE  LET c == Charge(db, t, RatePerToken(db, a))
               b == Billed(UpdateConfirmedTransfers(db), c)
           IN  /\ b \in SpendingLimit
               /\ c.cost \in Nat /\ c.cost <= MaxCost
               /\ b.consumed = db.consumed + c.cost
               /\ b.total = db.total /\ b.transferred = db.transferred
               /\ b.rate = db.rate /\ b.miner = db.miner
               /\ db.total > 0 => b.consumed <= db.total
<1> DEFINE rate == RatePerToken(db, a)
           c == Charge(db, t, rate)
           u == UpdateConfirmedTransfers(db)
<1>1. /\ db \in SpendingLimit
      /\ db.total \in Nat /\ db.consumed \in Nat
      /\ db.rate \in Nat /\ db.rate <= Coin
  BY CoinAssumption DEF TypeOK, SpendingLimit
<1>2. rate \in 1..Coin
  BY <1>1, RateBounds
<1> HIDE DEF rate
<1>3. /\ c.cost \in Nat /\ c.cost <= MaxCost /\ c.tokens \in Nat
      /\ db.total > 0 => db.consumed + c.cost <= db.total
  BY <1>1, <1>2, ChargeBounds
<1>4. /\ u \in SpendingLimit /\ u.consumed = db.consumed
      /\ u.total = db.total /\ u.transferred = db.transferred
      /\ u.rate = db.rate /\ u.miner = db.miner
  BY <1>1, UpdateKeeps
<1> HIDE DEF c, u
<1>5. /\ Billed(u, c) \in SpendingLimit
      /\ Billed(u, c).consumed = u.consumed + c.cost
      /\ Billed(u, c).total = u.total
      /\ Billed(u, c).transferred = u.transferred
      /\ Billed(u, c).rate = u.rate /\ Billed(u, c).miner = u.miner
  BY <1>3, <1>4, BilledRecord
<1>6. QED BY <1>1, <1>3, <1>4, <1>5 DEF rate, c, u

------------------------------------------------------------------------------
(* The record of createescrow and the empty tables are well typed.          *)
LEMMA InitType == Init => TypeOK
<1> SUFFICES ASSUME Init PROVE TypeOK OBVIOUS
<1>1. PICK total \in Totals, rate \in TokensPerTknc, miner \in BOOLEAN :
          db = [state |-> "CREATED", total |-> total, consumed |-> 0,
                transferred |-> 0, confirmed |-> 0, pending |-> {},
                quota |-> IF total = 0 THEN Int64Max
                                       ELSE (total * rate) \div Coin,
                used |-> 0,
                rate |-> IF rate >= Coin THEN 1 ELSE Coin \div rate,
                miner |-> miner]
  BY Zenon DEF Init
<1>2. /\ Int64Max \in Nat /\ total \in Nat /\ rate \in Nat \ {0}
      /\ Coin \in Nat \ {0}
  BY AmountAssumption, CoinAssumption
<1>3. (total * rate) \div Coin \in Nat
  BY <1>2, WholeCoins
<1>4. Coin \div rate \in 0..Coin
  BY <1>2, WholeCoins
<1>5. db \in SpendingLimit
  BY <1>1, <1>2, <1>3, <1>4 DEF SpendingLimit, States
<1>6. DefaultLimit \in SpendingLimit
  BY <1>2 DEF DefaultLimit, SpendingLimit, States
<1>7. /\ wallet \in [loaded : BOOLEAN, locked : BOOLEAN, balance : Nat]
      /\ txs \in Seq(Nat) /\ onchain \subseteq 1..Len(txs)
  BY DEF Init
<1>8. QED BY <1>5, <1>6, <1>7, Zenon DEF Init, TypeOK, PCs

(* The record of the default constructor is well typed.                     *)
LEMMA DefaultType == DefaultLimit \in SpendingLimit
BY CoinAssumption DEF DefaultLimit, SpendingLimit, States

(* The amounts a transfer can move leave a natural balance.                  *)
LEMMA TransferBounds ==
    ASSUME wallet.balance \in Nat, NEW a \in Nat, NEW sent \in Transfers(a)
    PROVE  /\ sent \in Nat /\ sent <= a
           /\ sent # 0 =>
                 (IF sent = wallet.balance THEN 0 ELSE wallet.balance - sent - Fee)
                     \in Nat
BY AmountAssumption DEF Transfers

(* Broadcasting one more transfer keeps the list of transfers typed.        *)
LEMMA AppendType ==
    ASSUME NEW s \in Seq(Nat), NEW n \in Nat
    PROVE  Append(s, n) \in Seq(Nat) /\ Len(Append(s, n)) = Len(s) + 1
OBVIOUS

(* The first write of CheckAndDeductEscrow stores a well-typed record.      *)
LEMMA DeductType ==
    ASSUME TypeOK, NEW r \in Requests, CheckAndDeductEscrow(r)
    PROVE  TypeOK'
<1>1. PICK t \in Tokens, a \in TokensPerTknc \cup {0} : Deduct(r, t, a)
  BY DEF CheckAndDeductEscrow
<1> DEFINE rate == RatePerToken(db, a)
           ok == /\ Billable(db) /\ ~IsExhausted(db) /\ ~expired
                 /\ t <= Int64Max \div rate
           c == Charge(db, t, rate)
           e == Billed(UpdateConfirmedTransfers(db), c)
           coins == CoinsCrossed(db.consumed, e.consumed)
           pays == ok /\ coins > 0 /\ db.miner
<1>2. /\ db' = IF ok THEN e ELSE db
      /\ served' = IF ok THEN served + c.cost ELSE served
      /\ due' = [due EXCEPT ![r] = IF pays THEN coins * Coin ELSE 0]
      /\ mutex' = IF pays THEN r ELSE NoOne
      /\ pc' = [pc EXCEPT ![r] = IF pays THEN "paying" ELSE "release"]
      /\ UNCHANGED <<wallet, txs, onchain, expired, reserved, snap, funds, hold,
                     paid, deposited, crashes>>
  BY <1>1 DEF Deduct, Goto, chainVars
<1>3. ok => /\ e \in SpendingLimit /\ c.cost \in Nat
            /\ e.consumed \in Nat
  BY DeductRecord DEF SpendingLimit
<1>4. pays => coins * Coin \in Nat
  <2>1. SUFFICES ASSUME pays PROVE coins \in Nat BY CoinAssumption
  <2>2. db.consumed \in Nat BY DEF TypeOK, SpendingLimit
  <2>3. e.consumed \in Nat BY <1>3, <2>1
  <2>4. QED BY <2>1, <2>2, <2>3, CoinAssumption, WholeCoins DEF CoinsCrossed
<1> HIDE DEF ok, c, e, coins, pays
<1>5. db' \in SpendingLimit /\ served' \in Nat
  BY <1>2, <1>3, SMTT(30) DEF TypeOK
<1>6. /\ due' \in [Requests -> Nat] /\ mutex' \in Requests \cup {NoOne}
      /\ pc' \in [Requests -> PCs]
  BY <1>2, <1>4 DEF TypeOK, PCs
<1>7. QED BY <1>2, <1>5, <1>6, Zenon DEF TypeOK

(* Every step of every thread keeps the types.                              *)
LEMMA NextType == TypeOK /\ [Next]_vars => TypeOK'
<1> SUFFICES ASSUME TypeOK, [Next]_vars PROVE TypeOK' OBVIOUS
<1> USE DEF chainVars, reqVars, histVars, unchangedByOwner, Goto
<1>1. ASSUME NEW r \in Requests, FindEscrow(r) PROVE TypeOK'
  BY <1>1 DEF TypeOK, FindEscrow, PCs
<1>2. ASSUME NEW r \in Requests, Screen(r) PROVE TypeOK'
  <2> DEFINE e == UpdateConfirmedTransfers(snap[r])
  <2>1. e \in SpendingLimit
    BY UpdateKeeps DEF TypeOK
  <2>2. e.pending \in SUBSET Nat /\ e.confirmed \in Nat
    BY <2>1 DEF SpendingLimit
  <2>3. /\ db' = db \/ db' = [db EXCEPT !.confirmed = e.confirmed,
                                        !.pending = e.pending]
        /\ snap' = [snap EXCEPT ![r] = DefaultLimit]
        /\ \/ pc' = [pc EXCEPT ![r] = "balance"]
           \/ pc' = [pc EXCEPT ![r] = "idle"]
        /\ UNCHANGED <<wallet, txs, onchain, expired, reserved, mutex, funds,
                       hold, due, served, paid, deposited, crashes>>
    BY <1>2, Zenon DEF Screen, ConfirmationsOf
  <2> HIDE DEF e
  <2>4. db' \in SpendingLimit
    BY <2>2, <2>3, Zenon DEF TypeOK, SpendingLimit
  <2>5. QED BY <2>3, <2>4, DefaultType, Zenon DEF TypeOK, PCs
<1>3. ASSUME NEW r \in Requests, ReadBalance(r) PROVE TypeOK'
  BY <1>3, Zenon DEF TypeOK, ReadBalance, PCs
<1>4. ASSUME NEW r \in Requests, CheckFunds(r) PROVE TypeOK'
  <2>1. funds \in [Requests -> Nat] /\ pc \in [Requests -> PCs]
    BY DEF TypeOK
  <2>2. \/ /\ funds' = [funds EXCEPT ![r] = 0]
           /\ pc' = [pc EXCEPT ![r] = "idle"]
        \/ funds' = funds /\ pc' = [pc EXCEPT ![r] = "admitted"]
    BY <1>4 DEF CheckFunds
  <2>3. funds' \in [Requests -> Nat] /\ pc' \in [Requests -> PCs]
    BY <2>1, <2>2 DEF PCs
  <2>4. QED BY <1>4, <2>3 DEF TypeOK, CheckFunds
<1>5. ASSUME NEW r \in Requests, ReserveEscrowCost(r) PROVE TypeOK'
  <2>1. PICK c \in Nat : /\ hold' = [hold EXCEPT ![r] = c]
                         /\ reserved' = reserved + c
    BY <1>5, AmountAssumption, Zenon DEF ReserveEscrowCost
  <2>2. hold' \in [Requests -> Nat] /\ reserved' \in Nat
    BY <2>1, SMTT(30) DEF TypeOK
  <2>3. funds' \in [Requests -> Nat] /\ pc' \in [Requests -> PCs]
    BY <1>5 DEF TypeOK, ReserveEscrowCost, PCs
  <2>4. QED BY <1>5, <2>2, <2>3 DEF TypeOK, ReserveEscrowCost
<1>6. ASSUME NEW r \in Requests, InferenceFails(r) \/ ProxyForgets(r) \/ InferenceSucceeds(r)
      PROVE  TypeOK'
  <2>1. CASE InferenceFails(r) \/ InferenceSucceeds(r)
    BY <2>1, Zenon DEF TypeOK, InferenceFails, InferenceSucceeds, PCs
  <2>2. CASE ProxyForgets(r)
    BY <2>2 DEF TypeOK, ProxyForgets, PCs
  <2>3. QED BY <1>6, <2>1, <2>2
<1>7. ASSUME NEW r \in Requests, CheckAndDeductEscrow(r) PROVE TypeOK'
  BY <1>7, DeductType
<1>8. ASSUME NEW r \in Requests, Pay(r) PROVE TypeOK'
  <2>1. PICK sent \in IF wallet.loaded /\ ~wallet.locked
                      THEN Transfers(due[r]) ELSE {0} :
          /\ due' = [due EXCEPT ![r] = sent]
          /\ IF sent = 0
             THEN /\ mutex' = NoOne /\ pc' = [pc EXCEPT ![r] = "release"]
                  /\ UNCHANGED <<wallet, txs, paid>>
             ELSE /\ wallet' = [wallet EXCEPT !.balance =
                                   IF sent = @ THEN 0 ELSE @ - sent - Fee]
                  /\ txs' = Append(txs, sent) /\ paid' = paid + sent
                  /\ pc' = [pc EXCEPT ![r] = "recording"]
                  /\ UNCHANGED mutex
    BY <1>8, Zenon DEF Pay
  <2>2. wallet.balance \in Nat /\ due[r] \in Nat
    BY DEF TypeOK
  <2>3. /\ sent \in Nat
        /\ sent # 0 => (IF sent = wallet.balance THEN 0
                        ELSE wallet.balance - sent - Fee) \in Nat
    BY <2>2, TransferBounds
  <2>4. CASE sent = 0
    BY <1>8, <2>1, <2>4, Zenon DEF Pay, TypeOK, PCs
  <2>5. CASE sent # 0
    <3>1. wallet' \in [loaded : BOOLEAN, locked : BOOLEAN, balance : Nat]
      BY <2>1, <2>3, <2>5, Zenon DEF TypeOK
    <3>2. txs' \in Seq(Nat) /\ Len(txs') = Len(txs) + 1
      <4>1. txs \in Seq(Nat) BY DEF TypeOK
      <4>2. txs' = Append(txs, sent) BY <2>1, <2>5
      <4>3. QED BY <2>3, <4>1, <4>2, AppendType
    <3>3. onchain' \subseteq 1..Len(txs')
      BY <1>8, <3>2 DEF Pay, TypeOK
    <3>4. /\ due' \in [Requests -> Nat] /\ pc' \in [Requests -> PCs]
          /\ paid' \in Nat /\ mutex' = mutex
      <4>1. /\ due \in [Requests -> Nat] /\ pc \in [Requests -> PCs]
            /\ paid \in Nat
        BY DEF TypeOK
      <4>2. /\ due' = [due EXCEPT ![r] = sent]
            /\ pc' = [pc EXCEPT ![r] = "recording"]
            /\ paid' = paid + sent /\ mutex' = mutex
        BY <2>1, <2>5
      <4>3. QED BY <2>3, <4>1, <4>2 DEF PCs
    <3>5. QED BY <1>8, <3>1, <3>2, <3>3, <3>4, Zenon DEF Pay, TypeOK
  <2>6. QED BY <2>4, <2>5
<1>9. ASSUME NEW r \in Requests, RecordTransfer(r) PROVE TypeOK'
  <2> DEFINE pending == db.pending \cup {Len(txs)}
             transferred == db.transferred + due[r]
  <2>1. /\ Len(txs) \in Nat /\ due[r] \in Nat
        /\ db.pending \in SUBSET Nat /\ db.transferred \in Nat
    <3>1. Len(txs) \in Nat /\ due[r] \in Nat BY DEF TypeOK
    <3>2. db.pending \in SUBSET Nat /\ db.transferred \in Nat
      BY DEF TypeOK, SpendingLimit
    <3>3. QED BY <3>1, <3>2
  <2>2. pending \in SUBSET Nat /\ transferred \in Nat
    BY <2>1
  <2>3. db' = [db EXCEPT !.pending = pending, !.transferred = transferred]
    BY <1>9 DEF RecordTransfer
  <2> HIDE DEF pending, transferred
  <2>4. db' \in SpendingLimit
    BY <2>2, <2>3, Zenon DEF TypeOK, SpendingLimit
  <2>5. QED BY <1>9, <2>4, Zenon DEF RecordTransfer, TypeOK, PCs
<1>10. ASSUME NEW r \in Requests, ReleaseEscrowCost(r) PROVE TypeOK'
  <2>1. reserved' \in Nat /\ hold' \in [Requests -> Nat]
    BY <1>10 DEF TypeOK, ReleaseEscrowCost
  <2>2. pc' \in [Requests -> PCs]
    BY <1>10 DEF TypeOK, ReleaseEscrowCost, PCs
  <2>3. QED BY <1>10, <2>1, <2>2, Zenon DEF TypeOK, ReleaseEscrowCost
<1>11. ASSUME ToggleLock \/ ToggleLoaded PROVE TypeOK'
  BY <1>11, Zenon DEF TypeOK, ToggleLock, ToggleLoaded
<1>12. ASSUME Deposit PROVE TypeOK'
  <2>1. PICK d \in Nat : /\ deposited' = deposited + d
                         /\ wallet' = [wallet EXCEPT !.balance = @ + d]
    BY <1>12, AmountAssumption DEF Deposit
  <2>2. deposited' \in Nat
    BY <2>1 DEF TypeOK
  <2>3. wallet' \in [loaded : BOOLEAN, locked : BOOLEAN, balance : Nat]
    <3>1. wallet \in [loaded : BOOLEAN, locked : BOOLEAN, balance : Nat]
      BY DEF TypeOK
    <3>2. wallet.balance + d \in Nat BY <3>1
    <3>3. QED BY <2>1, <3>1, <3>2
  <2>4. QED BY <1>12, <2>2, <2>3, Zenon DEF TypeOK, Deposit
<1>13. ASSUME ConfirmTx PROVE TypeOK'
  BY <1>13, Zenon DEF TypeOK, ConfirmTx
<1>14. ASSUME suspendescrow \/ closeescrow PROVE TypeOK'
  <2>1. db' \in SpendingLimit
    BY <1>14, ZenonT(30) DEF suspendescrow, closeescrow, TypeOK, SpendingLimit, States
  <2>2. QED BY <1>14, <2>1 DEF suspendescrow, closeescrow, TypeOK
<1>15. ASSUME Expire PROVE TypeOK'
  BY <1>15 DEF TypeOK, Expire
<1>16. ASSUME Crash PROVE TypeOK'
  BY <1>16, DefaultType DEF TypeOK, Crash, PCs
<1>17. ASSUME UNCHANGED vars PROVE TypeOK'
  BY <1>17 DEF TypeOK, vars
<1>18. QED
  BY <1>1, <1>2, <1>3, <1>4, <1>5, <1>6, <1>7, <1>8, <1>9, <1>10, <1>11, <1>12,
     <1>13, <1>14, <1>15, <1>16, <1>17, Zenon
     DEF Next, Running, RequestStep, HandlerStep, Surroundings

(* The record, the wallet and the threads' locals keep their types: amounts  *)
(* never go below zero, for any interleaving of rpc/escrow.cpp's sections.   *)
THEOREM TypeCorrect == Spec => []TypeOK
BY InitType, NextType, PTL DEF Spec

------------------------------------------------------------------------------
(* A step that leaves the amounts, the mutex and the threads in the critical *)
(* section alone preserves the money invariant.                              *)
LEMMA MoneyFrame ==
    ASSUME MoneyInv,
           db'.consumed = db.consumed, db'.transferred = db.transferred,
           db'.total = db.total,
           UNCHANGED <<mutex, due, served, paid, crashes>>,
           mutex \in Requests \cup {NoOne}, NoOne \notin Requests,
           \A q \in Requests :
               \/ pc'[q] = pc[q]
               \/ /\ pc[q] \notin {"paying", "recording"}
                  /\ pc'[q] \notin {"paying", "recording"}
    PROVE  MoneyInv'
<1>1. \A q \in Requests : SectionOK(q)'
  BY DEF MoneyInv, SectionOK
<1>2. mutex # NoOne => pc'[mutex] = pc[mutex]
  BY DEF MoneyInv, SectionOK
<1>3. TransfersAccounted'
  BY <1>2 DEF MoneyInv, TransfersAccounted
<1>4. served' = db'.consumed /\ NeverOverpays' /\ PrepaidLimit'
  BY DEF MoneyInv, NeverOverpays, PrepaidLimit
<1>5. QED BY <1>1, <1>3, <1>4 DEF MoneyInv

(* A new escrow owes and has paid nothing.                                  *)
LEMMA InitMoney == Init => MoneyInv
<1> SUFFICES ASSUME Init PROVE MoneyInv OBVIOUS
<1>1. /\ db.consumed = 0 /\ db.transferred = 0 /\ paid = 0 /\ served = 0
      /\ mutex = NoOne /\ \A r \in Requests : pc[r] = "idle"
  BY DEF Init
<1>2. 0 \div Coin = 0 /\ Coin * 0 = 0
  BY CoinAssumption
<1>3. TypeOK BY InitType
<1>4. db.total \in Nat BY <1>3 DEF TypeOK, SpendingLimit
<1>5. \A r \in Requests : SectionOK(r)
  BY <1>1, RequestsAssumption DEF SectionOK
<1>6. QED
  BY <1>1, <1>2, <1>4, <1>5
     DEF MoneyInv, NeverOverpays, TransfersAccounted, PrepaidLimit

(* Billing: the new coins are owed by the thread that takes the mutex.       *)
LEMMA DeductMoney ==
    ASSUME TypeOK, MoneyInv, NEW r \in Requests, CheckAndDeductEscrow(r)
    PROVE  MoneyInv'
<1>1. PICK t \in Tokens, a \in TokensPerTknc \cup {0} : Deduct(r, t, a)
  BY Zenon DEF CheckAndDeductEscrow
<1> DEFINE ok == /\ Billable(db) /\ ~IsExhausted(db) /\ ~expired
                 /\ t <= Int64Max \div RatePerToken(db, a)
           c == Charge(db, t, RatePerToken(db, a))
           e == Billed(UpdateConfirmedTransfers(db), c)
           prev == db.consumed \div Coin
           curr == e.consumed \div Coin
           pays == ok /\ curr - prev > 0 /\ db.miner
<1>2. /\ pc[r] = "billing" /\ mutex = NoOne
      /\ db' = IF ok THEN e ELSE db
      /\ served' = IF ok THEN served + c.cost ELSE served
      /\ due' = [due EXCEPT ![r] = IF pays THEN (curr - prev) * Coin ELSE 0]
      /\ mutex' = IF pays THEN r ELSE NoOne
      /\ pc' = [pc EXCEPT ![r] = IF pays THEN "paying" ELSE "release"]
      /\ paid' = paid /\ crashes' = crashes
  BY <1>1 DEF Deduct, Goto, CoinsCrossed
<1>3. /\ db.consumed \in Nat /\ db.transferred \in Nat /\ db.total \in Nat
      /\ Coin \in Nat \ {0} /\ paid \in Nat /\ served \in Nat
  BY CoinAssumption DEF TypeOK, SpendingLimit
<1>4. /\ DOMAIN pc = Requests /\ DOMAIN due = Requests
  BY ZenonT(30) DEF TypeOK
<1>5. ok => /\ c.cost \in Nat /\ e.consumed = db.consumed + c.cost
            /\ e.total = db.total /\ e.transferred = db.transferred
            /\ db.total > 0 => e.consumed <= db.total
  BY DeductRecord
<1>6. prev \in Nat /\ paid <= Coin * prev
  BY <1>3, WholeCoins DEF MoneyInv, NeverOverpays
<1>7. ok => curr \in Nat /\ prev <= curr
  BY <1>3, <1>5, WholeCoins, WholeCoinsGrow
<1>8. ok => Coin * prev <= Coin * curr /\ Coin * prev + (curr - prev) * Coin = Coin * curr
  BY <1>3, <1>6, <1>7, ProductGrows
<1> HIDE DEF ok, c, e
<1>9. db'.consumed \div Coin = IF ok THEN curr ELSE prev
  BY <1>2
<1> HIDE DEF prev, curr
<1>10. NeverOverpays'
  BY <1>2, <1>3, <1>6, <1>7, <1>8, <1>9 DEF NeverOverpays
<1>11. \A q \in Requests : SectionOK(q)'
  <2>1. ASSUME NEW q \in Requests, q # r PROVE SectionOK(q)'
    <3>1. pc[q] \notin {"paying", "recording"}
      BY <1>2, RequestsAssumption DEF MoneyInv, SectionOK
    <3>2. pc'[q] = pc[q] /\ mutex' # q
      BY <1>2, <1>4, <2>1, RequestsAssumption
    <3>3. QED BY <3>1, <3>2 DEF SectionOK
  <2>2. CASE pays
    <3>1. /\ pc'[r] = "paying" /\ mutex' = r
          /\ due'[r] = (curr - prev) * Coin
      BY <1>2, <1>4, <2>2
    <3>2. paid + (curr - prev) * Coin <= Coin * curr
      BY <1>3, <1>6, <1>7, <1>8, <2>2
    <3>3. SectionOK(r)'
      BY <1>2, <1>9, <2>2, <3>1, <3>2, Zenon DEF SectionOK
    <3>4. QED BY <2>1, <3>3
  <2>3. CASE ~pays
    <3>1. pc'[r] = "release" /\ mutex' = NoOne
      BY <1>2, <1>4, <2>3
    <3>2. SectionOK(r)'
      BY <3>1, RequestsAssumption DEF SectionOK
    <3>3. QED BY <2>1, <3>2
  <2>4. QED BY <2>2, <2>3
<1>12. TransfersAccounted'
  <2>1. db'.transferred = db.transferred
    BY <1>2, <1>5
  <2>2. ~(mutex' # NoOne /\ pc'[mutex'] = "recording")
    BY <1>2, <1>4
  <2>3. QED BY <1>2, <2>1, <2>2 DEF MoneyInv, TransfersAccounted
<1>13. served' = db'.consumed /\ PrepaidLimit'
  BY <1>2, <1>3, <1>5 DEF MoneyInv, PrepaidLimit
<1>14. QED BY <1>10, <1>11, <1>12, <1>13 DEF MoneyInv

(* Transfer: what is sent was owed, and waits to be recorded.                *)
LEMMA PayMoney ==
    ASSUME TypeOK, MoneyInv, NEW r \in Requests, Pay(r)
    PROVE  MoneyInv'
<1>1. PICK sent \in (IF wallet.loaded /\ ~wallet.locked THEN Transfers(due[r])
                                                        ELSE {0}) :
          /\ due' = [due EXCEPT ![r] = sent]
          /\ sent = 0 => /\ mutex' = NoOne /\ paid' = paid
                         /\ pc' = [pc EXCEPT ![r] = "release"]
          /\ sent # 0 => /\ mutex' = mutex /\ paid' = paid + sent
                         /\ pc' = [pc EXCEPT ![r] = "recording"]
  BY Zenon DEF Pay, Goto
<1>2. pc[r] = "paying" /\ db' = db /\ served' = served /\ crashes' = crashes
  BY DEF Pay
<1>3. /\ DOMAIN pc = Requests /\ DOMAIN due = Requests /\ due[r] \in Nat
      /\ paid \in Nat /\ db.transferred \in Nat /\ db.consumed \in Nat
      /\ wallet.balance \in Nat
  BY DEF TypeOK, SpendingLimit
<1>4. sent \in Nat /\ sent <= due[r]
  BY <1>1, <1>3, TransferBounds
<1>5. /\ mutex = r /\ paid + due[r] <= Coin * (db.consumed \div Coin)
      /\ db.transferred <= paid
      /\ crashes = 0 => paid = db.transferred
  <2>1. mutex = r /\ paid + due[r] <= Coin * (db.consumed \div Coin)
    BY <1>2 DEF MoneyInv, SectionOK
  <2>2. pc[mutex] # "recording" BY <1>2, <2>1
  <2>3. QED BY <1>3, <2>1, <2>2 DEF MoneyInv, TransfersAccounted
<1>6. Coin * (db.consumed \div Coin) \in Nat
  BY <1>3, CoinAssumption, WholeCoins
<1>7. NeverOverpays'
  BY <1>1, <1>2, <1>3, <1>4, <1>5, <1>6 DEF NeverOverpays
<1>8. ASSUME NEW q \in Requests, q # r PROVE SectionOK(q)'
  <2>1. pc[q] \notin {"paying", "recording"}
    BY <1>5, <1>8 DEF MoneyInv, SectionOK
  <2>2. pc'[q] = pc[q] /\ mutex' # q
    BY <1>1, <1>3, <1>5, <1>8, RequestsAssumption, Zenon
  <2>3. QED BY <2>1, <2>2 DEF SectionOK
<1>9. CASE sent = 0
  <2>1. pc'[r] = "release" /\ mutex' = NoOne /\ paid' = paid
    BY <1>1, <1>3, <1>9
  <2>2. SectionOK(r)' BY <2>1, RequestsAssumption, Zenon DEF SectionOK
  <2>3. TransfersAccounted'
    BY <1>2, <1>3, <1>5, <2>1 DEF TransfersAccounted
  <2>4. QED BY <1>2, <1>7, <1>8, <2>2, <2>3 DEF MoneyInv, PrepaidLimit
<1>10. CASE sent # 0
  <2>1. /\ pc'[r] = "recording" /\ mutex' = r /\ paid' = paid + sent
        /\ due'[r] = sent
    BY <1>1, <1>3, <1>5, <1>10
  <2>2. SectionOK(r)'
    BY <1>2, <1>3, <1>4, <1>5, <2>1 DEF SectionOK
  <2>3. TransfersAccounted'
    BY <1>2, <1>3, <1>4, <1>5, <2>1, RequestsAssumption DEF TransfersAccounted
  <2>4. QED BY <1>2, <1>7, <1>8, <2>2, <2>3 DEF MoneyInv, PrepaidLimit
<1>11. QED BY <1>9, <1>10

(* The second write of CheckAndDeductEscrow keeps the money invariant.      *)
LEMMA RecordMoney ==
    ASSUME TypeOK, MoneyInv, NEW r \in Requests, RecordTransfer(r)
    PROVE  MoneyInv'
<1>1. /\ pc[r] = "recording" /\ mutex' = NoOne
      /\ pc' = [pc EXCEPT ![r] = "release"]
      /\ db'.transferred = db.transferred + due[r]
      /\ db'.consumed = db.consumed /\ db'.total = db.total
      /\ served' = served /\ paid' = paid /\ crashes' = crashes
  BY DEF RecordTransfer, Goto, histVars, TypeOK, SpendingLimit
<1>2. /\ DOMAIN pc = Requests /\ due[r] \in Nat
      /\ paid \in Nat /\ db.transferred \in Nat
  BY DEF TypeOK, SpendingLimit
<1>3. mutex = r /\ db.transferred + due[r] <= paid
  BY <1>1 DEF MoneyInv, SectionOK
<1>4. crashes = 0 => paid - db.transferred = due[r]
  BY <1>1, <1>3, RequestsAssumption DEF MoneyInv, TransfersAccounted
<1>5. TransfersAccounted'
  BY <1>1, <1>2, <1>3, <1>4 DEF TransfersAccounted
<1>6. ASSUME NEW q \in Requests PROVE SectionOK(q)'
  <2>1. q # r => pc[q] \notin {"paying", "recording"}
    BY <1>3 DEF MoneyInv, SectionOK
  <2>2. pc'[q] \notin {"paying", "recording"} /\ mutex' # q
    BY <1>1, <1>2, <2>1, RequestsAssumption
  <2>3. QED BY <2>2 DEF SectionOK
<1>7. NeverOverpays' /\ PrepaidLimit' /\ served' = db'.consumed
  BY <1>1 DEF MoneyInv, NeverOverpays, PrepaidLimit
<1>8. QED BY <1>5, <1>6, <1>7 DEF MoneyInv

(* A crash, also one inside CheckAndDeductEscrow, keeps it.                 *)
LEMMA CrashMoney ==
    ASSUME TypeOK, MoneyInv, Crash
    PROVE  MoneyInv'
<1>1. /\ mutex' = NoOne /\ crashes' = crashes + 1
      /\ \A q \in Requests : pc'[q] = "idle"
      /\ db' = db /\ served' = served /\ paid' = paid /\ crashes \in Nat
  BY DEF Crash, TypeOK
<1>2. \A q \in Requests : SectionOK(q)'
  BY <1>1, RequestsAssumption DEF SectionOK
<1>3. QED
  BY <1>1, <1>2
     DEF MoneyInv, NeverOverpays, TransfersAccounted, PrepaidLimit

(* Every step keeps the money invariant: one case per action.               *)
LEMMA NextMoney == TypeOK /\ MoneyInv /\ [Next]_vars => MoneyInv'
<1> SUFFICES ASSUME TypeOK, MoneyInv, [Next]_vars PROVE MoneyInv' OBVIOUS
<1> DEFINE Moved(r, from) ==
        /\ pc[r] \in from
        /\ pc' = [pc EXCEPT ![r] = pc'[r]]
        /\ pc'[r] \notin {"paying", "recording"}
        /\ db'.consumed = db.consumed /\ db'.transferred = db.transferred
        /\ db'.total = db.total
        /\ UNCHANGED <<mutex, due, served, paid, crashes>>
<1>1. mutex \in Requests \cup {NoOne} /\ DOMAIN pc = Requests
  BY DEF TypeOK
<1>2. ASSUME NEW r \in Requests,
             Moved(r, {"idle", "screen", "balance", "funds", "admitted",
                       "serving", "release"})
      PROVE  MoneyInv'
  <2>1. \A q \in Requests : \/ pc'[q] = pc[q]
                            \/ /\ pc[q] \notin {"paying", "recording"}
                               /\ pc'[q] \notin {"paying", "recording"}
    BY <1>1, <1>2
  <2>2. QED BY <1>1, <1>2, <2>1, MoneyFrame, RequestsAssumption
<1>3. ASSUME db'.consumed = db.consumed, db'.transferred = db.transferred,
             db'.total = db.total, pc' = pc,
             UNCHANGED <<mutex, due, served, paid, crashes>>
      PROVE  MoneyInv'
  BY <1>1, <1>3, MoneyFrame, RequestsAssumption
<1> HIDE DEF Moved
<1> USE DEF chainVars, reqVars, histVars, unchangedByOwner, Goto
<1>4. ASSUME NEW r \in Requests, FindEscrow(r) PROVE MoneyInv'
  BY <1>1, <1>2, <1>4, Zenon DEF FindEscrow, Moved
<1>5. ASSUME NEW r \in Requests, Screen(r) PROVE MoneyInv'
  <2>1. /\ db'.consumed = db.consumed /\ db'.transferred = db.transferred
        /\ db'.total = db.total
    BY <1>5 DEF Screen, ConfirmationsOf, TypeOK, SpendingLimit
  <2>2. Moved(r, {"screen"}) BY <1>1, <1>5, <2>1 DEF Screen, ConfirmationsOf, Moved
  <2>3. QED BY <1>2, <2>2 DEF Moved
<1>6. ASSUME NEW r \in Requests, ReadBalance(r) PROVE MoneyInv'
  BY <1>1, <1>2, <1>6 DEF ReadBalance, Moved
<1>7. ASSUME NEW r \in Requests, CheckFunds(r) PROVE MoneyInv'
  BY <1>1, <1>2, <1>7 DEF CheckFunds, Moved
<1>8. ASSUME NEW r \in Requests, ReserveEscrowCost(r) PROVE MoneyInv'
  BY <1>1, <1>2, <1>8, Zenon DEF ReserveEscrowCost, Moved
<1>9. ASSUME NEW r \in Requests, InferenceFails(r) \/ ProxyForgets(r) PROVE MoneyInv'
  BY <1>1, <1>2, <1>9, Zenon DEF InferenceFails, ProxyForgets, Moved
<1>10. ASSUME NEW r \in Requests, InferenceSucceeds(r) PROVE MoneyInv'
  BY <1>1, <1>2, <1>10, Zenon DEF InferenceSucceeds, Moved
<1>11. ASSUME NEW r \in Requests, ReleaseEscrowCost(r) PROVE MoneyInv'
  BY <1>1, <1>2, <1>11, Zenon DEF ReleaseEscrowCost, Moved
<1>12. CASE Surroundings
  <2>1. /\ db'.consumed = db.consumed /\ db'.transferred = db.transferred
        /\ db'.total = db.total /\ pc' = pc
        /\ UNCHANGED <<mutex, due, served, paid, crashes>>
    BY <1>12, Zenon DEF Surroundings, ToggleLock, ToggleLoaded, Deposit, ConfirmTx,
                 suspendescrow, closeescrow, Expire, TypeOK, SpendingLimit
  <2>2. QED BY <1>3, <2>1
<1>13. CASE UNCHANGED vars
  BY <1>3, <1>13 DEF vars
<1>14. QED
  BY <1>4, <1>5, <1>6, <1>7, <1>8, <1>9, <1>10, <1>11, <1>12, <1>13,
     DeductMoney, PayMoney, RecordMoney, CrashMoney, Zenon
     DEF Next, Running, RequestStep, HandlerStep


------------------------------------------------------------------------------
(* The requests that may still add a cost are among the requests.            *)
LEMMA TicketCount ==
    /\ IsFiniteSet(Tickets) /\ Cardinality(Tickets) \in Nat
    /\ Cardinality(Requests) \in Nat
    /\ Cardinality(Tickets) <= Cardinality(Requests)
<1>1. Tickets \subseteq Requests BY DEF Tickets
<1>2. QED BY <1>1, RequestsAssumption, FS_Subset, FS_CardinalityType

(* The same count in the next state.                                        *)
LEMMA TicketCountNext ==
    /\ IsFiniteSet(Tickets') /\ Cardinality(Tickets') \in Nat
    /\ Cardinality(Tickets') <= Cardinality(Requests)
<1>1. Tickets' \subseteq Requests BY DEF Tickets
<1>2. QED BY <1>1, RequestsAssumption, FS_Subset, FS_CardinalityType

(* No new ticket and no new debt: the bound stands.                          *)
LEMMA DebtFrame ==
    ASSUME TypeOK, DebtBound, db'.total = db.total,
           db'.consumed = db.consumed,
           db'.transferred \in Nat, db'.transferred >= db.transferred,
           db.total = 0 => Tickets' \subseteq Tickets
    PROVE  DebtBound'
<1> SUFFICES ASSUME db.total = 0
             PROVE  Debt(db)' + MaxCost * Cardinality(Tickets')
                        < 2 * Coin + MaxCost * Cardinality(Requests)
  BY DEF DebtBound
<1> DEFINE n == Cardinality(Tickets)
           m == Cardinality(Tickets')
           N == Cardinality(Requests)
<1>1. n \in Nat /\ m \in Nat /\ m <= n
  BY TicketCount, FS_Subset, FS_CardinalityType
<1>2. Debt(db) + MaxCost * n < 2 * Coin + MaxCost * N
  BY DEF DebtBound
<1>3. Debt(db)' \in Int /\ Debt(db) \in Int /\ Debt(db)' <= Debt(db)
  <2>1. db.consumed \in Nat /\ db.transferred \in Nat
    BY DEF TypeOK, SpendingLimit
  <2>2. Debt(db)' = db.consumed - db'.transferred
    BY DEF Debt
  <2>3. QED BY <2>1, <2>2 DEF Debt
<1>4. MaxCost \in Nat BY AmountAssumption
<1> HIDE DEF n, m, N
<1>5. MaxCost * m <= MaxCost * n /\ MaxCost * m \in Nat /\ MaxCost * n \in Nat
  BY <1>1, <1>4, ProductGrows
<1>6. 2 * Coin \in Nat /\ MaxCost * N \in Nat
  BY <1>4, TicketCount, CoinAssumption DEF N
<1>7. Debt(db)' + MaxCost * m < 2 * Coin + MaxCost * N
  BY <1>2, <1>3, <1>5, <1>6
<1>8. QED BY <1>7 DEF m, N

(* A new escrow has no debt and no request has copied it.                   *)
LEMMA InitDebt == Init => DebtBound /\ \A r \in Requests : CopyOK(r)
<1> SUFFICES ASSUME Init PROVE DebtBound /\ \A r \in Requests : CopyOK(r) OBVIOUS
<1>1. Debt(db) = 0 /\ Tickets = {} /\ \A r \in Requests : pc[r] = "idle"
  BY DEF Init, Debt, Tickets
<1>2. Cardinality(Tickets) = 0 BY <1>1, FS_EmptySet
<1>3. Cardinality(Requests) \in Nat BY TicketCount
<1>4. MaxCost * 0 = 0 /\ MaxCost * Cardinality(Requests) \in Nat
  BY <1>3, AmountAssumption
<1>5. QED
  BY <1>1, <1>2, <1>4, CoinAssumption DEF DebtBound, CopyOK

(* A request enters with a ticket only while the debt is below two TKNC.     *)
LEMMA FindEscrowDebt ==
    ASSUME TypeOK, DebtBound, NEW r \in Requests, FindEscrow(r)
    PROVE  DebtBound'
<1>1. /\ db' = db /\ pc' = [pc EXCEPT ![r] = "screen"]
      /\ snap' = [snap EXCEPT ![r] = db]
  BY DEF FindEscrow, Goto
<1>2. DOMAIN pc = Requests /\ DOMAIN snap = Requests
  BY DEF TypeOK
<1>3. CASE Debt(db) < 2 * Coin
  <2> DEFINE m == Cardinality(Tickets')
             N == Cardinality(Requests)
  <2>1. m \in Nat /\ N \in Nat /\ m <= N BY TicketCountNext, TicketCount
  <2>2. MaxCost \in Nat /\ Coin \in Nat BY AmountAssumption, CoinAssumption
  <2>3. Debt(db) \in Int BY DEF Debt, TypeOK, SpendingLimit
  <2> HIDE DEF m, N
  <2>4. MaxCost * m <= MaxCost * N /\ MaxCost * m \in Nat /\ MaxCost * N \in Nat
    BY <2>1, <2>2, ProductGrows
  <2>5. Debt(db) + MaxCost * m < 2 * Coin + MaxCost * N
    BY <1>3, <2>2, <2>3, <2>4
  <2>6. QED BY <1>1, <2>5 DEF DebtBound, Debt, m, N
<1>4. CASE ~(Debt(db) < 2 * Coin)
  <2>1. snap'[r] = db /\ \A q \in Requests \ {r} : snap'[q] = snap[q]
    BY <1>1, <1>2
  <2>2. pc'[r] = "screen" /\ \A q \in Requests \ {r} : pc'[q] = pc[q]
    BY <1>1, <1>2
  <2>3. Tickets' \subseteq Tickets
    BY <1>4, <2>1, <2>2 DEF Tickets, Debt
  <2>4. db.transferred \in Nat BY DEF TypeOK, SpendingLimit
  <2>5. QED BY <1>1, <2>3, <2>4, DebtFrame
<1>5. QED BY <1>3, <1>4

(* CanAffordInference passes only a request that already had a ticket.       *)
LEMMA ScreenDebt ==
    ASSUME TypeOK, DebtBound, NEW r \in Requests, CopyOK(r), Screen(r)
    PROVE  DebtBound'
<1> DEFINE e == UpdateConfirmedTransfers(snap[r])
<1>1. /\ pc[r] = "screen"
      /\ \/ pc' = [pc EXCEPT ![r] = "idle"]
         \/ DebtAllowed(e) /\ pc' = [pc EXCEPT ![r] = "balance"]
      /\ snap' = [snap EXCEPT ![r] = DefaultLimit]
  BY Zenon DEF Screen, ConfirmationsOf, Goto
<1>2. /\ db'.consumed = db.consumed /\ db'.transferred = db.transferred
      /\ db'.total = db.total /\ db.transferred \in Nat
  BY DEF Screen, ConfirmationsOf, TypeOK, SpendingLimit
<1>3. DOMAIN pc = Requests /\ DOMAIN snap = Requests
  BY DEF TypeOK
<1>4. /\ e.total = snap[r].total /\ e.consumed = snap[r].consumed
      /\ e.transferred = snap[r].transferred
  BY UpdateKeeps DEF TypeOK
<1>5. snap[r].consumed \in Nat /\ snap[r].transferred \in Nat
  BY Zenon DEF TypeOK, SpendingLimit
<1> HIDE DEF e
<1>6. db.total = 0 /\ DebtAllowed(e) => Debt(snap[r]) < 2 * Coin
  BY <1>1, <1>4, <1>5, CoinAssumption DEF CopyOK, DebtAllowed, Debt
<1>7. \A q \in Requests \ {r} : pc'[q] = pc[q] /\ snap'[q] = snap[q]
  BY <1>1, <1>3
<1>8. pc'[r] = "idle" \/ (DebtAllowed(e) /\ pc'[r] = "balance")
  BY <1>1, <1>3
<1>9. db.total = 0 => Tickets' \subseteq Tickets
  BY <1>1, <1>6, <1>7, <1>8 DEF Tickets
<1>10. QED BY <1>2, <1>9, DebtFrame

(* Billing takes the ticket and adds at most one cost.                       *)
LEMMA DeductDebt ==
    ASSUME TypeOK, DebtBound, NEW r \in Requests, CheckAndDeductEscrow(r)
    PROVE  DebtBound'
<1>1. PICK t \in Tokens, a \in TokensPerTknc \cup {0} : Deduct(r, t, a)
  BY DEF CheckAndDeductEscrow
<1> DEFINE ok == /\ Billable(db) /\ ~IsExhausted(db) /\ ~expired
                 /\ t <= Int64Max \div RatePerToken(db, a)
           c == Charge(db, t, RatePerToken(db, a))
           e == Billed(UpdateConfirmedTransfers(db), c)
<1>2. pc[r] = "billing" /\ db' = (IF ok THEN e ELSE db)
  BY <1>1, Zenon DEF Deduct
<1>3. \E label \in {"paying", "release"} : pc' = [pc EXCEPT ![r] = label]
  BY <1>1, Zenon DEF Deduct, Goto
<1>4. snap' = snap BY <1>1 DEF Deduct
<1>5. ok => /\ c.cost \in Nat /\ c.cost <= MaxCost
            /\ e.consumed = db.consumed + c.cost
            /\ e.total = db.total /\ e.transferred = db.transferred
  BY DeductRecord, Zenon
<1> HIDE DEF ok, c, e
<1>6. /\ db.consumed \in Nat /\ db.transferred \in Nat
      /\ MaxCost \in Nat /\ Coin \in Nat /\ DOMAIN pc = Requests
  BY AmountAssumption, CoinAssumption DEF TypeOK, SpendingLimit
<1>7. /\ db'.total = db.total /\ Debt(db) \in Int /\ Debt(db') \in Int
      /\ Debt(db') <= Debt(db) + MaxCost
  BY <1>2, <1>5, <1>6 DEF Debt
<1>8. Debt(db)' = Debt(db') BY DEF Debt
<1>9. r \in Tickets /\ Tickets' \subseteq Tickets \ {r}
  BY <1>2, <1>3, <1>4, <1>6, Zenon DEF Tickets
<1> DEFINE n == Cardinality(Tickets)
           m == Cardinality(Tickets')
           N == Cardinality(Requests)
<1>10. n \in Nat /\ m \in Nat /\ N \in Nat
  BY TicketCount, TicketCountNext
<1>11. IsFiniteSet(Tickets \ {r}) /\ Cardinality(Tickets \ {r}) = n - 1
  BY <1>9, TicketCount, FS_RemoveElement, Zenon
<1>12. m <= n - 1
  BY <1>9, <1>11, FS_Subset
<1>13. db.total = 0 => Debt(db) + MaxCost * n < 2 * Coin + MaxCost * N
  BY DEF DebtBound
<1> HIDE DEF n, m, N
<1>14. MaxCost * (m + 1) <= MaxCost * n
  BY <1>6, <1>10, <1>12, ProductGrows
<1>15. MaxCost * (m + 1) = MaxCost * m + MaxCost
  BY <1>6, <1>10
<1>16. /\ MaxCost * n \in Nat /\ MaxCost * m \in Nat /\ MaxCost * N \in Nat
       /\ 2 * Coin \in Nat
  BY <1>6, <1>10
<1>17. db.total = 0 => Debt(db') + MaxCost * m < 2 * Coin + MaxCost * N
  BY <1>6, <1>7, <1>13, <1>14, <1>15, <1>16
<1>18. QED BY <1>7, <1>8, <1>17, Zenon DEF DebtBound, m, N

(* Every step keeps the bound on the debt: one case per action.             *)
LEMMA NextDebt ==
    TypeOK /\ (\A r \in Requests : CopyOK(r)) /\ DebtBound /\ [Next]_vars
        => DebtBound'
<1> SUFFICES ASSUME TypeOK, \A r \in Requests : CopyOK(r), DebtBound, [Next]_vars
             PROVE  DebtBound'
  OBVIOUS
<1> DEFINE kept == {"balance", "funds", "admitted", "serving", "billing"}
           Still == db'.total = db.total /\ db'.consumed = db.consumed
                    /\ db'.transferred = db.transferred /\ snap' = snap
<1>1. /\ DOMAIN pc = Requests /\ db.transferred \in Nat
      /\ DOMAIN snap = Requests
  BY DEF TypeOK, SpendingLimit
<1>2. ASSUME NEW r \in Requests, Still, NEW label,
             pc' = [pc EXCEPT ![r] = label], label # "screen",
             label \in kept => pc[r] \in kept
      PROVE  DebtBound'
  <2>1. pc'[r] = label /\ \A q \in Requests \ {r} : pc'[q] = pc[q]
    BY <1>1, <1>2
  <2>2. Tickets' \subseteq Tickets
    BY <1>2, <2>1 DEF Tickets
  <2>3. QED BY <1>1, <1>2, <2>2, DebtFrame
<1>3. ASSUME Still, pc' = pc PROVE DebtBound'
  <2>1. Tickets' = Tickets BY <1>3, Zenon DEF Tickets
  <2>2. QED BY <1>1, <1>3, <2>1, DebtFrame
<1> USE DEF chainVars, reqVars, histVars, unchangedByOwner, Goto
<1>4. ASSUME NEW r \in Requests, ReadBalance(r) PROVE DebtBound'
  BY <1>2, <1>4, Zenon DEF ReadBalance
<1>5. ASSUME NEW r \in Requests, CheckFunds(r) PROVE DebtBound'
  BY <1>2, <1>5, Zenon DEF CheckFunds
<1>6. ASSUME NEW r \in Requests, ReserveEscrowCost(r) PROVE DebtBound'
  BY <1>2, <1>6, Zenon DEF ReserveEscrowCost
<1>7. ASSUME NEW r \in Requests, InferenceFails(r) \/ ProxyForgets(r) PROVE DebtBound'
  BY <1>2, <1>7, Zenon DEF InferenceFails, ProxyForgets
<1>8. ASSUME NEW r \in Requests, InferenceSucceeds(r) PROVE DebtBound'
  BY <1>2, <1>8, Zenon DEF InferenceSucceeds
<1>9. ASSUME NEW r \in Requests, Pay(r) PROVE DebtBound'
  <2>1. \E label \in {"release", "recording"} : pc' = [pc EXCEPT ![r] = label]
    BY <1>9 DEF Pay
  <2>2. Still BY <1>9 DEF Pay
  <2>3. QED BY <1>2, <2>1, <2>2, Zenon
<1>10. ASSUME NEW r \in Requests, RecordTransfer(r) PROVE DebtBound'
  <2>1. /\ db'.total = db.total /\ db'.consumed = db.consumed
        /\ db'.transferred = db.transferred + due[r] /\ due[r] \in Nat
    BY <1>10 DEF RecordTransfer, TypeOK, SpendingLimit
  <2>2. pc[r] = "recording" /\ pc' = [pc EXCEPT ![r] = "release"] /\ snap' = snap
    BY <1>10 DEF RecordTransfer
  <2>3. Tickets' \subseteq Tickets BY <1>1, <2>2 DEF Tickets
  <2>4. QED BY <1>1, <2>1, <2>3, DebtFrame
<1>11. ASSUME NEW r \in Requests, ReleaseEscrowCost(r) PROVE DebtBound'
  BY <1>2, <1>11, Zenon DEF ReleaseEscrowCost
<1>12. CASE Surroundings
  BY <1>3, <1>12, Zenon
     DEF Surroundings, ToggleLock, ToggleLoaded, Deposit, ConfirmTx,
         suspendescrow, closeescrow, Expire, TypeOK, SpendingLimit
<1>13. CASE Crash
  <2>1. \A q \in Requests : pc'[q] = "idle" BY <1>13 DEF Crash
  <2>2. Tickets' \subseteq Tickets BY <2>1 DEF Tickets
  <2>3. QED BY <1>1, <1>13, <2>2, DebtFrame DEF Crash
<1>14. CASE UNCHANGED vars
  BY <1>3, <1>14 DEF vars
<1>15. QED
  BY <1>4, <1>5, <1>6, <1>7, <1>8, <1>9, <1>10, <1>11, <1>12, <1>13, <1>14,
     FindEscrowDebt, ScreenDebt, DeductDebt, Zenon
     DEF Next, Running, RequestStep, HandlerStep

(* No step changes the total of the record, and a copy is made of it.        *)
LEMMA NextCopy ==
    TypeOK /\ (\A r \in Requests : CopyOK(r)) /\ [Next]_vars
        => \A r \in Requests : CopyOK(r)'
<1> SUFFICES ASSUME TypeOK, \A r \in Requests : CopyOK(r), [Next]_vars
             PROVE  \A r \in Requests : CopyOK(r)'
  OBVIOUS
<1>1. DOMAIN pc = Requests /\ DOMAIN snap = Requests
  BY DEF TypeOK
<1>2. ASSUME db'.total = db.total, NEW r \in Requests, NEW label,
             pc' = [pc EXCEPT ![r] = label], label # "screen",
             \A q \in Requests \ {r} : snap'[q] = snap[q]
      PROVE  \A q \in Requests : CopyOK(q)'
  BY <1>1, <1>2 DEF CopyOK
<1>3. ASSUME db'.total = db.total, pc' = pc, snap' = snap
      PROVE  \A q \in Requests : CopyOK(q)'
  BY <1>3 DEF CopyOK
<1> USE DEF chainVars, reqVars, histVars, unchangedByOwner, Goto
<1>4. ASSUME NEW r \in Requests, FindEscrow(r) PROVE \A q \in Requests : CopyOK(q)'
  BY <1>1, <1>4 DEF FindEscrow, CopyOK
<1>5. ASSUME NEW r \in Requests, Screen(r) PROVE \A q \in Requests : CopyOK(q)'
  <2>1. db'.total = db.total BY <1>5 DEF Screen, ConfirmationsOf, TypeOK, SpendingLimit
  <2>2. \E label \in {"idle", "balance"} : pc' = [pc EXCEPT ![r] = label]
    BY <1>5, Zenon DEF Screen, ConfirmationsOf
  <2>3. \A q \in Requests \ {r} : snap'[q] = snap[q]
    BY <1>1, <1>5 DEF Screen, ConfirmationsOf
  <2>4. QED BY <1>2, <2>1, <2>2, <2>3, Zenon
<1>6. ASSUME NEW r \in Requests,
             \/ ReadBalance(r) \/ CheckFunds(r) \/ ReserveEscrowCost(r)
             \/ InferenceFails(r) \/ ProxyForgets(r) \/ InferenceSucceeds(r)
             \/ ReleaseEscrowCost(r)
      PROVE  \A q \in Requests : CopyOK(q)'
  BY <1>2, <1>6, Zenon
     DEF ReadBalance, CheckFunds, ReserveEscrowCost, InferenceFails, ProxyForgets,
         InferenceSucceeds, ReleaseEscrowCost
<1>7. ASSUME NEW r \in Requests, CheckAndDeductEscrow(r)
      PROVE  \A q \in Requests : CopyOK(q)'
  <2>1. PICK t \in Tokens, a \in TokensPerTknc \cup {0} : Deduct(r, t, a)
    BY <1>7 DEF CheckAndDeductEscrow
  <2>2. db'.total = db.total
    <3>1. \/ db' = db
          \/ /\ ~IsExhausted(db)
             /\ db' = Billed(UpdateConfirmedTransfers(db),
                             Charge(db, t, RatePerToken(db, a)))
      BY <2>1, Zenon DEF Deduct
    <3>2. QED BY <3>1, DeductRecord
  <2>3. \E label \in {"paying", "release"} : pc' = [pc EXCEPT ![r] = label]
    BY <2>1, Zenon DEF Deduct
  <2>4. snap' = snap BY <2>1 DEF Deduct
  <2>5. QED BY <1>2, <2>2, <2>3, <2>4, Zenon
<1>8. ASSUME NEW r \in Requests, Pay(r) PROVE \A q \in Requests : CopyOK(q)'
  <2>1. \E label \in {"release", "recording"} : pc' = [pc EXCEPT ![r] = label]
    BY <1>8 DEF Pay
  <2>2. QED BY <1>2, <1>8, <2>1, Zenon DEF Pay
<1>9. ASSUME NEW r \in Requests, RecordTransfer(r)
      PROVE  \A q \in Requests : CopyOK(q)'
  <2>1. db'.total = db.total BY <1>9 DEF RecordTransfer, TypeOK, SpendingLimit
  <2>2. QED BY <1>2, <1>9, <2>1, Zenon DEF RecordTransfer
<1>10. CASE Surroundings
  BY <1>3, <1>10, Zenon
     DEF Surroundings, ToggleLock, ToggleLoaded, Deposit, ConfirmTx,
         suspendescrow, closeescrow, Expire, TypeOK, SpendingLimit
<1>11. CASE Crash
  BY <1>11, Zenon DEF Crash, CopyOK
<1>12. CASE UNCHANGED vars
  BY <1>3, <1>12 DEF vars
<1>13. QED
  BY <1>4, <1>5, <1>6, <1>7, <1>8, <1>9, <1>10, <1>11, <1>12, Zenon
     DEF Next, Running, RequestStep, HandlerStep

------------------------------------------------------------------------------
(* The inductive invariant of the billing.                                   *)
THEOREM BillingCorrect == Spec => []BillingInv
<1>1. Init => BillingInv
  BY InitType, InitMoney, InitDebt DEF BillingInv
<1>2. BillingInv /\ [Next]_vars => BillingInv'
  BY NextType, NextMoney, NextDebt, NextCopy DEF BillingInv
<1>3. QED BY <1>1, <1>2, PTL DEF Spec

(* The wallet never sends the miner more than the whole TKNC consumed.       *)
THEOREM NeverOverpaysHolds == Spec => []NeverOverpays
<1>1. BillingInv => NeverOverpays BY DEF BillingInv, MoneyInv
<1>2. QED BY <1>1, BillingCorrect, PTL

(* What the record says was transferred was sent, and without a crash        *)
(* everything sent is recorded once the critical section is left.            *)
THEOREM TransfersAccountedHolds == Spec => []TransfersAccounted
<1>1. BillingInv => TransfersAccounted BY DEF BillingInv, MoneyInv
<1>2. QED BY <1>1, BillingCorrect, PTL

(* A prepaid record is never billed beyond its total.                        *)
THEOREM PrepaidLimitHolds == Spec => []PrepaidLimit
<1>1. BillingInv => PrepaidLimit BY DEF BillingInv, MoneyInv
<1>2. QED BY <1>1, BillingCorrect, PTL

(* Unpaid pay-as-you-go debt stays below two TKNC plus one cost for each     *)
(* request that can be in flight.                                            *)
THEOREM DebtBoundHolds == Spec => []DebtBound
<1>1. BillingInv => DebtBound BY DEF BillingInv
<1>2. QED BY <1>1, BillingCorrect, PTL

------------------------------------------------------------------------------
(* When one request's reservation changes the sum changes by as much, and    *)
(* what is reserved covers what that request held.                           *)
LEMMA ReservationsChange ==
    ASSUME TypeOK, ReservationsCover, NEW r \in Requests, NEW c \in Nat,
           hold' = [hold EXCEPT ![r] = c]
    PROVE  /\ reserved >= hold[r]
           /\ SumFunctionOnSet(hold', Requests) <= reserved + c - hold[r]
<1> DEFINE h == hold'
<1>1. /\ \A q \in Requests : hold[q] \in Nat /\ hold[q] \in Int
      /\ h[r] = c /\ h[r] \in Int /\ \A q \in Requests \ {r} : h[q] = hold[q]
  BY DEF TypeOK
<1> HIDE DEF h
<1>2. /\ SumFunctionOnSet(hold, Requests) >= hold[r]
      /\ SumFunctionOnSet(hold, Requests) \in Nat
  BY <1>1, SumNat, RequestsAssumption
<1>3. SumFunctionOnSet(h, Requests) =
          SumFunctionOnSet(hold, Requests) + h[r] - hold[r]
  BY <1>1, SumChange, RequestsAssumption
<1>4. reserved \in Nat /\ reserved >= SumFunctionOnSet(hold, Requests)
  BY DEF TypeOK, ReservationsCover
<1>5. QED BY <1>1, <1>2, <1>3, <1>4 DEF h

(* No reservation is made or forgotten but by ReserveEscrowCost and          *)
(* ReleaseEscrowCost.                                                        *)
LEMMA ReservationsFrame ==
    ASSUME ReservationInv, UNCHANGED <<hold, reserved>>,
           \A r \in Requests :
               pc'[r] \in {"idle", "screen", "balance", "funds", "admitted"} =>
                   pc[r] \in {"idle", "screen", "balance", "funds", "admitted"}
    PROVE  ReservationInv'
BY DEF ReservationInv, ReservationsCover

(* All reservations are zero: at the start and after a crash.                *)
LEMMA NoReservations ==
    ASSUME NEW h, \A r \in Requests : h[r] = 0
    PROVE  SumFunctionOnSet(h, Requests) = 0
BY SumZero, RequestsAssumption

(* Every step keeps the reservations covered.                                *)
LEMMA NextReservations == TypeOK /\ ReservationInv /\ [Next]_vars => ReservationInv'
<1> SUFFICES ASSUME TypeOK, ReservationInv, [Next]_vars PROVE ReservationInv'
  OBVIOUS
<1> USE DEF chainVars, reqVars, histVars, unchangedByOwner, Goto
<1>0. pc \in [Requests -> PCs] BY DEF TypeOK
<1>1. ASSUME NEW r \in Requests,
             FindEscrow(r) \/ Screen(r) \/ ReadBalance(r) \/ CheckFunds(r)
      PROVE  ReservationInv'
  BY <1>0, <1>1, ReservationsFrame DEF FindEscrow, Screen, ReadBalance, CheckFunds
<1>2. ASSUME NEW r \in Requests, ReserveEscrowCost(r) PROVE ReservationInv'
  <2>1. PICK c \in Nat : hold' = [hold EXCEPT ![r] = c] /\ reserved' = reserved + c
    BY <1>2, AmountAssumption, Zenon DEF ReserveEscrowCost
  <2>2. hold[r] = 0 /\ pc' = [pc EXCEPT ![r] = "serving"]
    BY <1>2 DEF ReserveEscrowCost, ReservationInv
  <2>3. SumFunctionOnSet(hold', Requests) <= reserved + c - hold[r]
    BY <2>1, ReservationsChange, Zenon DEF ReservationInv
  <2>4. reserved \in Nat BY DEF TypeOK
  <2>5. ReservationsCover' BY <2>1, <2>2, <2>3, <2>4 DEF ReservationsCover
  <2>6. QED BY <1>0, <2>1, <2>2, <2>5 DEF ReservationInv, TypeOK
<1>3. ASSUME NEW r \in Requests, InferenceFails(r) \/ InferenceSucceeds(r)
      PROVE  ReservationInv'
  BY <1>0, <1>3, ReservationsFrame DEF InferenceFails, InferenceSucceeds
<1>4. ASSUME NEW r \in Requests, CheckAndDeductEscrow(r) PROVE ReservationInv'
  <2>1. /\ UNCHANGED <<hold, reserved>>
        /\ \/ pc' = [pc EXCEPT ![r] = "paying"]
           \/ pc' = [pc EXCEPT ![r] = "release"]
    BY <1>4, Zenon DEF CheckAndDeductEscrow, Deduct
  <2>2. QED BY <1>0, <2>1, ReservationsFrame
<1>5. ASSUME NEW r \in Requests, Pay(r) \/ RecordTransfer(r) PROVE ReservationInv'
  <2>1. /\ UNCHANGED <<hold, reserved>>
        /\ \/ pc' = [pc EXCEPT ![r] = "recording"]
           \/ pc' = [pc EXCEPT ![r] = "release"]
    BY <1>5 DEF Pay, RecordTransfer
  <2>2. QED BY <1>0, <2>1, ReservationsFrame
<1>6. ASSUME NEW r \in Requests, ReleaseEscrowCost(r) \/ ProxyForgets(r)
      PROVE  ReservationInv'
  <2>1. /\ hold' = [hold EXCEPT ![r] = 0] /\ pc' = [pc EXCEPT ![r] = "idle"]
        /\ \/ reserved' = IF reserved >= hold[r] THEN reserved - hold[r] ELSE 0
           \/ reserved' = reserved
    BY <1>6 DEF ReleaseEscrowCost, ProxyForgets
  <2> DEFINE none == 0
  <2>2. none \in Nat /\ hold' = [hold EXCEPT ![r] = none] BY <2>1
  <2> HIDE DEF none
  <2>3. /\ reserved >= hold[r]
        /\ SumFunctionOnSet(hold', Requests) <= reserved + none - hold[r]
    BY <2>2, ReservationsChange, Zenon DEF ReservationInv
  <2>4. /\ reserved \in Nat /\ hold[r] \in Nat
        /\ SumFunctionOnSet(hold', Requests) \in Nat
    <3>1. \A q \in Requests : hold'[q] \in Nat BY <2>1 DEF TypeOK
    <3> DEFINE h == hold'
    <3>2. \A q \in Requests : h[q] \in Nat BY <3>1
    <3> HIDE DEF h
    <3>3. SumFunctionOnSet(h, Requests) \in Nat BY <3>2, SumNat, RequestsAssumption
    <3>4. QED BY <3>3 DEF TypeOK, h
  <2>5. ReservationsCover'
    BY <2>1, <2>3, <2>4 DEF ReservationsCover, none
  <2>6. QED BY <1>0, <2>1, <2>5 DEF ReservationInv, TypeOK
<1>7. ASSUME Surroundings PROVE ReservationInv'
  BY <1>7, ReservationsFrame
     DEF Surroundings, ToggleLock, ToggleLoaded, Deposit, ConfirmTx,
         suspendescrow, closeescrow, Expire
<1>8. ASSUME Crash PROVE ReservationInv'
  <2>1. reserved' = 0 /\ \A r \in Requests : hold'[r] = 0
    BY <1>8 DEF Crash
  <2>2. SumFunctionOnSet(hold', Requests) = 0 BY <2>1, NoReservations
  <2>3. QED BY <2>1, <2>2 DEF ReservationInv, ReservationsCover
<1>9. ASSUME UNCHANGED vars PROVE ReservationInv'
  BY <1>9, ReservationsFrame DEF vars
<1>10. QED
  BY <1>1, <1>2, <1>3, <1>4, <1>5, <1>6, <1>7, <1>8, <1>9
     DEF Next, Running, RequestStep, HandlerStep

(* On any number of threads no release takes what another request reserved:  *)
(* g_pending_costs covers all that the requests in flight hold.              *)
THEOREM ReservationsCoverHolds == Spec => []ReservationsCover
<1>1. Init => ReservationInv
  <2>1. SUFFICES ASSUME Init PROVE ReservationInv OBVIOUS
  <2>2. reserved = 0 /\ \A r \in Requests : hold[r] = 0
    BY <2>1 DEF Init
  <2>3. SumFunctionOnSet(hold, Requests) = 0
    BY <2>2, NoReservations
  <2>4. QED BY <2>2, <2>3 DEF ReservationInv, ReservationsCover
<1>2. ReservationInv => ReservationsCover BY DEF ReservationInv
<1>3. QED BY <1>1, <1>2, NextReservations, TypeCorrect, PTL DEF Spec
------------------------------------------------------------------------------
(* How many requests have passed the balance check and not reserved.        *)
LEMMA AdmittedCount ==
    /\ Cardinality(Requests) \in Nat
    /\ IsFiniteSet(Admitted) /\ Cardinality(Admitted) \in Nat
    /\ IsFiniteSet(Admitted') /\ Cardinality(Admitted') \in Nat
    /\ Cardinality(Admitted') <= Cardinality(Requests)
<1>1. Admitted \subseteq Requests /\ Admitted' \subseteq Requests BY DEF Admitted
<1>2. QED BY <1>1, RequestsAssumption, FS_Subset, FS_CardinalityType

(* Products with the largest reservation are ordered as their factors.       *)
LEMMA ReservationProducts ==
    ASSUME NEW m \in Nat, NEW n \in Nat, m <= n
    PROVE  /\ MaxReservation * m <= MaxReservation * n
           /\ MaxReservation * m \in Nat /\ MaxReservation * n \in Nat
<1>1. MaxReservation \in Nat BY AmountAssumption
<1>2. QED BY <1>1, ProductGrows

(* Nobody new has passed the check and nothing more is reserved.             *)
LEMMA OverbookingFrame ==
    ASSUME TypeOK, OverbookingBound, Admitted' \subseteq Admitted,
           reserved' \in Nat, reserved' <= reserved,
           deposited' \in Nat, deposited' >= deposited
    PROVE  OverbookingBound'
<1> DEFINE n == Cardinality(Admitted)
           m == Cardinality(Admitted')
           N == MaxReservation * Cardinality(Requests)
<1>1. n \in Nat /\ m \in Nat /\ m <= n
  BY AdmittedCount, FS_Subset, FS_CardinalityType
<1>2. N \in Nat
  BY AdmittedCount, AmountAssumption
<1>3. reserved + MaxReservation * n <= deposited + N
  BY DEF OverbookingBound
<1>4. reserved \in Nat /\ deposited \in Nat BY DEF TypeOK
<1> HIDE DEF n, m, N
<1>5. MaxReservation * m <= MaxReservation * n
      /\ MaxReservation * m \in Nat /\ MaxReservation * n \in Nat
  BY <1>1, ReservationProducts
<1>6. reserved' + MaxReservation * m <= deposited' + N
  BY <1>2, <1>3, <1>4, <1>5
<1>7. QED BY <1>6 DEF OverbookingBound, m, N

(* The request that passes the balance check finds less reserved than money  *)
(* has arrived, whoever else passed before.                                  *)
LEMMA CheckFundsBooks ==
    ASSUME TypeOK, OverbookingInv, NEW r \in Requests, CheckFunds(r)
    PROVE  OverbookingBound'
<1> USE DEF Goto, histVars
<1>1. pc \in [Requests -> PCs] BY DEF TypeOK
<1>2. reserved' = reserved /\ deposited' = deposited
  BY DEF CheckFunds
<1>3. reserved \in Nat /\ deposited \in Nat /\ funds[r] \in Nat
  BY DEF TypeOK
<1>4. CASE reserved > 0 /\ funds[r] <= reserved
  <2>1. pc' = [pc EXCEPT ![r] = "idle"] BY <1>4 DEF CheckFunds
  <2>2. Admitted' \subseteq Admitted BY <1>1, <2>1 DEF Admitted
  <2>3. QED BY <1>2, <1>3, <2>2, OverbookingFrame DEF OverbookingInv
<1>5. CASE ~(reserved > 0 /\ funds[r] <= reserved)
  <2> DEFINE m == Cardinality(Admitted')
             N == Cardinality(Requests)
  <2>1. m \in Nat /\ N \in Nat /\ m <= N BY AdmittedCount
  <2>2. reserved <= deposited
    BY <1>3, <1>5 DEF OverbookingInv
  <2> HIDE DEF m, N
  <2>3. MaxReservation * m <= MaxReservation * N
        /\ MaxReservation * m \in Nat /\ MaxReservation * N \in Nat
    BY <2>1, ReservationProducts
  <2>4. QED BY <1>2, <1>3, <2>2, <2>3 DEF OverbookingBound, m, N
<1>6. QED BY <1>4, <1>5

(* The reservation is what the request was counted with while admitted.      *)
LEMMA ReserveBooks ==
    ASSUME TypeOK, OverbookingInv, NEW r \in Requests, ReserveEscrowCost(r)
    PROVE  OverbookingBound'
<1> USE DEF Goto, histVars
<1>1. pc \in [Requests -> PCs] BY DEF TypeOK
<1>2. PICK c \in Nat : reserved' = reserved + c /\ c <= MaxReservation
  <2>1. PICK c \in IF r \in Unreserving THEN {0} ELSE Reservations :
            reserved' = reserved + c
    BY Zenon DEF ReserveEscrowCost
  <2>2. c \in Nat /\ c <= MaxReservation
    BY <2>1, AmountAssumption
  <2>3. QED BY <2>1, <2>2
<1>3. pc[r] = "admitted" /\ pc' = [pc EXCEPT ![r] = "serving"] /\ deposited' = deposited
  BY DEF ReserveEscrowCost
<1>4. r \in Admitted /\ Admitted' = Admitted \ {r}
  BY <1>1, <1>3 DEF Admitted
<1> DEFINE m == Cardinality(Admitted')
           n == Cardinality(Admitted)
           N == MaxReservation * Cardinality(Requests)
<1>5. m \in Nat /\ n \in Nat /\ n = m + 1
  BY <1>4, AdmittedCount, FS_RemoveElement
<1>6. N \in Nat /\ MaxReservation \in Nat
  BY AdmittedCount, AmountAssumption
<1>7. reserved + MaxReservation * n <= deposited + N
  BY DEF OverbookingInv, OverbookingBound
<1>8. reserved \in Nat /\ deposited \in Nat BY DEF TypeOK
<1> HIDE DEF m, n, N
<1>9. MaxReservation * n = MaxReservation * m + MaxReservation
      /\ MaxReservation * m \in Nat
  BY <1>5, <1>6
<1>10. reserved' + MaxReservation * m <= deposited' + N
  BY <1>2, <1>3, <1>6, <1>7, <1>8, <1>9
<1>11. QED BY <1>10 DEF OverbookingBound, m, N

(* Every step keeps the bound on the reservations: one case per action.      *)
LEMMA NextOverbooking == TypeOK /\ OverbookingInv /\ [Next]_vars => OverbookingInv'
<1> SUFFICES ASSUME TypeOK, OverbookingInv, [Next]_vars PROVE OverbookingInv'
  OBVIOUS
<1> USE DEF chainVars, reqVars, histVars, unchangedByOwner, Goto
<1>0. /\ pc \in [Requests -> PCs] /\ funds \in [Requests -> Nat]
      /\ reserved \in Nat /\ deposited \in Nat /\ wallet.balance \in Nat
      /\ wallet.balance <= deposited
      /\ \A r \in Requests : funds[r] <= deposited
  BY DEF TypeOK, OverbookingInv
<1>1. ASSUME UNCHANGED <<reserved, deposited, wallet, funds>>, Admitted' \subseteq Admitted
      PROVE  OverbookingInv'
  BY <1>0, <1>1, OverbookingFrame DEF OverbookingInv
<1>2. ASSUME NEW r \in Requests, NEW l, pc' = [pc EXCEPT ![r] = l], l # "admitted"
      PROVE  Admitted' \subseteq Admitted
  BY <1>0, <1>2 DEF Admitted
<1>3. ASSUME NEW r \in Requests,
             \/ FindEscrow(r) \/ Screen(r) \/ InferenceFails(r) \/ ProxyForgets(r)
             \/ InferenceSucceeds(r) \/ CheckAndDeductEscrow(r) \/ RecordTransfer(r)
      PROVE  OverbookingInv'
  <2>1. UNCHANGED <<reserved, deposited, wallet, funds>>
    BY <1>3 DEF FindEscrow, Screen, InferenceFails, ProxyForgets, InferenceSucceeds,
                CheckAndDeductEscrow, Deduct, RecordTransfer
  <2>2. \E l \in PCs \ {"admitted"} : pc' = [pc EXCEPT ![r] = l]
    BY <1>3, Zenon
       DEF FindEscrow, Screen, InferenceFails, ProxyForgets, InferenceSucceeds,
           CheckAndDeductEscrow, Deduct, RecordTransfer, PCs
  <2>3. QED BY <1>1, <1>2, <2>1, <2>2
<1>4. ASSUME NEW r \in Requests, ReadBalance(r) PROVE OverbookingInv'
  <2>1. /\ UNCHANGED <<reserved, deposited, wallet>>
        /\ funds' = [funds EXCEPT ![r] = wallet.balance] \/ funds' = funds
        /\ \E l \in {"funds", "idle"} : pc' = [pc EXCEPT ![r] = l]
    BY <1>4 DEF ReadBalance
  <2>2. Admitted' \subseteq Admitted BY <1>2, <2>1
  <2>3. \A q \in Requests : funds'[q] <= deposited' BY <1>0, <2>1
  <2>4. QED BY <1>0, <2>1, <2>2, <2>3, OverbookingFrame DEF OverbookingInv
<1>5. ASSUME NEW r \in Requests, CheckFunds(r) \/ ReserveEscrowCost(r)
      PROVE  OverbookingInv'
  <2>1. /\ UNCHANGED <<deposited, wallet>>
        /\ funds' = [funds EXCEPT ![r] = 0] \/ funds' = funds
    BY <1>5 DEF CheckFunds, ReserveEscrowCost
  <2>2. \A q \in Requests : funds'[q] <= deposited' BY <1>0, <2>1
  <2>3. QED BY <1>0, <1>5, <2>1, <2>2, CheckFundsBooks, ReserveBooks DEF OverbookingInv
<1>6. ASSUME NEW r \in Requests, Pay(r) PROVE OverbookingInv'
  <2>1. /\ UNCHANGED <<reserved, deposited, funds>>
        /\ \E l \in {"release", "recording"} : pc' = [pc EXCEPT ![r] = l]
    BY <1>6 DEF Pay
  <2>2. wallet'.balance <= deposited'
    <3>1. PICK sent \in IF wallet.loaded /\ ~wallet.locked
                        THEN Transfers(due[r]) ELSE {0} :
            IF sent = 0 THEN UNCHANGED wallet
            ELSE wallet' = [wallet EXCEPT !.balance =
                               IF sent = @ THEN 0 ELSE @ - sent - Fee]
      BY <1>6, Zenon DEF Pay
    <3>2. wallet \in [loaded : BOOLEAN, locked : BOOLEAN, balance : Nat] /\ due[r] \in Nat
      BY DEF TypeOK
    <3>3. sent \in Nat /\ Fee \in Nat
      BY <3>2, TransferBounds, AmountAssumption
    <3>4. QED BY <1>0, <2>1, <3>1, <3>2, <3>3
  <2>3. Admitted' \subseteq Admitted BY <1>2, <2>1
  <2>4. QED BY <1>0, <2>1, <2>2, <2>3, OverbookingFrame DEF OverbookingInv
<1>7. ASSUME NEW r \in Requests, ReleaseEscrowCost(r) PROVE OverbookingInv'
  <2>1. /\ UNCHANGED <<deposited, funds, wallet>> /\ pc' = [pc EXCEPT ![r] = "idle"]
        /\ reserved' = IF reserved >= hold[r] THEN reserved - hold[r] ELSE 0
    BY <1>7 DEF ReleaseEscrowCost
  <2>2. reserved' \in Nat /\ reserved' <= reserved
    BY <1>0, <2>1 DEF TypeOK
  <2>3. Admitted' \subseteq Admitted BY <1>2, <2>1
  <2>4. QED BY <1>0, <2>1, <2>2, <2>3, OverbookingFrame DEF OverbookingInv
<1>8. ASSUME Deposit PROVE OverbookingInv'
  <2>1. PICK d \in Nat : /\ deposited' = deposited + d
                         /\ wallet' = [wallet EXCEPT !.balance = @ + d]
    BY <1>8, AmountAssumption DEF Deposit
  <2>2. UNCHANGED <<reserved, funds, pc>> BY <1>8 DEF Deposit
  <2>3. Admitted' = Admitted BY <2>2 DEF Admitted
  <2>4. wallet'.balance = wallet.balance + d BY <2>1 DEF TypeOK
  <2>5. /\ wallet'.balance <= deposited' /\ deposited' \in Nat /\ deposited' >= deposited
        /\ \A q \in Requests : funds'[q] <= deposited'
    BY <1>0, <2>1, <2>2, <2>4
  <2>6. QED BY <1>0, <2>2, <2>3, <2>5, OverbookingFrame DEF OverbookingInv
<1>9. ASSUME ToggleLock \/ ToggleLoaded PROVE OverbookingInv'
  <2>1. UNCHANGED <<reserved, deposited, funds, pc>> /\ wallet'.balance = wallet.balance
    BY <1>9 DEF ToggleLock, ToggleLoaded, TypeOK
  <2>2. Admitted' = Admitted BY <2>1 DEF Admitted
  <2>3. QED BY <1>0, <2>1, <2>2, OverbookingFrame DEF OverbookingInv
<1>10. ASSUME ConfirmTx \/ suspendescrow \/ closeescrow \/ Expire PROVE OverbookingInv'
  <2>1. UNCHANGED <<reserved, deposited, wallet, funds, pc>>
    BY <1>10 DEF ConfirmTx, suspendescrow, closeescrow, Expire
  <2>2. QED BY <1>1, <2>1 DEF Admitted
<1>11. ASSUME Crash PROVE OverbookingInv'
  <2>1. /\ reserved' = 0 /\ UNCHANGED <<deposited, wallet>>
        /\ \A q \in Requests : pc'[q] = "idle" /\ funds'[q] = 0
    BY <1>11 DEF Crash
  <2>2. Admitted' \subseteq Admitted BY <2>1 DEF Admitted
  <2>3. QED BY <1>0, <2>1, <2>2, OverbookingFrame DEF OverbookingInv
<1>12. ASSUME UNCHANGED vars PROVE OverbookingInv'
  BY <1>1, <1>12 DEF vars, Admitted
<1>13. QED
  BY <1>3, <1>4, <1>5, <1>6, <1>7, <1>8, <1>9, <1>10, <1>11, <1>12
     DEF Next, Running, RequestStep, HandlerStep, Surroundings

(* Though the balance check and the reservation are two steps, on any number *)
(* of threads what is reserved stays within the money that arrived and one   *)
(* reservation for each request that can be in flight.                       *)
THEOREM OverbookingBoundHolds == Spec => []OverbookingBound
<1>1. Init => OverbookingInv
  <2>1. SUFFICES ASSUME Init PROVE OverbookingInv OBVIOUS
  <2>2. /\ reserved = 0 /\ deposited = 0 /\ wallet.balance = 0
        /\ \A r \in Requests : funds[r] = 0 /\ pc[r] = "idle"
    BY <2>1 DEF Init
  <2>3. Admitted = {} BY <2>2 DEF Admitted
  <2>4. Cardinality(Admitted) = 0 BY <2>3, FS_EmptySet
  <2>5. MaxReservation * Cardinality(Requests) \in Nat /\ MaxReservation * 0 = 0
    BY AdmittedCount, AmountAssumption
  <2>6. QED BY <2>2, <2>4, <2>5 DEF OverbookingInv, OverbookingBound
<1>2. OverbookingInv => OverbookingBound BY DEF OverbookingInv
<1>3. QED BY <1>1, <1>2, NextOverbooking, TypeCorrect, PTL DEF Spec
=============================================================================
