----------------------- MODULE SpendingAccountProofs -----------------------
(***************************************************************************)
(* The billing of EscrowBilling implements the account of SpendingAccount, *)
(* for any number of requests, any COIN, any costs and any crashes; and    *)
(* what tknc_setinferproxytarget (EscrowReconfigure) can do to its record. *)
(***************************************************************************)
EXTENDS EscrowReconfigure, EscrowBillingProofs

(* The fields of the record that the account is made of.                     *)
SameAccount ==
    /\ db'.total = db.total /\ db'.consumed = db.consumed
    /\ db'.used = db.used /\ db'.quota = db.quota

(* A step that bills and pays nothing leaves the account as it is, or        *)
(* closes it.                                                                *)
LEMMA AccountFrame ==
    ASSUME SameAccount, paid' = paid, Open' => Open
    PROVE  [Account!Next]_Account!vars
<1>1. Open \in BOOLEAN /\ Open' \in BOOLEAN BY DEF Open
<1>2. CASE Open /\ ~Open'
  BY <1>1, <1>2 DEF SameAccount, Account!Next, Account!Close
<1>3. CASE Open' = Open
  BY <1>3 DEF SameAccount, Account!vars
<1>4. QED BY <1>1, <1>2, <1>3

(* The record stays open only if it was, when its state and the clock do     *)
(* not move.                                                                 *)
LEMMA OpenFrame ==
    ASSUME SameAccount, db'.state = db.state, expired' = expired
    PROVE  Open' => Open
BY DEF SameAccount, Open, Billable, IsExhausted

(* An inference that is billed costs at least one satoshi.                   *)
LEMMA ChargePositive ==
    ASSUME NEW e, e.total \in Nat, e.consumed \in Nat, ~IsExhausted(e),
           NEW t \in Tokens, NEW rate \in 1..Coin
    PROVE  Charge(e, t, rate).cost > 0
<1>1. t * rate \in Int /\ Int64Max > 0
  BY AmountAssumption, CoinAssumption
<1>2. GetRemainingLimit(e) > 0 /\ GetRemainingLimit(e) \in Int
  BY <1>1, AmountAssumption DEF GetRemainingLimit, IsExhausted
<1>3. QED BY <1>1, <1>2 DEF Charge

(* The first write of CheckAndDeductEscrow bills the account.                *)
LEMMA DeductBills ==
    ASSUME BillingInv, NEW r \in Requests, CheckAndDeductEscrow(r)
    PROVE  [Account!Next]_Account!vars
<1>1. PICK t \in Tokens, a \in TokensPerTknc \cup {0} : Deduct(r, t, a)
  BY DEF CheckAndDeductEscrow
<1> DEFINE rate == RatePerToken(db, a)
           ok == /\ Billable(db) /\ ~IsExhausted(db) /\ ~expired
                 /\ t <= Int64Max \div rate
           c == Charge(db, t, rate)
           e == Billed(UpdateConfirmedTransfers(db), c)
<1>2. /\ db' = IF ok THEN e ELSE db
      /\ paid' = paid /\ expired' = expired
  BY <1>1 DEF Deduct
<1>3. TypeOK BY DEF BillingInv
<1>4. db.total \in Nat /\ db.consumed \in Nat /\ db.rate \in Nat /\ db.rate <= Coin
  BY <1>3, CoinAssumption DEF TypeOK, SpendingLimit
<1>5. CASE ok
  <2>1. /\ c.cost \in Nat /\ c.cost <= MaxCost
        /\ e.consumed = db.consumed + c.cost /\ e.total = db.total
        /\ db.total > 0 => e.consumed <= db.total
    BY <1>3, <1>5, DeductRecord
  <2>2. c.cost > 0
    BY <1>4, <1>5, RateBounds, ChargePositive
  <2>3. Open BY <1>5 DEF Open
  <2>4. Open' \in BOOLEAN BY DEF Open
  <2>5. MaxCost \in Nat BY AmountAssumption
  <2> HIDE DEF c, e, ok
  <2>6. db' = e BY <1>2, <1>5
  <2>7. c.cost \in 1..MaxCost /\ db'.consumed = db.consumed + c.cost
    BY <2>1, <2>2, <2>5, <2>6
  <2>8. Account!Bill
    BY <1>2, <2>1, <2>3, <2>4, <2>6, <2>7, Zenon DEF Account!Bill
  <2>9. QED BY <2>8 DEF Account!Next
<1>6. CASE ~ok
  <2>1. db' = db BY <1>2, <1>6
  <2>2. SameAccount BY <2>1 DEF SameAccount
  <2>3. QED BY <1>2, <2>1, <2>2, OpenFrame, AccountFrame
<1>7. QED BY <1>5, <1>6

(* The transfer of CheckAndDeductEscrow pays the account.                    *)
LEMMA PayPays ==
    ASSUME BillingInv, BillingInv', NEW r \in Requests, Pay(r)
    PROVE  [Account!Next]_Account!vars
<1>1. PICK sent \in (IF wallet.loaded /\ ~wallet.locked THEN Transfers(due[r])
                                                        ELSE {0}) :
          /\ sent = 0 => paid' = paid
          /\ sent # 0 => paid' = paid + sent
  BY DEF Pay
<1>2. db' = db /\ expired' = expired BY DEF Pay
<1>3. wallet.balance \in Nat /\ due[r] \in Nat /\ paid \in Nat
  BY DEF BillingInv, TypeOK
<1>4. sent \in Nat BY <1>1, <1>3, TransferBounds
<1>5. SameAccount /\ Open' = Open
  BY <1>2 DEF SameAccount, Open, Billable, IsExhausted
<1>6. CASE sent = 0
  BY <1>1, <1>5, <1>6, AccountFrame
<1>7. CASE sent # 0
  <2>1. paid' > paid BY <1>1, <1>3, <1>4, <1>7
  <2>2. paid' <= Coin * (db.consumed \div Coin)
    BY <1>2 DEF BillingInv, MoneyInv, NeverOverpays
  <2>3. QED BY <1>5, <2>1, <2>2 DEF SameAccount, Account!Next, Account!Pay
<1>8. QED BY <1>6, <1>7

(* Every step of the threads, the user, the chain and a crash is a step of   *)
(* the account, or none.                                                     *)
LEMMA StepSimulation ==
    BillingInv /\ BillingInv' /\ [Next]_vars => [Account!Next]_Account!vars
<1> SUFFICES ASSUME BillingInv, BillingInv', [Next]_vars
             PROVE  [Account!Next]_Account!vars
  OBVIOUS
<1>1. ASSUME db' = db, expired' = expired, paid' = paid
      PROVE  [Account!Next]_Account!vars
  BY <1>1, OpenFrame, AccountFrame DEF SameAccount
<1>2. db \in SpendingLimit BY DEF BillingInv, TypeOK
<1> USE DEF chainVars, reqVars, histVars, unchangedByOwner
<1>3. ASSUME NEW r \in Requests,
             \/ FindEscrow(r) \/ ReadBalance(r) \/ CheckFunds(r)
             \/ ReserveEscrowCost(r) \/ InferenceFails(r) \/ ProxyForgets(r)
             \/ InferenceSucceeds(r) \/ ReleaseEscrowCost(r)
      PROVE  [Account!Next]_Account!vars
  BY <1>1, <1>3
     DEF FindEscrow, ReadBalance, CheckFunds, ReserveEscrowCost, InferenceFails, ProxyForgets,
         InferenceSucceeds, ReleaseEscrowCost
<1>4. ASSUME NEW r \in Requests, Screen(r) PROVE [Account!Next]_Account!vars
  <2>1. SameAccount /\ db'.state = db.state
    BY <1>2, <1>4 DEF Screen, ConfirmationsOf, SameAccount, SpendingLimit
  <2>2. expired' = expired /\ paid' = paid BY <1>4 DEF Screen, ConfirmationsOf
  <2>3. QED BY <2>1, <2>2, OpenFrame, AccountFrame
<1>5. ASSUME NEW r \in Requests, RecordTransfer(r) PROVE [Account!Next]_Account!vars
  <2>1. SameAccount /\ db'.state = db.state
    BY <1>2, <1>5 DEF RecordTransfer, SameAccount, SpendingLimit
  <2>2. expired' = expired /\ paid' = paid BY <1>5 DEF RecordTransfer
  <2>3. QED BY <2>1, <2>2, OpenFrame, AccountFrame
<1>6. CASE ToggleLock \/ ToggleLoaded \/ Deposit \/ ConfirmTx
  BY <1>1, <1>6 DEF ToggleLock, ToggleLoaded, Deposit, ConfirmTx
<1>7. CASE suspendescrow \/ closeescrow
  <2>1. SameAccount /\ db'.state \in {"SUSPENDED", "CLOSED"} /\ paid' = paid
    BY <1>2, <1>7 DEF suspendescrow, closeescrow, SameAccount, SpendingLimit
  <2>2. ~Open' BY <2>1 DEF Open, Billable
  <2>3. QED BY <2>1, <2>2, AccountFrame
<1>8. CASE Expire
  <2>1. SameAccount /\ paid' = paid /\ ~Open'
    BY <1>8 DEF Expire, SameAccount, Open
  <2>2. QED BY <2>1, AccountFrame
<1>9. CASE Crash
  BY <1>1, <1>9 DEF Crash
<1>10. CASE UNCHANGED vars
  BY <1>1, <1>10 DEF vars
<1>11. QED
  BY <1>3, <1>4, <1>5, <1>6, <1>7, <1>8, <1>9, <1>10, DeductBills, PayPays, Zenon
     DEF Next, Running, RequestStep, HandlerStep, Surroundings

(* A new record is a new account.                                            *)
LEMMA InitSimulation == Init => Account!Init
<1> SUFFICES ASSUME Init PROVE Account!Init OBVIOUS
<1>1. db.total \in Totals /\ db.consumed = 0 /\ paid = 0
  BY DEF Init
<1>2. Open \in BOOLEAN BY DEF Open
<1>3. QED BY <1>1, <1>2 DEF Account!Init

(* The billing code with its threads, its copies of the record, its two      *)
(* writes and its crashes implements the account it promises.                *)
THEOREM BillingImplementsAccount == Spec => ImplementsAccount
<1>1. Spec => []BillingInv BY BillingCorrect
<1>2. QED BY <1>1, InitSimulation, StepSimulation, PTL
          DEF Spec, ImplementsAccount, Account!Spec
-----------------------------------------------------------------------------
(* A record that was just billed is exhausted only in state EXHAUSTED.       *)
LEMMA BilledMatches ==
    ASSUME NEW e, e \in SpendingLimit,
           NEW c, c.cost \in Nat, c.tokens \in Nat
    PROVE  Billable(Billed(e, c)) => ~IsExhausted(Billed(e, c))
<1> DEFINE consumed == e.consumed + c.cost
           used == e.used + c.tokens
           spent == [e EXCEPT !.consumed = consumed, !.used = used]
           state == IF IsExhausted(spent) THEN "EXHAUSTED" ELSE "ACTIVE"
           b == [spent EXCEPT !.state = state]
<1>1. b = Billed(e, c) BY DEF Billed
<1>2. consumed \in Nat /\ used \in Nat BY DEF SpendingLimit
<1> HIDE DEF consumed, used
<1>3. spent \in SpendingLimit BY <1>2, Zenon DEF SpendingLimit
<1> HIDE DEF spent
<1>4. /\ b.state = state /\ b.total = spent.total /\ b.consumed = spent.consumed
      /\ b.used = spent.used /\ b.quota = spent.quota
  <2> HIDE DEF state
  <2>1. QED BY <1>3 DEF SpendingLimit
<1> HIDE DEF b
<1>5. IsExhausted(b) = IsExhausted(spent) BY <1>4 DEF IsExhausted
<1>6. QED BY <1>1, <1>4, <1>5 DEF Billable

(* Nothing is consumed at first.                                             *)
LEMMA AdmissionInit == Init => AdmissionMatchesBilling
<1> SUFFICES ASSUME Init PROVE AdmissionMatchesBilling OBVIOUS
<1>1. db.total \in Nat /\ db.quota \in Nat BY InitType DEF TypeOK, SpendingLimit
<1>2. db.consumed = 0 /\ db.used = 0 BY DEF Init
<1>3. QED BY <1>1, <1>2 DEF AdmissionMatchesBilling, IsExhausted

(* AdmissionMatchesBilling is inductive, relative to the types.              *)
LEMMA AdmissionNext ==
    TypeOK /\ AdmissionMatchesBilling /\ [Next]_vars => AdmissionMatchesBilling'
<1> SUFFICES ASSUME TypeOK, AdmissionMatchesBilling, [Next]_vars
    PROVE  AdmissionMatchesBilling'
  OBVIOUS
<1>1. ASSUME SameAccount, db'.state = db.state \/ db'.state \in {"SUSPENDED", "CLOSED"}
      PROVE  AdmissionMatchesBilling'
  BY <1>1 DEF SameAccount, AdmissionMatchesBilling, Billable, IsExhausted
<1>2. ASSUME db' = db PROVE AdmissionMatchesBilling'
  BY <1>1, <1>2 DEF SameAccount
<1>3. ASSUME NEW r \in Requests, Screen(r) PROVE AdmissionMatchesBilling'
  <2>1. SameAccount /\ db'.state = db.state
    BY <1>3 DEF Screen, ConfirmationsOf, TypeOK, SpendingLimit, SameAccount
  <2>2. QED BY <1>1, <2>1
<1>4. ASSUME NEW r \in Requests, RecordTransfer(r) PROVE AdmissionMatchesBilling'
  <2>1. SameAccount /\ db'.state = db.state
    BY <1>4 DEF RecordTransfer, TypeOK, SpendingLimit, SameAccount
  <2>2. QED BY <1>1, <2>1
<1>5. ASSUME NEW r \in Requests, CheckAndDeductEscrow(r) PROVE AdmissionMatchesBilling'
  <2>1. PICK t \in Tokens, a \in TokensPerTknc \cup {0} : Deduct(r, t, a)
    BY <1>5 DEF CheckAndDeductEscrow
  <2> DEFINE rate == RatePerToken(db, a)
             c == Charge(db, t, rate)
             u == UpdateConfirmedTransfers(db)
  <2>2. db' = db \/ (~IsExhausted(db) /\ db' = Billed(u, c))
    BY <2>1 DEF Deduct
  <2>3. CASE db' = db BY <1>2, <2>3
  <2>4. CASE ~IsExhausted(db) /\ db' = Billed(u, c)
    <3>1. /\ db \in SpendingLimit /\ db.total \in Nat
          /\ db.consumed \in Nat /\ db.rate \in Nat /\ db.rate <= Coin
      BY CoinAssumption DEF TypeOK, SpendingLimit
    <3>2. rate \in 1..Coin BY <3>1, RateBounds
    <3> HIDE DEF rate
    <3>3. c.cost \in Nat /\ c.tokens \in Nat BY <2>4, <3>1, <3>2, ChargeBounds
    <3>4. u \in SpendingLimit BY <3>1, UpdateKeeps
    <3> HIDE DEF c, u
    <3>5. Billable(Billed(u, c)) => ~IsExhausted(Billed(u, c))
      BY <3>3, <3>4, BilledMatches
    <3>6. QED BY <2>4, <3>5 DEF AdmissionMatchesBilling
  <2>5. QED BY <2>2, <2>3, <2>4
<1>6. ASSUME NEW r \in Requests, RequestStep(r) PROVE AdmissionMatchesBilling'
  <2>1. \/ Screen(r) \/ CheckAndDeductEscrow(r) \/ RecordTransfer(r) \/ db' = db
    BY <1>6 DEF RequestStep, HandlerStep, FindEscrow, ReadBalance, CheckFunds, ReserveEscrowCost,
                InferenceFails, ProxyForgets, InferenceSucceeds, Pay, ReleaseEscrowCost
  <2>2. QED BY <1>2, <1>3, <1>4, <1>5, <2>1
<1>7. CASE Surroundings
  <2>1. \/ db' = db
        \/ SameAccount /\ db'.state \in {"SUSPENDED", "CLOSED"}
    BY <1>7, Zenon DEF Surroundings, ToggleLock, ToggleLoaded, Deposit, ConfirmTx,
                suspendescrow, closeescrow, Expire, TypeOK, SpendingLimit, SameAccount
  <2>2. QED BY <1>1, <1>2, <2>1
<1>8. CASE Crash \/ UNCHANGED vars
  <2>1. db' = db BY <1>8 DEF Crash, vars
  <2>2. QED BY <1>2, <2>1
<1>9. QED BY <1>6, <1>7, <1>8 DEF Next, Running

(* A record the admission lets through is one the billing charges: the state *)
(* says EXHAUSTED as soon as the amounts do, in every interleaving.          *)
THEOREM AdmissionMatchesBillingHolds == Spec => []AdmissionMatchesBilling
<1>1. QED
  BY AdmissionInit, AdmissionNext, InitType, NextType, PTL DEF Spec


------------------------------------------------------------------------------
(* What a step of the billing may do to the amounts of the record: bill what *)
(* was served, never take one back.                                          *)
Grows ==
    /\ served' - served = db'.consumed - db.consumed
    /\ db.consumed <= db'.consumed /\ db.transferred <= db'.transferred

(* The first write of CheckAndDeductEscrow.                                  *)
LEMMA DeductGrows ==
    ASSUME TypeOK, NEW r \in Requests, CheckAndDeductEscrow(r)
    PROVE  Grows
<1>1. PICK t \in Tokens, a \in TokensPerTknc \cup {0} : Deduct(r, t, a)
  BY DEF CheckAndDeductEscrow
<1> DEFINE rate == RatePerToken(db, a)
           ok == /\ Billable(db) /\ ~IsExhausted(db) /\ ~expired
                 /\ t <= Int64Max \div rate
           c == Charge(db, t, rate)
           e == Billed(UpdateConfirmedTransfers(db), c)
<1>2. /\ db' = IF ok THEN e ELSE db
      /\ served' = IF ok THEN served + c.cost ELSE served
  BY <1>1 DEF Deduct
<1>3. /\ db \in SpendingLimit /\ db.consumed \in Nat /\ db.transferred \in Nat
      /\ served \in Nat
  BY DEF TypeOK, SpendingLimit
<1>4. CASE ~ok
  <2>1. db' = db /\ served' = served BY <1>2, <1>4
  <2>2. QED BY <1>3, <2>1 DEF Grows
<1>5. CASE ok
  <2>1. /\ c.cost \in Nat /\ e.consumed = db.consumed + c.cost
        /\ e.transferred = db.transferred
    BY <1>5, DeductRecord
  <2>2. db' = e /\ served' = served + c.cost BY <1>2, <1>5
  <2> HIDE DEF c, e
  <2>3. QED BY <1>3, <2>1, <2>2 DEF Grows
<1>6. QED BY <1>4, <1>5

(* The write of CanAffordInference: it takes two fields of its copy, none of *)
(* them an amount billed or sent.                                            *)
LEMMA ScreenGrows ==
    ASSUME TypeOK, NEW r \in Requests, Screen(r)
    PROVE  Grows
<1>1. /\ db \in SpendingLimit /\ db.consumed \in Nat /\ db.transferred \in Nat
      /\ served \in Nat
  BY Zenon DEF TypeOK, SpendingLimit
<1>2. /\ db'.consumed = db.consumed /\ db'.transferred = db.transferred
      /\ served' = served
  BY <1>1, Zenon DEF Screen, ConfirmationsOf, SpendingLimit, histVars
<1>3. QED BY <1>1, <1>2 DEF Grows

(* Every step of the billing.                                                *)
LEMMA BillingGrows ==
    ASSUME TypeOK, Running \/ Crash
    PROVE  Grows
<1> USE DEF chainVars, reqVars, histVars, unchangedByOwner
<1>0. /\ db \in SpendingLimit /\ db.consumed \in Nat /\ db.transferred \in Nat
      /\ db.confirmed \in Nat /\ served \in Nat
  BY DEF TypeOK, SpendingLimit
<1>1. ASSUME db' = db, served' = served PROVE Grows
  BY <1>0, <1>1 DEF Grows
<1>2. ASSUME NEW r \in Requests,
             \/ FindEscrow(r) \/ ReadBalance(r) \/ CheckFunds(r)
             \/ ReserveEscrowCost(r) \/ InferenceFails(r) \/ ProxyForgets(r) \/ InferenceSucceeds(r)
             \/ Pay(r) \/ ReleaseEscrowCost(r)
      PROVE  Grows
  BY <1>1, <1>2
     DEF FindEscrow, ReadBalance, CheckFunds, ReserveEscrowCost, InferenceFails, ProxyForgets,
         InferenceSucceeds, Pay, ReleaseEscrowCost
<1>3. ASSUME NEW r \in Requests, RecordTransfer(r) PROVE Grows
  <2>1. /\ db'.consumed = db.consumed /\ served' = served
        /\ db'.transferred = db.transferred + due[r]
    BY <1>0, <1>3 DEF RecordTransfer, SpendingLimit
  <2>2. due[r] \in Nat BY DEF TypeOK
  <2>3. QED BY <1>0, <2>1, <2>2 DEF Grows
<1>4. ASSUME Surroundings PROVE Grows
  <2>1. /\ db'.consumed = db.consumed /\ db'.transferred = db.transferred
        /\ served' = served
    BY <1>0, <1>4
       DEF Surroundings, ToggleLock, ToggleLoaded, Deposit, ConfirmTx,
           suspendescrow, closeescrow, Expire, SpendingLimit
  <2>2. QED BY <1>0, <2>1 DEF Grows
<1>5. ASSUME Crash PROVE Grows
  BY <1>1, <1>5 DEF Crash
<1>6. QED BY <1>2, <1>3, <1>4, <1>5, DeductGrows, ScreenGrows DEF Running, RequestStep, HandlerStep


(* The merge of two well-typed records, field by field.                      *)
LEMMA MergeRecord ==
    ASSUME NEW in \in SpendingLimit, NEW old \in SpendingLimit
    PROVE  LET m == Merge(in, old)
           IN  /\ m \in SpendingLimit /\ m.state = in.state
               /\ m.consumed >= old.consumed /\ m.transferred >= old.transferred
               /\ in.consumed <= old.consumed => m.consumed = old.consumed
<1> DEFINE t == Higher(in.transferred, old.transferred)
           c == Higher(in.consumed, old.consumed)
           k == Higher(in.confirmed, old.confirmed)
           p == IF in.pending # {} THEN in.pending ELSE old.pending
<1>1. /\ in.transferred \in Nat /\ in.consumed \in Nat /\ in.confirmed \in Nat
      /\ old.transferred \in Nat /\ old.consumed \in Nat /\ old.confirmed \in Nat
      /\ in.pending \in SUBSET Nat /\ old.pending \in SUBSET Nat /\ in.state \in States
  BY DEF SpendingLimit
<1>2. /\ t \in Nat /\ t >= old.transferred /\ c \in Nat /\ c >= old.consumed
      /\ k \in Nat /\ p \in SUBSET Nat
      /\ in.consumed <= old.consumed => c = old.consumed
  BY <1>1 DEF Higher
<1>3. Merge(in, old) = [old EXCEPT !.transferred = t, !.consumed = c, !.confirmed = k,
                                   !.pending = p, !.state = in.state]
  BY DEF Merge, SpendingLimit
<1> HIDE DEF t, c, k, p
<1>4. /\ Merge(in, old) \in SpendingLimit /\ Merge(in, old).state = in.state
      /\ Merge(in, old).transferred = t /\ Merge(in, old).consumed = c
  BY <1>1, <1>2, <1>3, Zenon DEF SpendingLimit
<1>5. QED BY <1>2, <1>4


(* The operator's copies and the record keep their types, on any threads.    *)
LEMMA NextOpType ==
    ASSUME TypeOK, OpTypeOK, [RNext]_allVars
    PROVE  TypeOK' /\ OpTypeOK'
<1>1. CASE Running /\ UNCHANGED opVars
  <2>1. Next BY <1>1 DEF Next
  <2>2. QED BY <1>1, <2>1, NextType DEF OpTypeOK, opVars
<1>2. CASE OpCrash
  <2>1. Next BY <1>2 DEF OpCrash, Next
  <2>2. QED BY <1>2, <2>1, NextType, DefaultType DEF OpTypeOK, OpCrash
<1>3. CASE OpFind
  <2>1. copy' \in SpendingLimit
    <3>1. PICK e \in {db, [db EXCEPT !.state = "CLOSED"]} : copy' = e
      BY <1>3 DEF OpFind
    <3>2. db \in SpendingLimit BY Zenon DEF TypeOK
    <3>3. QED BY <3>1, <3>2 DEF SpendingLimit, States
  <2>2. QED BY <1>3, <2>1 DEF OpFind, OpTypeOK, TypeOK, vars
<1>4. CASE OpRead
  BY <1>4, Zenon DEF OpRead, OpTypeOK, TypeOK, vars
<1>5. CASE OpWrite
  <2>1. Merge(copy, existing) \in SpendingLimit
    BY MergeRecord DEF OpTypeOK
  <2>2. db' \in SpendingLimit
    BY <1>5, <2>1, Zenon DEF OpWrite, TypeOK
  <2>3. QED BY <1>5, <2>2, DefaultType, Zenon
            DEF OpWrite, OpTypeOK, TypeOK, chainVars, reqVars, histVars
<1>6. CASE UNCHANGED allVars
  BY <1>6 DEF allVars, opVars, vars, OpTypeOK, TypeOK
<1>7. QED BY <1>1, <1>2, <1>3, <1>4, <1>5, <1>6, Zenon DEF RNext

(* Every step of the billing and of the operator keeps the copies in order.  *)
LEMMA NextReconfigure ==
    ASSUME ReconfigureInv, [RNext]_allVars
    PROVE  ReconfigureInv'
<1>0. /\ TypeOK /\ OpTypeOK /\ CopiesOrdered
      /\ db \in SpendingLimit /\ db.consumed \in Nat
      /\ copy.consumed \in Nat /\ existing.consumed \in Nat
  BY Zenon DEF ReconfigureInv, TypeOK, OpTypeOK, SpendingLimit
<1>1. TypeOK' /\ OpTypeOK' BY <1>0, NextOpType
<1> SUFFICES CopiesOrdered' BY <1>1 DEF ReconfigureInv
<1>2. CASE Running /\ UNCHANGED opVars
  <2>1. db.consumed <= db'.consumed BY <1>0, <1>2, BillingGrows DEF Grows
  <2>2. db'.consumed \in Nat BY <1>1, Zenon DEF TypeOK, SpendingLimit
  <2>3. QED BY <1>0, <1>2, <2>1, <2>2 DEF CopiesOrdered, opVars
<1>3. CASE OpCrash \/ OpWrite
  <2>1. opPc' = "idle" BY <1>3, Zenon DEF OpCrash, OpWrite
  <2>2. QED BY <2>1 DEF CopiesOrdered
<1>4. CASE OpFind
  <2>1. PICK e \in {db, [db EXCEPT !.state = "CLOSED"]} : copy' = e
    BY <1>4 DEF OpFind
  <2>2. copy'.consumed = db.consumed BY <1>0, <2>1, Zenon DEF SpendingLimit
  <2>3. opPc' = "found" /\ db' = db BY <1>4 DEF OpFind, vars
  <2>4. QED BY <1>0, <2>2, <2>3 DEF CopiesOrdered
<1>5. CASE OpRead
  BY <1>0, <1>5 DEF OpRead, CopiesOrdered
<1>6. CASE UNCHANGED allVars
  BY <1>0, <1>6 DEF allVars, opVars, vars, CopiesOrdered
<1>7. QED BY <1>2, <1>3, <1>4, <1>5, <1>6, Zenon DEF RNext

(* Every step but a raced write of the operator keeps the amounts.           *)
LEMMA ReconfigureStep ==
    ASSUME ReconfigureInv, RNext,
           served' - served # db'.consumed - db.consumed \/ db'.transferred < db.transferred
    PROVE  opPc = "read" /\ opPc' = "idle" /\ db # existing
<1>0. /\ TypeOK /\ OpTypeOK /\ CopiesOrdered
      /\ db.consumed \in Nat /\ db.transferred \in Nat /\ served \in Nat
  BY Zenon DEF ReconfigureInv, TypeOK, SpendingLimit
<1>1. db'.transferred \in Nat
  <2>1. TypeOK' BY <1>0, NextOpType
  <2>2. QED BY <2>1, Zenon DEF TypeOK, SpendingLimit
<1>2. ~Grows BY <1>0, <1>1 DEF Grows
<1>3. ~(Running \/ OpCrash) BY <1>0, <1>2, BillingGrows DEF OpCrash
<1>4. ASSUME db' = db, served' = served PROVE FALSE
  BY <1>0, <1>2, <1>4 DEF Grows
<1>5. ~(OpFind \/ OpRead) BY <1>4 DEF OpFind, OpRead, vars
<1>6. OpWrite BY <1>3, <1>5, Zenon DEF RNext
<1>7. opPc = "read" /\ opPc' = "idle" /\ served' = served
      /\ db' = (IF Merge(copy, existing) # existing THEN Merge(copy, existing) ELSE db)
  BY <1>6 DEF OpWrite, histVars
<1>8. ASSUME db = existing PROVE FALSE
  <2>1. copy.consumed <= existing.consumed BY <1>0, <1>7 DEF CopiesOrdered
  <2>2. /\ Merge(copy, existing).consumed = existing.consumed
        /\ Merge(copy, existing).transferred >= existing.transferred
    BY <1>0, <2>1, MergeRecord DEF OpTypeOK
  <2>3. db'.consumed = db.consumed /\ db'.transferred >= db.transferred
    BY <1>0, <1>7, <1>8, <2>2
  <2>4. QED BY <1>0, <1>2, <1>7, <2>3 DEF Grows
<1>9. QED BY <1>7, <1>8

(* The copies of tknc_setinferproxytarget are in order with the record, on   *)
(* any threads and through crashes.                                          *)
THEOREM ReconfigureCorrect == RSpec => []ReconfigureInv
<1>1. RInit => ReconfigureInv
  <2> SUFFICES ASSUME RInit PROVE ReconfigureInv OBVIOUS
  <2>1. TypeOK BY InitType DEF RInit
  <2>2. OpTypeOK BY DefaultType, Zenon DEF RInit, OpTypeOK
  <2>3. opPc = "idle" BY DEF RInit
  <2>4. QED BY <2>1, <2>2, <2>3 DEF ReconfigureInv, CopiesOrdered
<1>2. ReconfigureInv /\ [RNext]_allVars => ReconfigureInv' BY NextReconfigure
<1>3. QED BY <1>1, <1>2, PTL DEF RSpec

(* Amounts billed or sent are lost from the record only when somebody wrote  *)
(* between the unlocked read and the write of WriteSpendingLimitFromP2P, on  *)
(* any threads.                                                              *)
THEOREM LossNeedsRaceHolds == RSpec => LossNeedsRace
<1>1. RSpec => []ReconfigureInv BY ReconfigureCorrect
<1>2. ReconfigureInv /\ [RNext]_allVars =>
        [(served' - served # db'.consumed - db.consumed \/ db'.transferred < db.transferred)
            => opPc = "read" /\ opPc' = "idle" /\ db # existing]_allVars
  BY ReconfigureStep
<1>3. QED BY <1>1, <1>2, PTL DEF RSpec, LossNeedsRace

------------------------------------------------------------------------------
(* What a step of the billing does for the books: they stay right, nothing   *)
(* billed or sent is taken back, and the total stays.                        *)
BooksKept ==
    /\ SectionsOK' /\ Within(db)'
    /\ paid <= paid' /\ served <= served' /\ db'.total = db.total

(* A step that leaves the amounts and the critical section alone.            *)
LEMMA BooksFrame ==
    ASSUME TypeOK, SectionsOK, Within(db),
           db'.consumed = db.consumed, db'.transferred = db.transferred,
           db'.total = db.total, UNCHANGED <<mutex, due, served, paid>>,
           \A q \in Requests :
               \/ pc'[q] = pc[q]
               \/ /\ pc[q] \notin {"paying", "recording"}
                  /\ pc'[q] \notin {"paying", "recording"}
    PROVE  BooksKept
<1>1. SectionsOK' BY Zenon DEF SectionsOK
<1>2. Within(db)' BY DEF Within
<1>3. paid \in Nat /\ served \in Nat BY DEF TypeOK
<1>4. paid <= paid' /\ served <= served' BY <1>3
<1>5. QED BY <1>1, <1>2, <1>4, Zenon DEF BooksKept

(* A thread outside the critical section holds no mutex, and only one is in. *)
LEMMA OtherSections ==
    ASSUME SectionsOK, NEW r \in Requests, mutex = NoOne \/ mutex = r
    PROVE  \A q \in Requests \ {r} : pc[q] \notin {"paying", "recording"}
BY RequestsAssumption DEF SectionsOK

(* The first write of a billing: what it adds is billed.                     *)
LEMMA DeductBooks ==
    ASSUME TypeOK, SectionsOK, Within(db), NEW r \in Requests, CheckAndDeductEscrow(r)
    PROVE  BooksKept
<1>1. PICK t \in Tokens, a \in TokensPerTknc \cup {0} : Deduct(r, t, a)
  BY Zenon DEF CheckAndDeductEscrow
<1> DEFINE ok == /\ Billable(db) /\ ~IsExhausted(db) /\ ~expired
                 /\ t <= Int64Max \div RatePerToken(db, a)
           c == Charge(db, t, RatePerToken(db, a))
           e == Billed(UpdateConfirmedTransfers(db), c)
           pays == ok /\ CoinsCrossed(db.consumed, e.consumed) > 0 /\ db.miner
<1>2. /\ pc[r] = "billing" /\ mutex = NoOne
      /\ db' = IF ok THEN e ELSE db
      /\ served' = IF ok THEN served + c.cost ELSE served
      /\ mutex' = IF pays THEN r ELSE NoOne
      /\ pc' = [pc EXCEPT ![r] = IF pays THEN "paying" ELSE "release"]
      /\ paid' = paid
  BY <1>1 DEF Deduct, Goto
<1>3. /\ db.consumed \in Nat /\ db.transferred \in Nat /\ db.total \in Nat
      /\ paid \in Nat /\ served \in Nat
  BY DEF TypeOK, SpendingLimit
<1>4. DOMAIN pc = Requests BY ZenonT(30) DEF TypeOK
<1>5. ok => /\ c.cost \in Nat /\ e.consumed = db.consumed + c.cost
            /\ e.total = db.total /\ e.transferred = db.transferred
            /\ db.total > 0 => e.consumed <= db.total
  BY DeductRecord, Zenon
<1> HIDE DEF ok, c, e, pays
<1>6. /\ db'.transferred = db.transferred /\ db'.total = db.total
      /\ db'.consumed <= served' /\ served <= served'
      /\ db.total > 0 => db'.consumed <= db.total
  BY <1>2, <1>3, <1>5 DEF Within
<1>7. Within(db)' BY <1>2, <1>6 DEF Within
<1>8. SectionsOK'
  <2>1. \A q \in Requests \ {r} : pc'[q] = pc[q] /\ pc[q] \notin {"paying", "recording"}
    BY <1>2, <1>4, OtherSections
  <2>2. pc'[r] = IF pays THEN "paying" ELSE "release" BY <1>2, <1>4
  <2>3. QED BY <1>2, <2>1, <2>2, RequestsAssumption DEF SectionsOK
<1>9. QED BY <1>2, <1>3, <1>6, <1>7, <1>8 DEF BooksKept

(* The transfer: sent before it is recorded.                                 *)
LEMMA PayBooks ==
    ASSUME TypeOK, SectionsOK, Within(db), NEW r \in Requests, Pay(r)
    PROVE  BooksKept
<1>1. PICK sent \in (IF wallet.loaded /\ ~wallet.locked THEN Transfers(due[r])
                                                        ELSE {0}) :
          /\ due' = [due EXCEPT ![r] = sent]
          /\ sent = 0 => /\ mutex' = NoOne /\ paid' = paid
                         /\ pc' = [pc EXCEPT ![r] = "release"]
          /\ sent # 0 => /\ mutex' = mutex /\ paid' = paid + sent
                         /\ pc' = [pc EXCEPT ![r] = "recording"]
  BY Zenon DEF Pay, Goto
<1>2. pc[r] = "paying" /\ db' = db /\ served' = served BY DEF Pay
<1>3. /\ DOMAIN pc = Requests /\ DOMAIN due = Requests /\ due[r] \in Nat
      /\ paid \in Nat /\ served \in Nat /\ db.transferred \in Nat
      /\ wallet.balance \in Nat
  BY DEF TypeOK, SpendingLimit
<1>4. sent \in Nat BY <1>1, <1>3, TransferBounds
<1>5. mutex = r BY <1>2 DEF SectionsOK
<1>6. paid <= paid' /\ paid' \in Nat BY <1>1, <1>3, <1>4
<1>7. Within(db)' BY <1>2, <1>3, <1>6 DEF Within
<1>8. SectionsOK'
  <2>1. \A q \in Requests \ {r} : pc'[q] = pc[q] /\ pc[q] \notin {"paying", "recording"}
    BY <1>1, <1>3, <1>5, OtherSections
  <2>2. CASE sent = 0
    <3>1. pc'[r] = "release" /\ mutex' = NoOne BY <1>1, <1>3, <2>2
    <3>2. QED BY <2>1, <3>1, RequestsAssumption DEF SectionsOK
  <2>3. CASE sent # 0
    <3>1. pc'[r] = "recording" /\ mutex' = r /\ due'[r] = sent /\ paid' = paid + sent
      BY <1>1, <1>3, <1>5, <2>3
    <3>2. db'.transferred + due'[r] <= paid'
      BY <1>2, <1>3, <1>4, <3>1 DEF Within
    <3>3. QED BY <2>1, <3>1, <3>2 DEF SectionsOK
  <2>4. QED BY <2>2, <2>3
<1>9. QED BY <1>2, <1>3, <1>6, <1>7, <1>8 DEF BooksKept

(* The second write: it records what was sent.                               *)
LEMMA RecordBooks ==
    ASSUME TypeOK, SectionsOK, Within(db), NEW r \in Requests, RecordTransfer(r)
    PROVE  BooksKept
<1>1. /\ pc[r] = "recording" /\ mutex' = NoOne
      /\ pc' = [pc EXCEPT ![r] = "release"]
      /\ db'.transferred = db.transferred + due[r]
      /\ db'.consumed = db.consumed /\ db'.total = db.total
      /\ served' = served /\ paid' = paid
  BY DEF RecordTransfer, Goto, histVars, TypeOK, SpendingLimit
<1>2. DOMAIN pc = Requests /\ paid \in Nat /\ served \in Nat
  BY DEF TypeOK
<1>3. mutex = r /\ db.transferred + due[r] <= paid BY <1>1 DEF SectionsOK
<1>4. Within(db)' BY <1>1, <1>3 DEF Within
<1>5. SectionsOK'
  <2>1. \A q \in Requests : pc'[q] \notin {"paying", "recording"}
    BY <1>1, <1>2, <1>3, OtherSections
  <2>2. QED BY <1>1, <2>1, RequestsAssumption DEF SectionsOK
<1>6. QED BY <1>1, <1>2, <1>4, <1>5 DEF BooksKept

(* Every step of the billing keeps the books, crashes included.              *)
LEMMA BillingBooks ==
    ASSUME TypeOK, SectionsOK, Within(db), Running \/ Crash
    PROVE  BooksKept
<1> USE DEF chainVars, reqVars, histVars, unchangedByOwner, Goto
<1>1. pc \in [Requests -> PCs] /\ db \in SpendingLimit
  BY Zenon DEF TypeOK
<1>2. ASSUME NEW r \in Requests, NEW l, l \notin {"paying", "recording"},
             pc[r] \notin {"paying", "recording"}, pc' = [pc EXCEPT ![r] = l],
             db'.consumed = db.consumed, db'.transferred = db.transferred,
             db'.total = db.total, UNCHANGED <<mutex, due, served, paid>>
      PROVE  BooksKept
  <2>1. \A q \in Requests : \/ pc'[q] = pc[q]
                            \/ /\ pc[q] \notin {"paying", "recording"}
                               /\ pc'[q] \notin {"paying", "recording"}
    BY <1>1, <1>2
  <2>2. QED BY <1>2, <2>1, BooksFrame, Zenon
<1>3. ASSUME NEW r \in Requests,
             \/ FindEscrow(r) \/ ReadBalance(r) \/ CheckFunds(r)
             \/ ReserveEscrowCost(r) \/ InferenceFails(r) \/ ProxyForgets(r) \/ InferenceSucceeds(r)
             \/ ReleaseEscrowCost(r)
      PROVE  BooksKept
  <2>1. /\ db' = db /\ UNCHANGED <<mutex, due, served, paid>>
        /\ pc[r] \notin {"paying", "recording"}
        /\ \E l \in {"idle", "screen", "funds", "admitted", "serving", "release",
                     "billing"} : pc' = [pc EXCEPT ![r] = l]
    BY <1>3
       DEF FindEscrow, ReadBalance, CheckFunds, ReserveEscrowCost, InferenceFails, ProxyForgets,
           InferenceSucceeds, ReleaseEscrowCost
  <2>2. QED BY <1>2, <2>1, Zenon
<1>4. ASSUME NEW r \in Requests, Screen(r) PROVE BooksKept
  <2>1. /\ db'.consumed = db.consumed /\ db'.transferred = db.transferred
        /\ db'.total = db.total
    BY <1>1, <1>4 DEF Screen, ConfirmationsOf, SpendingLimit
  <2>2. /\ UNCHANGED <<mutex, due, served, paid>> /\ pc[r] = "screen"
        /\ \E l \in {"idle", "balance"} : pc' = [pc EXCEPT ![r] = l]
    BY <1>4, Zenon DEF Screen
  <2>3. QED BY <1>2, <2>1, <2>2, Zenon
<1>5. ASSUME Surroundings PROVE BooksKept
  <2>1. /\ db'.consumed = db.consumed /\ db'.transferred = db.transferred
        /\ db'.total = db.total /\ pc' = pc
        /\ UNCHANGED <<mutex, due, served, paid>>
    BY <1>1, <1>5, Zenon
       DEF Surroundings, ToggleLock, ToggleLoaded, Deposit, ConfirmTx,
           suspendescrow, closeescrow, Expire, SpendingLimit
  <2>2. QED BY <2>1, BooksFrame
<1>6. ASSUME Crash PROVE BooksKept
  <2>1. /\ db' = db /\ served' = served /\ paid' = paid /\ mutex' = NoOne
        /\ \A q \in Requests : pc'[q] = "idle"
    BY <1>6 DEF Crash
  <2>2. SectionsOK' BY <2>1, RequestsAssumption DEF SectionsOK
  <2>3. Within(db)' BY <2>1 DEF Within
  <2>4. paid \in Nat /\ served \in Nat BY DEF TypeOK
  <2>5. QED BY <2>1, <2>2, <2>3, <2>4 DEF BooksKept
<1>7. QED BY <1>3, <1>4, <1>5, <1>6, DeductBooks, PayBooks, RecordBooks, Zenon
          DEF Running, RequestStep, HandlerStep

(* The merge of two records of the past is no more than either was.          *)
LEMMA MergeWithin ==
    ASSUME NEW in \in SpendingLimit, NEW old \in SpendingLimit, Within(in), Within(old)
    PROVE  Merge(in, old) \in SpendingLimit /\ Within(Merge(in, old))
<1> DEFINE m == Merge(in, old)
<1>1. /\ m.transferred \in {in.transferred, old.transferred}
      /\ m.consumed \in {in.consumed, old.consumed} /\ m.total = old.total
  BY Zenon DEF Merge, Higher, SpendingLimit
<1>2. m \in SpendingLimit BY MergeRecord
<1> HIDE DEF m
<1>3. Within(m) BY <1>1 DEF Within
<1>4. QED BY <1>2, <1>3 DEF m

(* Every step of the billing and of the operator, on any threads.            *)
LEMMA NextBooks ==
    ASSUME BooksInv, [RNext]_allVars
    PROVE  BooksInv'
<1>0. /\ TypeOK /\ OpTypeOK /\ SectionsOK /\ Within(db)
      /\ paid \in Nat /\ served \in Nat
  BY Zenon DEF BooksInv, TypeOK
<1>1. TypeOK' /\ OpTypeOK' BY <1>0, NextOpType
<1>2. ASSUME NEW e \in SpendingLimit, Within(e), paid <= paid', served <= served',
             db'.total = db.total
      PROVE  e.transferred <= paid' /\ e.consumed <= served' /\ e.total = db'.total
  <2>1. e.transferred \in Nat /\ e.consumed \in Nat BY DEF SpendingLimit
  <2>2. paid' \in Nat /\ served' \in Nat BY <1>1 DEF TypeOK
  <2>3. QED BY <1>0, <1>2, <2>1, <2>2 DEF Within
<1>3. CASE Running /\ UNCHANGED opVars
  <2>1. BooksKept BY <1>0, <1>3, BillingBooks
  <2>2. opPc' = opPc /\ copy' = copy /\ existing' = existing BY <1>3 DEF opVars
  <2>3. copy \in SpendingLimit /\ existing \in SpendingLimit BY <1>0 DEF OpTypeOK
  <2>4. opPc # "idle" => Within(copy)'
    BY <1>2, <2>1, <2>2, <2>3 DEF BooksInv, BooksKept, Within
  <2>5. opPc = "read" => Within(existing)'
    BY <1>2, <2>1, <2>2, <2>3 DEF BooksInv, BooksKept, Within
  <2>6. QED BY <1>1, <2>1, <2>2, <2>4, <2>5 DEF BooksInv, BooksKept
<1>4. CASE OpCrash
  <2>1. BooksKept BY <1>0, <1>4, BillingBooks DEF OpCrash
  <2>2. opPc' = "idle" BY <1>4 DEF OpCrash
  <2>3. QED BY <1>1, <2>1, <2>2 DEF BooksInv, BooksKept
<1>5. ASSUME UNCHANGED vars PROVE SectionsOK' /\ Within(db)'
  BY <1>0, <1>5, Zenon DEF vars, SectionsOK, Within
<1>6. CASE OpFind
  <2>1. PICK e \in {db, [db EXCEPT !.state = "CLOSED"]} : copy' = e
    BY <1>6 DEF OpFind
  <2>2. UNCHANGED vars /\ opPc' = "found" BY <1>6 DEF OpFind
  <2>3. /\ copy'.transferred = db.transferred /\ copy'.consumed = db.consumed
        /\ copy'.total = db.total /\ db' = db /\ paid' = paid /\ served' = served
    BY <1>0, <2>1, <2>2, Zenon DEF TypeOK, SpendingLimit, vars
  <2>4. Within(copy)' BY <1>0, <2>3 DEF Within
  <2>5. QED BY <1>1, <1>5, <2>2, <2>4 DEF BooksInv
<1>7. CASE OpRead
  <2>1. /\ UNCHANGED vars /\ opPc = "found" /\ opPc' = "read" /\ existing' = db
        /\ copy' = copy
    BY <1>7 DEF OpRead
  <2>2. db' = db /\ paid' = paid /\ served' = served BY <2>1 DEF vars
  <2>3. Within(copy)' BY <2>1, <2>2 DEF BooksInv, Within
  <2>4. Within(existing)' BY <1>0, <2>1, <2>2 DEF Within
  <2>5. QED BY <1>1, <1>5, <2>1, <2>3, <2>4, Zenon DEF BooksInv
<1>8. CASE OpWrite
  <2>1. /\ opPc = "read" /\ opPc' = "idle"
        /\ UNCHANGED <<mutex, pc, due, paid, served>>
        /\ db' = db \/ (db' = Merge(copy, existing) /\ mutex = NoOne)
    BY <1>8 DEF OpWrite, reqVars, histVars
  <2>2. Within(Merge(copy, existing)) BY <1>0, <2>1, MergeWithin DEF BooksInv, OpTypeOK
  <2>3. CASE db' = db
    <3>1. SectionsOK' /\ Within(db)' BY <1>0, <2>1, <2>3, Zenon DEF SectionsOK, Within
    <3>2. QED BY <1>1, <2>1, <3>1 DEF BooksInv
  <2>4. CASE db' = Merge(copy, existing) /\ mutex = NoOne
    <3>1. \A r \in Requests : pc[r] \notin {"paying", "recording"}
      BY <1>0, <2>4, RequestsAssumption DEF SectionsOK
    <3>2. SectionsOK' BY <2>1, <2>4, <3>1, RequestsAssumption DEF SectionsOK
    <3>3. Within(db)' BY <2>1, <2>2, <2>4 DEF Within
    <3>4. QED BY <1>1, <2>1, <3>2, <3>3 DEF BooksInv
  <2>5. QED BY <2>1, <2>3, <2>4, Zenon
<1>9. CASE UNCHANGED allVars
  <2>1. UNCHANGED vars /\ opPc' = opPc /\ copy' = copy /\ existing' = existing
        /\ db' = db /\ paid' = paid /\ served' = served
    BY <1>9 DEF allVars, opVars, vars
  <2>2. (opPc # "idle" => Within(copy)') /\ (opPc = "read" => Within(existing)')
    BY <2>1 DEF BooksInv, Within
  <2>3. QED BY <1>1, <1>5, <2>1, <2>2 DEF BooksInv
<1>10. QED BY <1>3, <1>4, <1>6, <1>7, <1>8, <1>9, Zenon DEF RNext

(* Whatever the unlocked merge of WriteSpendingLimitFromP2P races with, on   *)
(* any threads and through crashes, the record claims no transfer that was   *)
(* not sent and no cost that was not billed, and keeps to a prepaid total.   *)
THEOREM MergeInventsNothingHolds == RSpec => []MergeInventsNothing
<1>1. RInit => BooksInv
  <2> SUFFICES ASSUME RInit PROVE BooksInv OBVIOUS
  <2>1. TypeOK /\ OpTypeOK BY InitType, DefaultType, Zenon DEF RInit, OpTypeOK
  <2>2. /\ db.consumed = 0 /\ db.transferred = 0 /\ paid = 0 /\ served = 0
        /\ mutex = NoOne /\ (\A r \in Requests : pc[r] = "idle") /\ opPc = "idle"
    BY DEF RInit, Init
  <2>3. db.total \in Nat BY <2>1 DEF TypeOK, SpendingLimit
  <2>4. SectionsOK BY <2>2, RequestsAssumption DEF SectionsOK
  <2>5. Within(db) BY <2>2, <2>3 DEF Within
  <2>6. QED BY <2>1, <2>2, <2>4, <2>5 DEF BooksInv
<1>2. BooksInv /\ [RNext]_allVars => BooksInv' BY NextBooks
<1>3. BooksInv => MergeInventsNothing
  BY DEF BooksInv, Within, MergeInventsNothing, PrepaidLimit
<1>4. QED BY <1>1, <1>2, <1>3, PTL DEF RSpec
=============================================================================
