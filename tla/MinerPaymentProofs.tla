------------------------- MODULE MinerPaymentProofs -------------------------
(***************************************************************************)
(* Proofs about the client and the miner together (MinerPayment), for any  *)
(* number of requests, threads, transfers, crashes and restarts.           *)
(***************************************************************************)
EXTENDS MinerPayment, EscrowBillingProofs

------------------------------------------------------------------------------
(* What a step of the two nodes does on the client's side.                   *)
LEMMA ClientStep == [MPNext]_mpVars => [Next]_vars
<1> SUFFICES ASSUME [MPNext]_mpVars PROVE [Next]_vars OBVIOUS
<1>1. ASSUME NEW r \in Requests, Arrive(r) \/ WriteBack(r) \/ Admission(r) \/ Settlement(r)
      PROVE  Next
  BY <1>1 DEF Arrive, WriteBack, Admission, Settlement, Next, Running, RequestStep, HandlerStep
<1>2. ASSUME NEW r \in Requests, GetsNothing(r) \/ GetsAnswer(r)
      PROVE  Next
  BY <1>2, Zenon DEF GetsNothing, GetsAnswer, Next, Running, RequestStep, HandlerStep
<1>3. ASSUME NEW r \in Requests,
             SendToMiner(r) \/ MinerAdmits(r) \/ MinerRefuses(r) \/ TrackMinerServedTokens(r)
      PROVE  UNCHANGED vars
  BY <1>3, Zenon DEF SendToMiner, MinerAdmits, MinerRefuses, TrackMinerServedTokens
<1>4. ASSUME Outside PROVE Next
  BY <1>4 DEF Outside, Next, Running
<1>5. ASSUME ClientCrash PROVE Next
  BY <1>5 DEF ClientCrash, Next
<1>6. ASSUME SyncArrives \/ ReceiveTx \/ MinerRestart PROVE UNCHANGED vars
  BY <1>6 DEF SyncArrives, ReceiveTx, MinerRestart
<1>7. ASSUME UNCHANGED mpVars PROVE UNCHANGED vars
  BY <1>7 DEF mpVars
<1>8. QED BY <1>1, <1>2, <1>3, <1>4, <1>5, <1>6, <1>7, Zenon DEF MPNext

(* Beside the miner's node the client is still the client of EscrowBilling:  *)
(* what is proved of the billing holds of the two nodes together.            *)
THEOREM PaymentImplementsBilling == MPSpec => Spec
<1>1. MPInit => Init BY DEF MPInit
<1>2. QED BY <1>1, ClientStep, PTL DEF MPSpec, Spec

(* The client's money is right beside a miner that serves, refuses, crashes  *)
(* and restarts as it likes, on any threads: nothing is overpaid, every      *)
(* transfer is accounted for, a prepaid total is kept to, the debt stays     *)
(* bounded, and so is what is reserved, which covers the requests in flight. *)
THEOREM PaymentBooks ==
    MPSpec => [](NeverOverpays /\ TransfersAccounted /\ PrepaidLimit /\ DebtBound
                 /\ ReservationsCover /\ OverbookingBound)
BY PaymentImplementsBilling, NeverOverpaysHolds, TransfersAccountedHolds,
   PrepaidLimitHolds, DebtBoundHolds, ReservationsCoverHolds,
   OverbookingBoundHolds, PTL

(* The transfers only grow: an amount once broadcast does not change.        *)
LEMMA TransfersGrow ==
    ASSUME TypeOK, [Next]_vars
    PROVE  /\ Len(txs) \in Nat /\ Len(txs') \in Nat /\ Len(txs) <= Len(txs')
           /\ \A i \in 1..Len(txs) : txs'[i] = txs[i]
           /\ onchain \subseteq onchain'
<1> USE DEF chainVars, reqVars, histVars, unchangedByOwner, Goto
<1>0. txs \in Seq(Nat) /\ Len(txs) \in Nat BY DEF TypeOK
<1>1. CASE txs' = txs /\ onchain \subseteq onchain'
  BY <1>0, <1>1
<1>2. ASSUME NEW r \in Requests, Pay(r)
      PROVE  txs' = txs \/ \E n \in Nat : txs' = Append(txs, n)
  <2>1. PICK sent \in IF wallet.loaded /\ ~wallet.locked
                      THEN Transfers(due[r]) ELSE {0} :
          txs' = txs \/ txs' = Append(txs, sent)
    BY <1>2, Zenon DEF Pay
  <2>2. sent \in Nat BY TransferBounds DEF TypeOK
  <2>3. QED BY <2>1, <2>2
<1>3. CASE \E r \in Requests : Pay(r)
  <2>1. onchain' = onchain BY <1>3, Zenon DEF Pay
  <2>2. CASE txs' = txs BY <1>1, <2>1, <2>2, Zenon
  <2>3. ASSUME NEW n \in Nat, txs' = Append(txs, n)
        PROVE  /\ Len(txs') \in Nat /\ Len(txs) <= Len(txs')
               /\ \A i \in 1..Len(txs) : txs'[i] = txs[i]
    BY <1>0, <2>3
  <2>4. QED BY <1>0, <1>2, <1>3, <2>1, <2>2, <2>3, Zenon
<1>4. ASSUME NEW r \in Requests, RequestStep(r), ~Pay(r)
      PROVE  UNCHANGED <<txs, onchain>>
  BY <1>4 DEF RequestStep, HandlerStep, FindEscrow, Screen, ReadBalance, CheckFunds,
       ReserveEscrowCost, InferenceFails, ProxyForgets, InferenceSucceeds, CheckAndDeductEscrow,
       Deduct, RecordTransfer, ReleaseEscrowCost
<1>5. CASE Surroundings
  BY <1>1, <1>5, Zenon DEF Surroundings, ToggleLock, ToggleLoaded, Deposit, ConfirmTx,
       suspendescrow, closeescrow, Expire
<1>6. CASE Crash
  BY <1>1, <1>6 DEF Crash
<1>7. CASE UNCHANGED vars
  BY <1>1, <1>7 DEF vars
<1>8. QED BY <1>1, <1>3, <1>4, <1>5, <1>6, <1>7, Zenon DEF Next, Running

(* The amount of a set of transfers does not change.                         *)
LEMMA TotalStable ==
    ASSUME TypeOK, [Next]_vars, NEW ids \in SUBSET (1..Len(txs))
    PROVE  TotalAmount(ids)' = TotalAmount(ids)
<1> DEFINE f == txs
           g == txs'
<1>1. \A i \in ids : f[i] \in Int /\ f[i] = g[i]
  BY TransfersGrow DEF TypeOK
<1>2. IsFiniteSet(ids) BY TotalType DEF TypeOK
<1> HIDE DEF f, g
<1>3. SumFunctionOnSet(f, ids) = SumFunctionOnSet(g, ids)
  BY <1>1, <1>2, SumAgree, Zenon
<1>4. QED BY <1>3 DEF TotalAmount, f, g


------------------------------------------------------------------------------
(* What the miner adds for an answer is at most the cost of one inference.   *)
LEMMA ServedCost ==
    ASSUME TypeOK, known \in BOOLEAN, NEW tokens \in Tokens
    PROVE  LET cost == tokens * (IF known THEN db.rate ELSE 1)
           IN  cost \in Nat /\ cost <= MaxCost
<1> DEFINE rate == IF known THEN db.rate ELSE 1
<1>1. rate \in Nat /\ rate <= Coin /\ Coin \in Nat
  BY CoinAssumption DEF TypeOK, SpendingLimit
<1>2. tokens \in Nat /\ tokens * Coin <= MaxCost /\ MaxCost \in Nat
  BY AmountAssumption, CostAssumption
<1> HIDE DEF rate
<1>3. tokens * rate <= tokens * Coin /\ tokens * rate \in Nat /\ tokens * Coin \in Nat
  BY <1>1, <1>2, ProductGrows
<1>4. tokens * rate <= MaxCost BY <1>2, <1>3
<1>5. QED BY <1>3, <1>4 DEF rate

(* The miner's tables and the headers keep their types; what the miner has   *)
(* received was sent.                                                        *)
LEMMA NextPaymentType ==
    ASSUME TypeOK, PaymentTypeOK, [MPNext]_mpVars
    PROVE  PaymentTypeOK'
<1>0. Len(txs) \in Nat /\ db.pending \in SUBSET Nat
  <2>1. Len(txs) \in Nat BY DEF TypeOK
  <2>2. db.pending \in SUBSET Nat BY DEF TypeOK, SpendingLimit
  <2>3. QED BY <2>1, <2>2, Zenon
<1>r. received \subseteq 1..Len(txs')
  <2>1. Len(txs) \in Nat /\ Len(txs') \in Nat /\ Len(txs) <= Len(txs')
    BY ClientStep, TransfersGrow
  <2>2. received \subseteq 1..Len(txs) BY DEF PaymentTypeOK
  <2>3. QED BY <2>1, <2>2
<1> USE DEF paymentVars, minerVars
<1>1. ASSUME UNCHANGED paymentVars PROVE PaymentTypeOK'
  BY <1>r, <1>1, Zenon DEF PaymentTypeOK
<1>2. ASSUME NEW r \in Requests, Arrive(r) \/ SendToMiner(r) PROVE PaymentTypeOK'
  <2>1. /\ header' = header \/ header' = [header EXCEPT ![r] = db.pending]
        /\ listed' = listed \/ listed' = [listed EXCEPT ![r] = Len(txs)]
        /\ miner' = miner \/ miner' = [miner EXCEPT ![r] = "sent"]
        /\ UNCHANGED <<dropped, known, received, tracked, trusted, restarts>>
    BY <1>2, Zenon DEF Arrive, SendToMiner, WriteHeader
  <2>2. header' \in [Requests -> SUBSET Nat] /\ listed' \in [Requests -> Nat]
    BY <1>0, <2>1, Zenon DEF PaymentTypeOK
  <2>3. QED BY <1>r, <2>1, <2>2, Zenon DEF PaymentTypeOK, MinerStates
<1>w. ASSUME NEW r \in Requests, WriteBack(r) PROVE PaymentTypeOK'
  BY <1>0, <1>r, <1>w, Zenon DEF PaymentTypeOK, WriteBack
<1>3. ASSUME NEW r \in Requests, GetsNothing(r) \/ GetsAnswer(r) PROVE PaymentTypeOK'
  <2>1. HangUp(r) BY <1>3 DEF GetsNothing, GetsAnswer
  <2>2. QED BY <1>r, <2>1 DEF PaymentTypeOK, HangUp, MinerStates
<1>4. ASSUME ClientCrash PROVE PaymentTypeOK'
  <2>1. Len(txs) \in Nat BY DEF TypeOK
  <2>2. dropped' \subseteq Nat BY <1>4, <2>1, Zenon DEF PaymentTypeOK, ClientCrash
  <2>3. QED BY <1>r, <1>4, <2>2, Zenon DEF PaymentTypeOK, ClientCrash, MinerStates
<1>5. ASSUME NEW r \in Requests, MinerAdmits(r) \/ MinerRefuses(r) PROVE PaymentTypeOK'
  BY <1>r, <1>5, Zenon DEF PaymentTypeOK, MinerAdmits, MinerRefuses, MinerStates
<1>6. ASSUME NEW r \in Requests, TrackMinerServedTokens(r) PROVE PaymentTypeOK'
  <2>1. PICK tokens \in Tokens \ {0} :
          LET cost == tokens * (IF known THEN db.rate ELSE 1)
          IN  /\ tracked' = tracked + cost
              /\ trusted' = IF miner[r] = "trusted" THEN trusted + cost ELSE trusted
    BY <1>6 DEF TrackMinerServedTokens
  <2> DEFINE cost == tokens * (IF known THEN db.rate ELSE 1)
  <2>2. cost \in Nat BY ServedCost DEF PaymentTypeOK
  <2>3. tracked' = tracked + cost /\ trusted' \in {trusted + cost, trusted}
    BY <2>1
  <2> HIDE DEF cost
  <2>4. tracked' \in Nat /\ trusted' \in Nat BY <2>2, <2>3 DEF PaymentTypeOK
  <2>5. QED BY <1>r, <1>6, <2>4 DEF PaymentTypeOK, TrackMinerServedTokens, MinerStates
<1>7. ASSUME SyncArrives PROVE PaymentTypeOK'
  BY <1>r, <1>7, Zenon DEF PaymentTypeOK, SyncArrives
<1>8. ASSUME ReceiveTx PROVE PaymentTypeOK'
  BY <1>r, <1>8, Zenon DEF PaymentTypeOK, ReceiveTx, vars
<1>9. ASSUME MinerRestart PROVE PaymentTypeOK'
  <2>1. miner' \in [Requests -> MinerStates]
    BY <1>9, Zenon DEF MinerRestart, MinerStates
  <2>2. QED BY <1>r, <1>9, <2>1 DEF PaymentTypeOK, MinerRestart, MinerStates
<1>10. QED
  BY <1>1, <1>2, <1>w, <1>3, <1>4, <1>5, <1>6, <1>7, <1>8, <1>9, Zenon
     DEF MPNext, Admission, Settlement, Outside, mpVars


(* The answers under way are counted.                                        *)
LEMMA ServingCount ==
    /\ IsFiniteSet(Serving) /\ Cardinality(Serving) \in Nat
    /\ Cardinality(Requests) \in Nat /\ Cardinality(Serving) <= Cardinality(Requests)
BY RequestsAssumption, FS_Subset, FS_CardinalityType, Zenon DEF Serving

(* The same after a step.                                                    *)
LEMMA ServingCountNext ==
    /\ IsFiniteSet(Serving') /\ Cardinality(Serving') \in Nat
    /\ Cardinality(Serving') <= Cardinality(Requests)
BY RequestsAssumption, FS_Subset, FS_CardinalityType DEF Serving

(* One cost less for one answer less.                                        *)
LEMMA OneCostLess ==
    ASSUME NEW n \in Nat, NEW c \in Nat
    PROVE  c * (n - 1) = c * n - c
OBVIOUS

(* What was received only grows, in value too.                               *)
LEMMA ReceivedGrows ==
    ASSUME TypeOK, TypeOK', PaymentTypeOK, PaymentTypeOK', [MPNext]_mpVars,
           received \subseteq received'
    PROVE  /\ TotalAmount(received) \in Nat /\ TotalAmount(received)' \in Nat
           /\ TotalAmount(received) <= TotalAmount(received)'
<1> DEFINE f == txs
           g == txs'
           A == received
           B == received'
<1>1. /\ txs \in Seq(Nat) /\ received \subseteq 1..Len(txs)
      /\ IsFiniteSet(A) /\ TotalAmount(received) \in Nat
  <2>1. txs \in Seq(Nat) BY DEF TypeOK
  <2>2. received \subseteq 1..Len(txs) BY DEF PaymentTypeOK
  <2>3. QED BY <2>1, <2>2, TotalType, Zenon
<1>2. /\ \A i \in A : f[i] \in Int /\ f[i] = g[i]
      /\ \A i \in B : g[i] \in Nat
      /\ A \in SUBSET B /\ IsFiniteSet(B)
  <2> DEFINE n == Len(txs')
  <2>1. \A i \in 1..Len(txs) : txs'[i] = txs[i]
    BY ClientStep, TransfersGrow, Zenon
  <2>2. txs' \in Seq(Nat) BY DEF TypeOK
  <2>3. received' \subseteq 1..n BY DEF PaymentTypeOK
  <2>4. n \in Nat /\ \A i \in 1..n : g[i] \in Nat BY <2>2
  <2>5. \A i \in 1..Len(txs) : f[i] \in Int BY <1>1
  <2> HIDE DEF n
  <2>6. IsFiniteSet(1..n) BY <2>4, FS_Interval
  <2>7. IsFiniteSet(B) BY <2>3, <2>6, FS_Subset, Zenon
  <2> QED BY <1>1, <2>1, <2>3, <2>4, <2>5, <2>7, Zenon
<1>4. TotalAmount(received) = SumFunctionOnSet(f, A) BY DEF TotalAmount
<1>5. TotalAmount(received)' = SumFunctionOnSet(g, B) BY DEF TotalAmount
<1> HIDE DEF f, g, A, B
<1>6. SumFunctionOnSet(f, A) = SumFunctionOnSet(g, A)
  BY <1>1, <1>2, SumAgree, Zenon
<1>7. SumFunctionOnSet(g, A) <= SumFunctionOnSet(g, B)
  BY <1>2, SumSubset, Zenon
<1>8. SumFunctionOnSet(g, B) \in Nat
  BY <1>2, SumNat, Zenon
<1>9. QED BY <1>1, <1>4, <1>5, <1>6, <1>7, <1>8, Zenon

(* A step that starts no paid answer, counts none and forgets no payment     *)
(* keeps the exposure bounded.                                               *)
LEMMA ExposureFrame ==
    ASSUME TypeOK, TypeOK', PaymentTypeOK, PaymentTypeOK', CountedDebtBound,
           [MPNext]_mpVars,
           Serving' \subseteq Serving, UNCHANGED <<tracked, trusted>>,
           received \subseteq received'
    PROVE  CountedDebtBound'
<1> DEFINE n == Cardinality(Serving)
           m == Cardinality(Serving')
           a == TotalAmount(received)
           b == TotalAmount(received)'
           all == MaxCost * Cardinality(Requests)
<1>1. n \in Nat /\ m \in Nat /\ m <= n
  BY ServingCount, ServingCountNext, FS_Subset, Zenon
<1>2. a \in Nat /\ b \in Nat /\ a <= b
  BY ReceivedGrows
<1>3. tracked - trusted + MaxCost * n < a + 2 * Coin + all
  BY Zenon DEF CountedDebtBound
<1>4. tracked \in Nat /\ trusted \in Nat /\ Coin \in Nat /\ MaxCost \in Nat
  BY AmountAssumption, CoinAssumption DEF PaymentTypeOK
<1>5. all \in Nat
  BY <1>4, ServingCount
<1>6. CountedDebtBound' <=>
        tracked' - trusted' + MaxCost * m < b + 2 * Coin + all
  BY DEF CountedDebtBound
<1> HIDE DEF n, m, a, b, all
<1>7. MaxCost * m <= MaxCost * n /\ MaxCost * m \in Nat /\ MaxCost * n \in Nat
  BY <1>1, <1>4, ProductGrows
<1>8. tracked - trusted + MaxCost * m < b + 2 * Coin + all
  BY <1>2, <1>3, <1>4, <1>5, <1>7
<1>9. QED BY <1>6, <1>8, Zenon


(* An answer is started only while less than two TKNC is unpaid.             *)
LEMMA ExposureAdmits ==
    ASSUME TypeOK, PaymentTypeOK, NEW r \in Requests, MinerAdmits(r),
           miner'[r] # "trusted"
    PROVE  CountedDebtBound'
<1> DEFINE m == Cardinality(Serving')
           a == TotalAmount(received)
           some == TotalAmount(header[r] \cap received)
           all == Cardinality(Requests)
<1>1. m \in Nat /\ all \in Nat /\ m <= all
  BY ServingCount, ServingCountNext, Zenon
<1>2. a \in Nat /\ some \in Nat /\ some <= a
  <2> DEFINE A == header[r] \cap received
  <2>1. txs \in Seq(Nat) BY DEF TypeOK
  <2>2. received \in SUBSET (1..Len(txs)) BY DEF PaymentTypeOK
  <2>3. /\ IsFiniteSet(received) /\ A \in SUBSET received
        /\ \A i \in received : txs[i] \in Nat
    BY <2>1, <2>2, TotalType
  <2>4. TotalAmount(received) \in Nat /\ TotalAmount(A) \in Nat
    BY <2>1, <2>2, TotalType, Zenon
  <2> HIDE DEF A
  <2>5. SumFunctionOnSet(txs, A) <= SumFunctionOnSet(txs, received)
    BY <2>3, SumSubset, Zenon
  <2>6. QED BY <2>4, <2>5, Zenon DEF TotalAmount, A
<1>3. tracked \in Nat /\ trusted \in Nat /\ Coin \in Nat \ {0} /\ MaxCost \in Nat
  BY AmountAssumption, CoinAssumption, Zenon DEF PaymentTypeOK
<1>4. tracked = 0 \/ tracked - some < 2 * Coin
  <2>1. Verifies \/ tracked = 0
    BY Zenon DEF MinerAdmits, PaymentTypeOK
  <2>2. QED BY <2>1, Zenon DEF MinerAdmits, CheckMinerReceivedPayment
<1>5. CountedDebtBound' <=>
        tracked - trusted + MaxCost * m < a + 2 * Coin + MaxCost * all
  BY DEF MinerAdmits, CountedDebtBound, vars, TotalAmount
<1> HIDE DEF m, a, some, all
<1>6. MaxCost * m <= MaxCost * all /\ MaxCost * m \in Nat /\ MaxCost * all \in Nat
  BY <1>1, <1>3, ProductGrows
<1>7. tracked - trusted + MaxCost * m < a + 2 * Coin + MaxCost * all
  BY <1>2, <1>3, <1>4, <1>6
<1>8. QED BY <1>5, <1>7

(* Counting an answer adds at most the cost that was set aside for it.       *)
LEMMA ExposureTracks ==
    ASSUME TypeOK, PaymentTypeOK, CountedDebtBound, NEW r \in Requests,
           TrackMinerServedTokens(r)
    PROVE  CountedDebtBound'
<1> DEFINE n == Cardinality(Serving)
           m == Cardinality(Serving')
           a == TotalAmount(received)
           all == MaxCost * Cardinality(Requests)
<1>1. PICK tokens \in Tokens \ {0} :
          LET cost == tokens * (IF known THEN db.rate ELSE 1)
          IN  /\ tracked' = tracked + cost
              /\ trusted' = IF miner[r] = "trusted" THEN trusted + cost ELSE trusted
  BY DEF TrackMinerServedTokens
<1> DEFINE cost == tokens * (IF known THEN db.rate ELSE 1)
<1>2. cost \in Nat /\ cost <= MaxCost
  BY ServedCost DEF PaymentTypeOK
<1>3. /\ tracked' = tracked + cost
      /\ trusted' = IF miner[r] = "trusted" THEN trusted + cost ELSE trusted
  BY <1>1
<1> HIDE DEF cost
<1>4. tracked \in Nat /\ trusted \in Nat /\ Coin \in Nat /\ MaxCost \in Nat
  BY AmountAssumption, CoinAssumption DEF PaymentTypeOK
<1>5. n \in Nat /\ m \in Nat /\ all \in Nat
  BY <1>4, ServingCount, ServingCountNext
<1>6. a \in Nat
  <2>1. txs \in Seq(Nat) BY DEF TypeOK
  <2>2. received \in SUBSET (1..Len(txs)) BY DEF PaymentTypeOK
  <2>3. QED BY <2>1, <2>2, TotalType, Zenon
<1>7. miner' = [miner EXCEPT ![r] = "done"] /\ miner[r] \in {"running", "trusted"}
  BY DEF TrackMinerServedTokens
<1>8. tracked - trusted + MaxCost * n < a + 2 * Coin + all
  BY Zenon DEF CountedDebtBound
<1>9. CountedDebtBound' <=>
        tracked' - trusted' + MaxCost * m < a + 2 * Coin + all
  BY Zenon DEF TrackMinerServedTokens, CountedDebtBound, vars, TotalAmount
<1>10. CASE miner[r] = "trusted"
  <2>1. Serving' = Serving
    BY <1>7, <1>10, Zenon DEF Serving, PaymentTypeOK
  <2>2. m = n BY <2>1
  <2> HIDE DEF n, m, a, all
  <2>3. MaxCost * m = MaxCost * n /\ MaxCost * n \in Nat BY <1>4, <1>5, <2>2
  <2>4. QED BY <1>2, <1>3, <1>4, <1>5, <1>6, <1>8, <1>9, <1>10, <2>3
<1>11. CASE miner[r] = "running"
  <2>1. r \in Serving /\ Serving' = Serving \ {r}
    BY <1>7, <1>11 DEF Serving, PaymentTypeOK
  <2>2. m = n - 1
    BY <2>1, ServingCount, FS_RemoveElement, Zenon
  <2> HIDE DEF n, m, a, all
  <2>3. MaxCost * m = MaxCost * n - MaxCost /\ MaxCost * n \in Nat
    BY <1>4, <1>5, <2>2, OneCostLess
  <2>4. tracked' - trusted' + MaxCost * m < a + 2 * Coin + all
    <3>1. tracked' = tracked + cost /\ trusted' = trusted BY <1>3, <1>11
    <3>2. QED BY <1>2, <1>4, <1>5, <1>6, <1>8, <2>3, <3>1
  <2>5. QED BY <1>9, <2>4, Zenon
<1>12. QED BY <1>7, <1>10, <1>11

(* A miner that has served nothing, or forgotten it, is owed nothing.        *)
LEMMA ExposureNone ==
    ASSUME txs \in Seq(Nat), received \subseteq 1..Len(txs)
    PROVE  MaxCost * Cardinality({})
               < TotalAmount(received) + 2 * Coin + MaxCost * Cardinality(Requests)
<1> DEFINE a == TotalAmount(received)
           all == MaxCost * Cardinality(Requests)
<1>1. a \in Nat
  BY TotalType
<1>2. Cardinality({}) = 0
  BY FS_EmptySet
<1>3. Coin \in Nat \ {0} /\ MaxCost \in Nat
  BY AmountAssumption, CoinAssumption
<1>4. all \in Nat BY <1>3, ServingCount
<1> HIDE DEF a, all
<1>5. MaxCost * Cardinality({}) < a + 2 * Coin + all
  BY <1>1, <1>2, <1>3, <1>4
<1>6. QED BY <1>5 DEF a, all

(* Every step of the two nodes keeps the miner's exposure bounded.           *)
LEMMA NextExposure ==
    ASSUME TypeOK, TypeOK', PaymentTypeOK, CountedDebtBound, [MPNext]_mpVars
    PROVE  CountedDebtBound'
<1>t. PaymentTypeOK' BY NextPaymentType
<1> USE DEF paymentVars, minerVars
<1>1. ASSUME Serving' \subseteq Serving, UNCHANGED <<tracked, trusted>>,
             received \subseteq received'
      PROVE  CountedDebtBound'
  BY <1>t, <1>1, ExposureFrame
<1>2. ASSUME UNCHANGED paymentVars PROVE CountedDebtBound'
  BY <1>1, <1>2 DEF Serving
<1>3. ASSUME NEW r \in Requests, Arrive(r) \/ WriteBack(r) PROVE CountedDebtBound'
  BY <1>1, <1>3, Zenon DEF Serving, Arrive, WriteBack
<1>4. ASSUME NEW r \in Requests, SendToMiner(r) PROVE CountedDebtBound'
  BY <1>1, <1>4, Zenon DEF Serving, SendToMiner, PaymentTypeOK
<1>5. ASSUME NEW r \in Requests, GetsNothing(r) \/ GetsAnswer(r) PROVE CountedDebtBound'
  BY <1>1, <1>5 DEF Serving, GetsNothing, GetsAnswer, HangUp, PaymentTypeOK
<1>6. ASSUME NEW r \in Requests, MinerAdmits(r) PROVE CountedDebtBound'
  <2>1. CASE miner'[r] = "trusted"
    BY <1>1, <1>6, <2>1 DEF Serving, MinerAdmits, PaymentTypeOK
  <2>2. CASE miner'[r] # "trusted"
    BY <1>6, <2>2, ExposureAdmits, Zenon
  <2>3. QED BY <2>1, <2>2
<1>7. ASSUME NEW r \in Requests, MinerRefuses(r) PROVE CountedDebtBound'
  BY <1>1, <1>7 DEF Serving, MinerRefuses, PaymentTypeOK
<1>8. ASSUME NEW r \in Requests, TrackMinerServedTokens(r) PROVE CountedDebtBound'
  BY <1>8, ExposureTracks, Zenon
<1>9. ASSUME ClientCrash PROVE CountedDebtBound'
  BY <1>1, <1>9, Zenon DEF Serving, ClientCrash
<1>10. ASSUME SyncArrives \/ ReceiveTx PROVE CountedDebtBound'
  BY <1>1, <1>10, Zenon DEF Serving, SyncArrives, ReceiveTx
<1>11. ASSUME MinerRestart PROVE CountedDebtBound'
  <2>1. Serving' = {} /\ tracked' = 0 /\ trusted' = 0 /\ UNCHANGED <<txs, received>>
    BY <1>11, Zenon DEF MinerRestart, Serving, vars
  <2>2. CountedDebtBound' <=>
          tracked' - trusted' + MaxCost * Cardinality({})
            < TotalAmount(received) + 2 * Coin + MaxCost * Cardinality(Requests)
    BY <2>1 DEF CountedDebtBound, TotalAmount
  <2>3. tracked' - trusted' + MaxCost * Cardinality({}) = MaxCost * Cardinality({})
    BY <2>1, FS_EmptySet, AmountAssumption
  <2>4. QED BY <2>2, <2>3, ExposureNone, Zenon DEF TypeOK, PaymentTypeOK
<1>12. QED
  BY <1>2, <1>3, <1>4, <1>5, <1>6, <1>7, <1>8, <1>9, <1>10, <1>11, Zenon
     DEF MPNext, Admission, Settlement, Outside, mpVars

(* At the start the miner has served and received nothing.                   *)
LEMMA InitPayment == MPInit => PaymentTypeOK /\ CountedDebtBound
<1> SUFFICES ASSUME MPInit PROVE PaymentTypeOK /\ CountedDebtBound OBVIOUS
<1>1. PaymentTypeOK BY Zenon DEF MPInit, PaymentTypeOK, MinerStates
<1>2. Serving = {} /\ tracked = 0 /\ trusted = 0 /\ txs \in Seq(Nat)
      /\ received \subseteq 1..Len(txs)
  BY DEF MPInit, Serving, Init
<1>3. CountedDebtBound <=>
        tracked - trusted + MaxCost * Cardinality({})
          < TotalAmount(received) + 2 * Coin + MaxCost * Cardinality(Requests)
  BY <1>2 DEF CountedDebtBound
<1>4. tracked - trusted + MaxCost * Cardinality({}) = MaxCost * Cardinality({})
  BY <1>2, FS_EmptySet, AmountAssumption
<1>5. QED BY <1>1, <1>2, <1>3, <1>4, ExposureNone

(* Beyond the transfers in its wallet a miner has counted less than two TKNC *)
(* and one inference per concurrent request, of what it admitted with its    *)
(* check, for any requests, transfers, crashes and restarts, on any threads. *)
THEOREM CountedDebtBoundHolds == MPSpec => []CountedDebtBound
<1>1. MPSpec => []TypeOK BY PaymentImplementsBilling, TypeCorrect, PTL
<1>2. PaymentTypeOK /\ TypeOK /\ [MPNext]_mpVars => PaymentTypeOK'
  BY NextPaymentType
<1>3. PaymentTypeOK /\ TypeOK /\ TypeOK' /\ CountedDebtBound /\ [MPNext]_mpVars
          => CountedDebtBound'
  BY NextExposure
<1>4. QED BY <1>1, <1>2, <1>3, InitPayment, PTL DEF MPSpec


------------------------------------------------------------------------------
(* No block and no loss from the list is undone.                             *)
LEMMA HistoryGrows ==
    ASSUME TypeOK, [MPNext]_mpVars, NEW i, Unlisted(i)
    PROVE  Unlisted(i)'
<1> USE DEF chainVars, reqVars, histVars, unchangedByOwner, paymentVars, minerVars
<1>1. onchain \subseteq onchain' BY ClientStep, TransfersGrow
<1>2. dropped \subseteq dropped'
  <2>1. ASSUME NEW r \in Requests,
               \/ Arrive(r) \/ WriteBack(r) \/ Admission(r) \/ SendToMiner(r)
               \/ GetsNothing(r) \/ GetsAnswer(r) \/ Settlement(r)
               \/ MinerAdmits(r) \/ MinerRefuses(r) \/ TrackMinerServedTokens(r)
        PROVE  dropped \subseteq dropped'
    BY <2>1, Zenon DEF Arrive, WriteBack, Admission, SendToMiner, GetsNothing, GetsAnswer,
         HangUp, Settlement, MinerAdmits, MinerRefuses, TrackMinerServedTokens
  <2>2. ASSUME \/ Outside \/ ClientCrash \/ SyncArrives \/ ReceiveTx \/ MinerRestart
               \/ UNCHANGED mpVars
        PROVE  dropped \subseteq dropped'
    BY <2>2, Zenon DEF Outside, ClientCrash, SyncArrives, ReceiveTx, MinerRestart, mpVars
  <2>3. QED BY <2>1, <2>2, Zenon DEF MPNext
<1>3. QED BY <1>1, <1>2, Zenon DEF Unlisted

(* Every transfer can be found: on the list, confirmed, noted as     *)
(* dropped, or in the hands of the request about to record it.               *)
AllListed == \A i \in 1..Len(txs) : Listed(i)

(* A step that makes no transfer, and takes off the list only what is        *)
(* confirmed or noted as dropped.                                            *)
LEMMA ListedFrame ==
    ASSUME AllListed, \A i : Unlisted(i) => Unlisted(i)', txs' = txs,
           db.pending \subseteq db'.pending \cup onchain' \cup dropped',
           \A r \in Requests : pc[r] = "recording" => pc'[r] = "recording"
    PROVE  AllListed'
<1> SUFFICES ASSUME NEW i \in 1..Len(txs) PROVE Listed(i)' BY DEF AllListed
<1>1. Listed(i) BY DEF AllListed
<1>2. CASE i \in db.pending BY <1>2 DEF Listed, Unlisted
<1>3. CASE Unlisted(i) BY <1>3, Zenon DEF Listed
<1>4. CASE i = Len(txs) /\ \E r \in Requests : pc[r] = "recording"
  BY <1>4 DEF Listed
<1>5. QED BY <1>1, <1>2, <1>3, <1>4, Zenon DEF Listed

(* A transfer is made by one request at a time, which then records it.       *)
LEMMA ListedPays ==
    ASSUME TypeOK, MoneyInv, AllListed, \A i : Unlisted(i) => Unlisted(i)',
           NEW r \in Requests, Pay(r), txs' # txs
    PROVE  AllListed'
<1> DEFINE n == Len(txs)
<1>1. pc \in [Requests -> PCs] /\ txs \in Seq(Nat) /\ n \in Nat
  <2>1. pc \in [Requests -> PCs] /\ txs \in Seq(Nat) BY Zenon DEF TypeOK
  <2>2. QED BY <2>1
<1>2. PICK sent \in IF wallet.loaded /\ ~wallet.locked THEN Transfers(due[r]) ELSE {0} :
         txs' = Append(txs, sent) /\ pc' = [pc EXCEPT ![r] = "recording"]
  BY Zenon DEF Pay, Goto
<1>3. sent \in Nat BY <1>2, TransferBounds DEF TypeOK
<1>4. Len(txs') = n + 1 /\ pc'[r] = "recording" /\ db' = db
  BY <1>1, <1>2, <1>3 DEF Pay
<1>5. \A q \in Requests : pc[q] # "recording"
  BY RequestsAssumption DEF MoneyInv, SectionOK, Pay
<1> SUFFICES ASSUME NEW i \in 1..(n + 1) PROVE Listed(i)'
  BY <1>4 DEF AllListed
<1>6. CASE i = n + 1 BY <1>4, <1>6, Zenon DEF Listed
<1>7. CASE i \in 1..n
  <2>1. i \in db.pending \/ Unlisted(i) BY <1>5, <1>7, Zenon DEF AllListed, Listed
  <2>2. QED BY <1>4, <2>1, Zenon DEF Listed
<1>8. QED BY <1>1, <1>6, <1>7

(* Recording a transfer lists it, and it was the last one.                   *)
LEMMA ListedRecords ==
    ASSUME TypeOK, AllListed, \A i : Unlisted(i) => Unlisted(i)',
           NEW r \in Requests, RecordTransfer(r)
    PROVE  AllListed'
<1>1. db'.pending = db.pending \cup {Len(txs)} /\ txs' = txs
  BY DEF RecordTransfer, TypeOK, SpendingLimit, chainVars
<1> SUFFICES ASSUME NEW i \in 1..Len(txs) PROVE Listed(i)'
  BY <1>1 DEF AllListed
<1>2. Listed(i) BY DEF AllListed
<1>3. QED BY <1>1, <1>2, Zenon DEF Listed

(* What a request does to the list without paying or recording.              *)
LEMMA RequestKeepsList ==
    ASSUME TypeOK, NEW r \in Requests, RequestStep(r), ~Screen(r), ~Pay(r),
           ~RecordTransfer(r)
    PROVE  /\ txs' = txs /\ db.pending \subseteq db'.pending \cup onchain'
           /\ \A q \in Requests : pc[q] = "recording" => pc'[q] = "recording"
<1> USE DEF chainVars, reqVars, histVars, Goto
<1>1. pc \in [Requests -> PCs] /\ db \in SpendingLimit BY Zenon DEF TypeOK
<1>2. ASSUME NEW l, pc' = [pc EXCEPT ![r] = l], pc[r] # "recording"
      PROVE  \A q \in Requests : pc[q] = "recording" => pc'[q] = "recording"
  BY <1>1, <1>2
<1>3. CASE CheckAndDeductEscrow(r)
  <2>1. PICK t \in Tokens, a \in TokensPerTknc \cup {0} : Deduct(r, t, a)
    BY <1>3, Zenon DEF CheckAndDeductEscrow
  <2> DEFINE u == UpdateConfirmedTransfers(db)
             c == Charge(db, t, RatePerToken(db, a))
  <2>2. /\ pc[r] = "billing" /\ db' \in {Billed(u, c), db}
        /\ UNCHANGED <<txs, onchain>>
        /\ \E l \in {"paying", "release"} : pc' = [pc EXCEPT ![r] = l]
    BY <2>1 DEF Deduct
  <2>3. u \in SpendingLimit /\ db.pending \subseteq u.pending \cup onchain
    <3>1. u \in SpendingLimit BY <1>1, UpdateKeeps
    <3>2. u.pending = db.pending \ (IF wallet.loaded THEN db.pending \cap onchain ELSE {})
      BY <1>1 DEF UpdateConfirmedTransfers, SpendingLimit
    <3>3. QED BY <3>1, <3>2, Zenon
  <2> HIDE DEF u, c
  <2>4. Billed(u, c).pending = u.pending BY <2>3 DEF Billed, SpendingLimit
  <2>5. db.pending \subseteq db'.pending \cup onchain' BY <2>2, <2>3, <2>4, Zenon
  <2>6. QED BY <1>2, <2>2, <2>5, Zenon
<1>4. ASSUME \/ FindEscrow(r) \/ ReadBalance(r) \/ CheckFunds(r)
             \/ ReserveEscrowCost(r) \/ InferenceFails(r) \/ ProxyForgets(r)
             \/ InferenceSucceeds(r) \/ ReleaseEscrowCost(r)
      PROVE  /\ txs' = txs /\ db.pending \subseteq db'.pending \cup onchain'
             /\ \A q \in Requests : pc[q] = "recording" => pc'[q] = "recording"
  <2>1. /\ UNCHANGED <<db, txs>> /\ pc[r] # "recording"
        /\ \E l \in {"idle", "screen", "funds", "admitted", "serving", "release",
                     "billing"} : pc' = [pc EXCEPT ![r] = l]
    BY <1>4 DEF FindEscrow, ReadBalance, CheckFunds, ReserveEscrowCost,
                InferenceFails, ProxyForgets, InferenceSucceeds, ReleaseEscrowCost
  <2>2. QED BY <1>2, <2>1, Zenon
<1>5. QED BY <1>3, <1>4, Zenon DEF RequestStep, HandlerStep

(* Every step of the two nodes keeps every transfer where it can be found.   *)
LEMMA NextListed ==
    ASSUME TypeOK, MoneyInv, AllListed, [MPNext]_mpVars
    PROVE  AllListed'
<1> USE DEF paymentVars, minerVars
<1>0. \A i : Unlisted(i) => Unlisted(i)' BY HistoryGrows
<1>1. ASSUME txs' = txs, db.pending \subseteq db'.pending \cup onchain' \cup dropped',
             \A r \in Requests : pc[r] = "recording" => pc'[r] = "recording"
      PROVE  AllListed'
  BY <1>0, <1>1, ListedFrame, Zenon
<1>2. ASSUME UNCHANGED vars PROVE AllListed'
  <2>1. txs' = txs /\ db' = db /\ pc' = pc BY <1>2 DEF vars, chainVars, reqVars
  <2>2. QED BY <1>1, <2>1, Zenon
<1>3. ASSUME NEW r \in Requests, Pay(r) PROVE AllListed'
  <2>1. CASE txs' # txs BY <1>0, <1>3, <2>1, ListedPays, Zenon
  <2>2. CASE txs' = txs
    <3>1. db' = db /\ \A q \in Requests : pc[q] = "recording" => pc'[q] = "recording"
      BY <1>3 DEF Pay, Goto, TypeOK
    <3>2. QED BY <1>1, <2>2, <3>1, Zenon
  <2>3. QED BY <2>1, <2>2
<1>4. ASSUME NEW r \in Requests, RequestStep(r), ~Screen(r) PROVE AllListed'
  <2>1. CASE ~Pay(r) /\ ~RecordTransfer(r)
    BY <1>1, <1>4, <2>1, RequestKeepsList, Zenon
  <2>2. QED BY <1>0, <1>3, <2>1, ListedRecords, Zenon
<1>5. ASSUME NEW r \in Requests, WriteBack(r) PROVE AllListed'
  <2>1. /\ txs' = txs /\ onchain' = onchain
        /\ dropped' = dropped \cup ((db.pending \ db'.pending) \ onchain)
    BY <1>5 DEF WriteBack, Screen, chainVars
  <2>2. \A q \in Requests : pc[q] = "recording" => pc'[q] = "recording"
    BY <1>5, Zenon DEF WriteBack, Screen, Goto, TypeOK
  <2>3. QED BY <1>1, <2>1, <2>2, Zenon
<1>6. ASSUME Outside PROVE AllListed'
  <2>0. db \in SpendingLimit BY DEF TypeOK
  <2>1. /\ txs' = txs /\ pc' = pc /\ db'.pending = db.pending
    BY <1>6, <2>0
       DEF Outside, Surroundings, ToggleLock, ToggleLoaded, Deposit, ConfirmTx, suspendescrow,
           closeescrow, Expire, SpendingLimit, unchangedByOwner, chainVars, reqVars
  <2>2. QED BY <1>1, <2>1, Zenon
<1>7. ASSUME ClientCrash PROVE AllListed'
  <2>1. /\ UNCHANGED <<db, txs>>
        /\ (\E r \in Requests : pc[r] = "recording") => Len(txs) \in dropped'
    BY <1>7, Zenon DEF ClientCrash, Crash, chainVars
  <2>2. ASSUME NEW i \in 1..Len(txs), Listed(i) PROVE Listed(i)'
    BY <1>0, <2>1, <2>2, Zenon DEF Listed, Unlisted
  <2>3. QED BY <2>1, <2>2, Zenon DEF AllListed
<1>8. ASSUME NEW r \in Requests,
             \/ Arrive(r) \/ Admission(r) \/ GetsNothing(r) \/ GetsAnswer(r) \/ Settlement(r)
      PROVE  AllListed'
  <2>1. RequestStep(r)
    BY <1>8, Zenon DEF Arrive, Admission, GetsNothing, GetsAnswer, Settlement, RequestStep,
                       HandlerStep
  <2>2. CASE Screen(r)
    <3>1. pc[r] = "screen" BY <2>2 DEF Screen
    <3>2. QED BY <1>8, <3>1, Zenon
           DEF Arrive, FindEscrow, Admission, ReadBalance, CheckFunds, ReserveEscrowCost,
               GetsNothing, InferenceFails, ProxyForgets, GetsAnswer, InferenceSucceeds,
               Settlement, CheckAndDeductEscrow, Deduct, Pay, RecordTransfer, ReleaseEscrowCost
  <2>3. QED BY <1>4, <2>1, <2>2, Zenon
<1>9. ASSUME NEW r \in Requests,
             SendToMiner(r) \/ MinerAdmits(r) \/ MinerRefuses(r) \/ TrackMinerServedTokens(r)
      PROVE  AllListed'
  BY <1>2, <1>9, Zenon DEF SendToMiner, MinerAdmits, MinerRefuses, TrackMinerServedTokens
<1>10. ASSUME SyncArrives \/ ReceiveTx \/ MinerRestart \/ UNCHANGED mpVars
       PROVE  AllListed'
  BY <1>2, <1>10, Zenon DEF SyncArrives, ReceiveTx, MinerRestart, mpVars
<1>11. QED
  BY <1>5, <1>6, <1>7, <1>8, <1>9, <1>10, Zenon DEF MPNext

------------------------------------------------------------------------------
(* Outside the critical section every transfer is on the record's list or    *)
(* off it for a reason: that is what a header lists.                         *)
LEMMA HeaderWritten ==
    ASSUME AllListed, MoneyInv, mutex = NoOne, NEW i \in 1..Len(txs)
    PROVE  i \in db.pending \/ Unlisted(i)
<1>1. \A r \in Requests : pc[r] # "recording"
  BY RequestsAssumption DEF MoneyInv, SectionOK
<1>2. QED BY <1>1, Zenon DEF AllListed, Listed

(* Every step keeps what the headers say about the transfers before them.    *)
LEMMA NextHeader ==
    ASSUME TypeOK, PaymentTypeOK, AllListed, MoneyInv, [MPNext]_mpVars,
           \A r \in Requests : HeaderOK(r)
    PROVE  \A r \in Requests : HeaderOK(r)'
<1>0. \A i : Unlisted(i) => Unlisted(i)' BY HistoryGrows
<1> USE DEF paymentVars, minerVars
<1>1. ASSUME NEW q \in Requests, header'[q] = header[q], listed'[q] = listed[q]
      PROVE  HeaderOK(q)'
  BY <1>0, <1>1, Zenon DEF HeaderOK
<1>2. ASSUME NEW q \in Requests, listed'[q] = 0 PROVE HeaderOK(q)'
  BY <1>2 DEF HeaderOK
<1>3. ASSUME NEW r \in Requests, WriteHeader(r), mutex = NoOne
      PROVE  \A q \in Requests : HeaderOK(q)'
  <2>1. TAKE q \in Requests
  <2>2. CASE q # r
    BY <1>1, <1>3, <2>2, Zenon DEF WriteHeader, PaymentTypeOK
  <2>3. CASE q = r
    <3>1. header'[r] = db.pending /\ listed'[r] = Len(txs)
      BY <1>3, Zenon DEF WriteHeader, PaymentTypeOK
    <3>2. QED BY <1>0, <1>3, <2>3, <3>1, HeaderWritten, Zenon DEF HeaderOK
  <2>4. QED BY <2>2, <2>3
<1>4. ASSUME UNCHANGED <<header, listed>> PROVE \A q \in Requests : HeaderOK(q)'
  BY <1>1, <1>4
<1>5. ASSUME NEW r \in Requests, Arrive(r) \/ SendToMiner(r)
      PROVE  \A q \in Requests : HeaderOK(q)'
  <2>1. mutex = NoOne BY <1>5, Zenon DEF Arrive, FindEscrow, SendToMiner
  <2>2. WriteHeader(r) \/ UNCHANGED <<header, listed>>
    BY <1>5, Zenon DEF Arrive, SendToMiner
  <2>3. QED BY <1>3, <1>4, <2>1, <2>2, Zenon
<1>6. ASSUME NEW r \in Requests, HangUp(r) PROVE \A q \in Requests : HeaderOK(q)'
  <2>1. TAKE q \in Requests
  <2>2. CASE q # r BY <1>1, <1>6, <2>2, Zenon DEF HangUp, PaymentTypeOK
  <2>3. CASE q = r BY <1>2, <1>6, <2>3, Zenon DEF HangUp, PaymentTypeOK
  <2>4. QED BY <2>2, <2>3
<1>7. ASSUME ClientCrash PROVE \A q \in Requests : HeaderOK(q)'
  BY <1>2, <1>7, Zenon DEF ClientCrash
<1>8. ASSUME NEW r \in Requests,
             \/ WriteBack(r) \/ MinerAdmits(r) \/ MinerRefuses(r)
             \/ TrackMinerServedTokens(r)
      PROVE  UNCHANGED <<header, listed>>
  BY <1>8, Zenon DEF WriteBack, MinerAdmits, MinerRefuses, TrackMinerServedTokens
<1>9. ASSUME SyncArrives \/ ReceiveTx \/ MinerRestart PROVE UNCHANGED <<header, listed>>
  BY <1>9, Zenon DEF SyncArrives, ReceiveTx, MinerRestart
<1>10. QED
  BY <1>4, <1>5, <1>6, <1>7, <1>8, <1>9, Zenon
     DEF MPNext, Admission, Settlement, Outside, GetsNothing, GetsAnswer, mpVars

(* A request that was sent is refused by its own check only, or by a restart.*)
LEMMA RefusedByCheck ==
    ASSUME PaymentTypeOK, [MPNext]_mpVars, NEW r \in Requests,
           miner[r] = "sent", miner'[r] = "refused", restarts' = restarts
    PROVE  ~CheckMinerReceivedPayment(header[r])
<1>0. miner \in [Requests -> MinerStates] BY Zenon DEF PaymentTypeOK
<1> USE DEF paymentVars, minerVars
<1>1. ASSUME NEW q \in Requests, MinerRefuses(q)
      PROVE  ~CheckMinerReceivedPayment(header[r])
  <2>1. q = r BY <1>0, <1>1, Zenon DEF MinerRefuses
  <2>2. QED BY <1>1, <2>1, Zenon DEF MinerRefuses
<1>2. ASSUME NEW q \in Requests,
             \/ Arrive(q) \/ WriteBack(q) \/ SendToMiner(q) \/ GetsNothing(q)
             \/ GetsAnswer(q) \/ MinerAdmits(q) \/ TrackMinerServedTokens(q)
      PROVE  FALSE
  BY <1>0, <1>2, Zenon DEF Arrive, WriteBack, SendToMiner, GetsNothing, GetsAnswer, HangUp,
       MinerAdmits, TrackMinerServedTokens
<1>3. ASSUME UNCHANGED miner PROVE FALSE
  BY <1>3, Zenon
<1>4. ASSUME ClientCrash \/ MinerRestart PROVE FALSE
  <2>1. restarts \in Nat BY DEF PaymentTypeOK
  <2>2. QED BY <1>4, <2>1 DEF ClientCrash, MinerRestart
<1>5. ASSUME SyncArrives \/ ReceiveTx PROVE FALSE
  BY <1>5, Zenon DEF SyncArrives, ReceiveTx
<1>6. QED BY <1>1, <1>2, <1>3, <1>4, <1>5, Zenon
          DEF MPNext, Admission, Settlement, Outside, mpVars

(* Why a refusal of a request on the list of received payments happens.      *)
LEMMA RefusalExplained ==
    ASSUME TypeOK, PaymentTypeOK, NEW r \in Requests, HeaderOK(r),
           ~CheckMinerReceivedPayment(header[r])
    PROVE  \/ tracked - TotalAmount(received) >= 2 * Coin
           \/ \E i \in received \ header[r] : Unlisted(i) \/ i > listed[r]
<1>1. CASE received \subseteq header[r]
  <2>1. header[r] \cap received = received BY <1>1
  <2>2. ~(tracked - TotalAmount(received) < 2 * Coin)
    BY <2>1 DEF CheckMinerReceivedPayment
  <2>3. txs \in Seq(Nat) BY DEF TypeOK
  <2>4. received \in SUBSET (1..Len(txs)) /\ tracked \in Nat BY DEF PaymentTypeOK
  <2>5. TotalAmount(received) \in Nat BY <2>3, <2>4, TotalType, Zenon
  <2>6. tracked - TotalAmount(received) >= 2 * Coin
    <3> DEFINE t == TotalAmount(received)
               k == 2 * Coin
    <3>1. k \in Nat BY CoinAssumption
    <3> HIDE DEF t, k
    <3>2. ~(tracked - t < k) BY <2>2 DEF t, k
    <3>3. t \in Nat BY <2>5 DEF t
    <3>4. tracked - t >= k BY <2>4, <3>1, <3>2, <3>3
    <3>5. QED BY <3>4 DEF t, k
  <2>7. QED BY <2>6, Zenon
<1>2. CASE \E i \in received : i \notin header[r]
  <2>1. PICK i \in received : i \notin header[r] BY <1>2, Zenon
  <2>2. i \in Nat \ {0} /\ listed[r] \in Nat BY DEF PaymentTypeOK
  <2>3. i \in 1..listed[r] => Unlisted(i)
    BY <2>1, Zenon DEF HeaderOK
  <2>4. i \in 1..listed[r] \/ i > listed[r] BY <2>2
  <2>5. QED BY <2>1, <2>3, <2>4, Zenon
<1>3. QED BY <1>1, <1>2, Zenon

(* A miner refuses a client whose payments it has received only because the  *)
(* header leaves one out that was confirmed, dropped by a write-back, made   *)
(* later, or lost to a crash, on any threads.                                *)
THEOREM RefusalsExplainedHolds == MPSpec => RefusalsExplained
<1> DEFINE Headers == \A r \in Requests : HeaderOK(r)
<1>1. MPSpec => [](TypeOK /\ MoneyInv)
  <2>1. BillingInv => TypeOK /\ MoneyInv BY DEF BillingInv
  <2>2. QED BY <2>1, PaymentImplementsBilling, BillingCorrect, PTL
<1>2. TypeOK /\ MoneyInv /\ AllListed /\ [MPNext]_mpVars => AllListed'
  BY NextListed
<1>3. PaymentTypeOK /\ TypeOK /\ [MPNext]_mpVars => PaymentTypeOK'
  BY NextPaymentType
<1>4. TypeOK /\ MoneyInv /\ PaymentTypeOK /\ AllListed /\ Headers /\ [MPNext]_mpVars
          => Headers'
  BY NextHeader
<1>5. MPInit => AllListed /\ PaymentTypeOK /\ Headers
  <2>1. MPInit => Headers BY DEF MPInit, HeaderOK
  <2>2. MPInit => AllListed BY DEF MPInit, Init, AllListed
  <2>3. QED BY <2>1, <2>2, InitPayment, Zenon
<1>6. TypeOK /\ PaymentTypeOK /\ Headers /\ [MPNext]_mpVars =>
        [\A r \in Requests :
          miner[r] = "sent" /\ miner'[r] = "refused" /\ restarts' = restarts =>
             \/ tracked - TotalAmount(received) >= 2 * Coin
             \/ \E i \in received \ header[r] : Unlisted(i) \/ i > listed[r]]_mpVars
  BY RefusedByCheck, RefusalExplained
<1> HIDE DEF Headers
<1>7. QED BY <1>1, <1>2, <1>3, <1>4, <1>5, <1>6, PTL DEF MPSpec, RefusalsExplained
=============================================================================
