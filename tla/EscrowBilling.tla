--------------------------- MODULE EscrowBilling ---------------------------
(***************************************************************************)
(* Billing of inference requests against one spending limit ("escrow"):    *)
(* CanAffordInference, ReserveEscrowCost, CheckAndDeductEscrow and         *)
(* ReleaseEscrowCost of rpc/escrow.cpp, run by concurrent request threads  *)
(* over the record in LevelDB, the user's wallet and the chain.            *)
(*                                                                         *)
(* Each critical section of g_escrow_mutex is one step, except the one of  *)
(* CheckAndDeductEscrow, which writes the record, transfers coins and      *)
(* writes the record again: a crash can fall between those, so they are    *)
(* three steps and the variable mutex keeps the other sections out.        *)
(***************************************************************************)
EXTENDS Integers, Sequences, FiniteSets, FiniteSetsExt

CONSTANTS
    Requests,       \* inference requests that can be in flight together
    Thread,         \* the event loop or RPC thread each request runs on
    Unreserving,    \* requests of entry points that reserve nothing (P2P, RPC)
    ViaProxy,       \* requests forwarded by the inference proxy
    NoOne,          \* mutex value: g_escrow_mutex is free
    Coin,           \* COIN, the satoshis of one TKNC
    Int64Max,       \* INT64_MAX
    Tokens,         \* token counts an inference can be billed for
    TokensPerTknc,  \* exchange rates a miner can announce
    Totals,         \* total_tknc of a created escrow; 0 = pay as you go
    Reservations,   \* estimated costs, at least Coin
    MaxReservation, \* no estimated cost exceeds it
    Fee,            \* network fee of a transfer
    FlakyTransfers, \* CreateTransaction can fail though the balance would do
    Deposits,       \* amounts that can arrive in the wallet
    OwnerSteps,     \* bound: which of "lock", "load", "suspend", "expire" happen
    MaxCost,        \* no billed cost exceeds it
    MaxServed,      \* bound: no request starts once this much was billed
    MaxDeposited,   \* bound: total money that arrives in the wallet
    MaxCrashes      \* bound: process crashes

ASSUME CoinAssumption == Coin \in Nat \ {0}
ASSUME AmountAssumption ==
    /\ Int64Max \in Nat \ {0} /\ Fee \in Nat /\ MaxCost \in Nat
    /\ MaxServed \in Nat /\ MaxDeposited \in Nat /\ MaxCrashes \in Nat
    /\ Tokens \subseteq Nat /\ TokensPerTknc \subseteq Nat \ {0}
    /\ Totals \subseteq Nat /\ Reservations \subseteq Nat
    /\ MaxReservation \in Nat /\ \A c \in Reservations : c <= MaxReservation
    /\ Deposits \subseteq Nat /\ FlakyTransfers \in BOOLEAN
ASSUME CostAssumption ==
    MaxCost >= 1 /\ \A t \in Tokens : t * Coin <= MaxCost
ASSUME RequestsAssumption ==
    /\ IsFiniteSet(Requests) /\ NoOne \notin Requests
    /\ Unreserving \subseteq Requests /\ ViaProxy \subseteq Requests

VARIABLES
    db,         \* the SpendingLimit record in the database
    wallet,     \* the user's wallet: loaded, locked, balance
    txs,        \* amounts of the transfers broadcast so far; index = txid
    onchain,    \* txids with depth >= 1
    expired,    \* GetTime() > expires_at
    reserved,   \* g_pending_costs[api_key]
    mutex,      \* thread inside CheckAndDeductEscrow, between its writes
    pc,         \* where each request is
    snap,       \* copy of the record read by CanAffordInference
    funds,      \* wallet balance read by CanAffordInference
    hold,       \* reserved_cost of each request
    due,        \* coins_to_pay, then the amount transferred, of each request
    served,     \* history: cost of all inference billed
    paid,       \* history: money sent to the miner, with the fee taken out of it
    deposited,  \* history: money that arrived in the wallet
    crashes     \* history: number of crashes

chainVars == <<txs, onchain>>
reqVars == <<pc, snap, funds, hold, due>>
histVars == <<served, paid, deposited, crashes>>
vars == <<db, wallet, txs, onchain, expired, reserved, mutex, pc, snap, funds,
          hold, due, served, paid, deposited, crashes>>

States == {"CREATED", "ACTIVE", "SUSPENDED", "EXHAUSTED", "CLOSED",
           "PAYMENT_PENDING"}
PCs == {"idle", "screen", "balance", "funds", "admitted", "serving",
        "billing", "paying", "recording", "release"}

(* The fields of struct SpendingLimit the billing reads or writes.           *)
SpendingLimit ==
    [state : States, total : Nat, consumed : Nat, transferred : Nat,
     confirmed : Nat, pending : SUBSET Nat, quota : Nat, used : Nat,
     rate : 0..Coin, miner : BOOLEAN]

(* The record of the default constructor; a copy no longer in use.           *)
DefaultLimit ==
    [state |-> "CREATED", total |-> 0, consumed |-> 0, transferred |-> 0,
     confirmed |-> 0, pending |-> {}, quota |-> 0, used |-> 0, rate |-> 0,
     miner |-> FALSE]

------------------------------------------------------------------------------
(* Computed properties of the record, escrow.h *)

GetRemainingLimit(e) == IF e.total = 0 THEN Int64Max ELSE e.total - e.consumed

IsExhausted(e) ==
    e.total # 0 /\ (e.consumed >= e.total \/ e.used >= e.quota)

Billable(e) == e.state \in {"CREATED", "ACTIVE", "PAYMENT_PENDING"}

(* Satoshis per token: the miner's announced rate, or (0) the record's.      *)
RatePerToken(e, announced) ==
    LET r == IF announced > 0 THEN Coin \div announced ELSE e.rate
    IN  IF r <= 0 THEN 1 ELSE r

(* Mutant: the cost is not cut to the remaining limit.                       *)
ChargeInFull(e, tokens, rate) ==
    [cost |-> IF tokens * rate <= 0 THEN 1 ELSE tokens * rate, tokens |-> tokens]

(* CheckAndDeductEscrow: the cost of an inference, cut to what is left of    *)
(* the limit, and the tokens it then stands for.                             *)
Charge(e, tokens, rate) ==
    LET full == IF tokens * rate <= 0 THEN 1 ELSE tokens * rate
        left == GetRemainingLimit(e)
    IN  IF full > left THEN [cost |-> left, tokens |-> left \div rate]
                       ELSE [cost |-> full, tokens |-> tokens]

TotalAmount(ids) == SumFunctionOnSet(txs, ids)

(* UpdateConfirmedTransfers: pending transfers seen in a block move from      *)
(* pending_txids to confirmed_tknc. Nothing happens without a wallet.         *)
UpdateConfirmedTransfers(e) ==
    LET done == IF wallet.loaded THEN e.pending \cap onchain ELSE {}
    IN  [e EXCEPT !.confirmed = @ + TotalAmount(done), !.pending = @ \ done]

(* Mutant: a coin started counts as a coin crossed.                          *)
CoinsStarted(prev, curr) ==
    ((curr + Coin - 1) \div Coin) - ((prev + Coin - 1) \div Coin)

(* The multiples of Coin passed by a billing: only these are paid.           *)
CoinsCrossed(prev, curr) == (curr \div Coin) - (prev \div Coin)

(* Mutant: a record whose last token is billed stays active.                 *)
BilledStaysActive(e, charge) ==
    [e EXCEPT !.consumed = @ + charge.cost, !.used = @ + charge.tokens,
              !.state = "ACTIVE"]

Billed(e, charge) ==
    LET spent == [e EXCEPT !.consumed = @ + charge.cost,
                           !.used = @ + charge.tokens]
    IN  [spent EXCEPT !.state = IF IsExhausted(spent) THEN "EXHAUSTED"
                                                      ELSE "ACTIVE"]

------------------------------------------------------------------------------
Init ==
    /\ \E total \in Totals, rate \in TokensPerTknc, miner \in BOOLEAN :
          db = [state |-> "CREATED", total |-> total, consumed |-> 0,
                transferred |-> 0, confirmed |-> 0, pending |-> {},
                quota |-> IF total = 0 THEN Int64Max
                                       ELSE (total * rate) \div Coin,
                used |-> 0,
                rate |-> IF rate >= Coin THEN 1 ELSE Coin \div rate,
                miner |-> miner]
    /\ wallet = [loaded |-> TRUE, locked |-> FALSE, balance |-> 0]
    /\ txs = <<>> /\ onchain = {}
    /\ expired = FALSE
    /\ reserved = 0
    /\ mutex = NoOne
    /\ pc = [r \in Requests |-> "idle"]
    /\ snap = [r \in Requests |-> DefaultLimit]
    /\ funds = [r \in Requests |-> 0]
    /\ hold = [r \in Requests |-> 0]
    /\ due = [r \in Requests |-> 0]
    /\ served = 0 /\ paid = 0 /\ deposited = 0 /\ crashes = 0

(* A request runs its handler code only while no other request of the same   *)
(* thread is inside a handler.                                               *)
ThreadFree(r) ==
    \A q \in Requests \ {r} :
        Thread[q] = Thread[r] => pc[q] \in {"idle", "serving"}

Goto(r, label) == pc' = [pc EXCEPT ![r] = label]

(* CanAffordInference, lookup: copies the record under the mutex.            *)
FindEscrow(r) ==
    /\ pc[r] = "idle" /\ mutex = NoOne /\ ThreadFree(r)
    /\ served < MaxServed
    /\ snap' = [snap EXCEPT ![r] = db]
    /\ Goto(r, "screen")
    /\ UNCHANGED <<db, wallet, chainVars, expired, reserved, mutex, funds, hold,
                   due, histVars>>

(* Mutant: no debt rule.                                                     *)
AnyDebtAllowed(e) == TRUE

(* The debt rule for pay-as-you-go records: less than one TKNC unpaid when a *)
(* wallet is loaded here (client side), less than two otherwise.             *)
DebtAllowed(e) ==
    e.total = 0 /\ e.consumed > 0 =>
        e.consumed - e.transferred < IF wallet.loaded THEN Coin ELSE 2 * Coin

(* Mutant: the whole copy is written.                                        *)
WholeCopy(e) == e

(* The record with the confirmed amount and the pending list of the copy e.  *)
ConfirmationsOf(e) == [db EXCEPT !.confirmed = e.confirmed, !.pending = e.pending]

(* CanAffordInference up to its wallet checks. The copy's confirmed amount   *)
(* and pending list are written over those of the record when a transfer was *)
(* newly seen on chain.                                                      *)
Screen(r) ==
    LET e == UpdateConfirmedTransfers(snap[r])
        writeBack == e.pending # snap[r].pending
        pass == /\ DebtAllowed(e)
                /\ e.state \notin {"SUSPENDED", "CLOSED", "EXHAUSTED"}
                /\ ~expired
                /\ e.total > 0 => GetRemainingLimit(e) > 0
    IN  /\ pc[r] = "screen"
        /\ writeBack => mutex = NoOne
        /\ db' = IF writeBack THEN ConfirmationsOf(e) ELSE db
        /\ snap' = [snap EXCEPT ![r] = DefaultLimit]
        /\ Goto(r, IF pass THEN "balance" ELSE "idle")
        /\ UNCHANGED <<wallet, chainVars, expired, reserved, mutex, funds, hold,
                       due, histVars>>

(* CanAffordInference: a wallet must be loaded and hold something. A locked  *)
(* one is accepted.                                                          *)
ReadBalance(r) ==
    /\ pc[r] = "balance"
    /\ IF wallet.loaded /\ wallet.balance > 0
       THEN funds' = [funds EXCEPT ![r] = wallet.balance] /\ Goto(r, "funds")
       ELSE Goto(r, "idle") /\ UNCHANGED funds
    /\ UNCHANGED <<db, wallet, chainVars, expired, reserved, mutex, snap, hold,
                   due, histVars>>

(* Mutant: the reservations of the requests in flight are ignored.           *)
FundsSuffice(r) ==
    /\ pc[r] = "funds"
    /\ Goto(r, "admitted")
    /\ UNCHANGED <<db, wallet, chainVars, expired, reserved, mutex, snap, funds,
                   hold, due, histVars>>

(* CanAffordInference, end: the balance read before must exceed what the     *)
(* requests in flight have reserved.                                         *)
CheckFunds(r) ==
    /\ pc[r] = "funds"
    /\ IF reserved > 0 /\ funds[r] <= reserved
       THEN funds' = [funds EXCEPT ![r] = 0] /\ Goto(r, "idle")
       ELSE Goto(r, "admitted") /\ UNCHANGED funds
    /\ UNCHANGED <<db, wallet, chainVars, expired, reserved, mutex, snap, hold,
                   due, histVars>>

ReserveEscrowCost(r) ==
    /\ pc[r] = "admitted"
    /\ \E c \in IF r \in Unreserving THEN {0} ELSE Reservations :
          hold' = [hold EXCEPT ![r] = c] /\ reserved' = reserved + c
    /\ funds' = [funds EXCEPT ![r] = 0]
    /\ Goto(r, "serving")
    /\ UNCHANGED <<db, wallet, chainVars, expired, mutex, snap, due, histVars>>

(* The inference fails, is empty or its client leaves: nothing is billed.    *)
InferenceFails(r) ==
    /\ pc[r] = "serving" /\ ThreadFree(r)
    /\ Goto(r, "release")
    /\ UNCHANGED <<db, wallet, chainVars, expired, reserved, mutex, snap, funds,
                   hold, due, histVars>>

(* Where the proxy cannot reach the miner, or loses it before the response   *)
(* headers, it deletes the context and with it reserved_cost: what was       *)
(* reserved stays in g_pending_costs.                                        *)
ProxyForgets(r) ==
    /\ pc[r] = "serving" /\ ThreadFree(r) /\ r \in ViaProxy
    /\ hold' = [hold EXCEPT ![r] = 0]
    /\ Goto(r, "idle")
    /\ UNCHANGED <<db, wallet, chainVars, expired, reserved, mutex, snap, funds,
                   due, histVars>>

InferenceSucceeds(r) ==
    /\ pc[r] = "serving" /\ ThreadFree(r)
    /\ Goto(r, "billing")
    /\ UNCHANGED <<db, wallet, chainVars, expired, reserved, mutex, snap, funds,
                   hold, due, histVars>>

(* CheckAndDeductEscrow up to its first write. Without a billable record, or *)
(* when tokens * rate would overflow, it returns false and bills nothing.    *)
(* Crossing a multiple of Coin leaves the newly crossed coins to pay.        *)
Deduct(r, tokens, announced) ==
    LET rate == RatePerToken(db, announced)
        ok == /\ Billable(db) /\ ~IsExhausted(db) /\ ~expired
              /\ tokens <= Int64Max \div rate
        charge == Charge(db, tokens, rate)
        e == Billed(UpdateConfirmedTransfers(db), charge)
        coins == CoinsCrossed(db.consumed, e.consumed)
        pays == ok /\ coins > 0 /\ db.miner
    IN  /\ pc[r] = "billing" /\ mutex = NoOne
        /\ db' = IF ok THEN e ELSE db
        /\ served' = IF ok THEN served + charge.cost ELSE served
        /\ due' = [due EXCEPT ![r] = IF pays THEN coins * Coin ELSE 0]
        /\ mutex' = IF pays THEN r ELSE NoOne
        /\ Goto(r, IF pays THEN "paying" ELSE "release")
        /\ UNCHANGED <<wallet, chainVars, expired, reserved, snap, funds, hold,
                       paid, deposited, crashes>>

CheckAndDeductEscrow(r) ==
    \E tokens \in Tokens, announced \in TokensPerTknc \cup {0} :
        Deduct(r, tokens, announced)

(* TransferFromWallet: what a transfer of a, or else (when it failed) of the *)
(* whole smaller balance, can move; 0 is failure. The fee comes on top of a  *)
(* full transfer and out of a partial one, which the record and the miner    *)
(* count with the fee.                                                       *)
Transfers(a) ==
    LET possible == (IF wallet.balance >= a + Fee THEN {a} ELSE {})
                    \cup (IF wallet.balance > Fee /\ wallet.balance < a
                          THEN {wallet.balance} ELSE {})
    IN  IF possible = {} \/ FlakyTransfers THEN possible \cup {0} ELSE possible

(* The transfer of CheckAndDeductEscrow. No wallet or a locked one: nothing  *)
(* is sent. After a failed transfer nothing is recorded.                     *)
Pay(r) ==
    /\ pc[r] = "paying"
    /\ \E sent \in IF wallet.loaded /\ ~wallet.locked THEN Transfers(due[r]) ELSE {0} :
          /\ due' = [due EXCEPT ![r] = sent]
          /\ IF sent = 0
             THEN /\ mutex' = NoOne /\ Goto(r, "release")
                  /\ UNCHANGED <<wallet, txs, paid>>
             ELSE /\ wallet' = [wallet EXCEPT !.balance =
                                   IF sent = @ THEN 0 ELSE @ - sent - Fee]
                  /\ txs' = Append(txs, sent) /\ paid' = paid + sent
                  /\ Goto(r, "recording")
                  /\ UNCHANGED mutex
    /\ UNCHANGED <<db, onchain, expired, reserved, snap, funds, hold, served,
                   deposited, crashes>>

(* Mutant: a partial transfer is recorded as a whole coin.                   *)
RecordWholeCoin(r) ==
    /\ pc[r] = "recording"
    /\ db' = [db EXCEPT !.pending = @ \cup {Len(txs)}, !.transferred = @ + Coin]
    /\ due' = [due EXCEPT ![r] = 0]
    /\ mutex' = NoOne
    /\ Goto(r, "release")
    /\ UNCHANGED <<wallet, chainVars, expired, reserved, snap, funds, hold,
                   histVars>>

(* Mutant: the second write locks g_escrow_mutex once more.                  *)
RecordLocking(r) ==
    /\ pc[r] = "recording" /\ mutex = NoOne
    /\ db' = [db EXCEPT !.pending = @ \cup {Len(txs)}, !.transferred = @ + due[r]]
    /\ due' = [due EXCEPT ![r] = 0]
    /\ mutex' = NoOne
    /\ Goto(r, "release")
    /\ UNCHANGED <<wallet, chainVars, expired, reserved, snap, funds, hold,
                   histVars>>

(* CheckAndDeductEscrow, second write: the txid joins the pending list.      *)
RecordTransfer(r) ==
    /\ pc[r] = "recording"
    /\ db' = [db EXCEPT !.pending = @ \cup {Len(txs)}, !.transferred = @ + due[r]]
    /\ due' = [due EXCEPT ![r] = 0]
    /\ mutex' = NoOne
    /\ Goto(r, "release")
    /\ UNCHANGED <<wallet, chainVars, expired, reserved, snap, funds, hold,
                   histVars>>

(* Mutant: released by the end of the stream and by the deletion after it.   *)
ReleasedTwice(r) ==
    /\ pc[r] = "release"
    /\ reserved' = IF reserved >= 2 * hold[r] THEN reserved - 2 * hold[r] ELSE 0
    /\ hold' = [hold EXCEPT ![r] = 0]
    /\ Goto(r, "idle")
    /\ UNCHANGED <<db, wallet, chainVars, expired, mutex, snap, funds, due,
                   histVars>>

ReleaseEscrowCost(r) ==
    /\ pc[r] = "release"
    /\ reserved' = IF reserved >= hold[r] THEN reserved - hold[r] ELSE 0
    /\ hold' = [hold EXCEPT ![r] = 0]
    /\ Goto(r, "idle")
    /\ UNCHANGED <<db, wallet, chainVars, expired, mutex, snap, funds, due,
                   histVars>>

(* The steps of a thread inside the node's own code.                         *)
HandlerStep(r) ==
    \/ Screen(r) \/ ReadBalance(r) \/ CheckFunds(r) \/ ReserveEscrowCost(r)
    \/ CheckAndDeductEscrow(r) \/ Pay(r) \/ RecordTransfer(r) \/ ReleaseEscrowCost(r)

RequestStep(r) ==
    \/ FindEscrow(r) \/ HandlerStep(r)
    \/ InferenceFails(r) \/ ProxyForgets(r) \/ InferenceSucceeds(r)

------------------------------------------------------------------------------
(* The rest of the node, the user and the chain.                             *)

unchangedByOwner == <<txs, expired, reserved, mutex, reqVars, served, paid,
                      crashes>>

(* walletlock, walletpassphrase, loadwallet, unloadwallet                    *)
ToggleLock ==
    /\ "lock" \in OwnerSteps
    /\ wallet' = [wallet EXCEPT !.locked = ~@]
    /\ UNCHANGED <<db, onchain, deposited, unchangedByOwner>>

ToggleLoaded ==
    /\ "load" \in OwnerSteps
    /\ wallet' = [wallet EXCEPT !.loaded = ~@]
    /\ UNCHANGED <<db, onchain, deposited, unchangedByOwner>>

Deposit ==
    /\ \E d \in Deposits :
          /\ deposited + d <= MaxDeposited
          /\ deposited' = deposited + d
          /\ wallet' = [wallet EXCEPT !.balance = @ + d]
    /\ UNCHANGED <<db, onchain, unchangedByOwner>>

ConfirmTx ==
    /\ \E i \in (1..Len(txs)) \ onchain : onchain' = onchain \cup {i}
    /\ UNCHANGED <<db, wallet, deposited, unchangedByOwner>>

suspendescrow ==
    /\ "suspend" \in OwnerSteps
    /\ mutex = NoOne /\ db.state \in {"CREATED", "ACTIVE"}
    /\ db' = [db EXCEPT !.state = "SUSPENDED"]
    /\ UNCHANGED <<wallet, onchain, deposited, unchangedByOwner>>

closeescrow ==
    /\ mutex = NoOne /\ expired /\ db.state # "CLOSED"
    /\ db' = [db EXCEPT !.state = "CLOSED"]
    /\ UNCHANGED <<wallet, onchain, deposited, unchangedByOwner>>

Expire ==
    /\ "expire" \in OwnerSteps
    /\ ~expired /\ expired' = TRUE
    /\ UNCHANGED <<db, wallet, chainVars, reserved, mutex, reqVars, histVars>>

(* A crash loses what is only in memory; the record and the chain survive.   *)
Crash ==
    /\ crashes < MaxCrashes /\ crashes' = crashes + 1
    /\ reserved' = 0 /\ mutex' = NoOne
    /\ pc' = [r \in Requests |-> "idle"]
    /\ snap' = [r \in Requests |-> DefaultLimit]
    /\ funds' = [r \in Requests |-> 0]
    /\ hold' = [r \in Requests |-> 0]
    /\ due' = [r \in Requests |-> 0]
    /\ UNCHANGED <<db, wallet, chainVars, expired, served, paid, deposited>>

Surroundings ==
    \/ ToggleLock \/ ToggleLoaded \/ Deposit \/ ConfirmTx
    \/ suspendescrow \/ closeescrow \/ Expire

Running == (\E r \in Requests : RequestStep(r)) \/ Surroundings

Next == Running \/ Crash

Spec == Init /\ [][Next]_vars

(* A thread runs on, and one that waits for the mutex, free again and again, *)
(* gets it in the end. Nothing is assumed of clients and miners.             *)
Fairness == \A r \in Requests : SF_vars(HandlerStep(r))

------------------------------------------------------------------------------
(* Amounts of the record, the wallet and the reservations stay amounts: none *)
(* of the subtractions of the billing code goes below zero.                  *)
TypeOK ==
    /\ db \in SpendingLimit
    /\ wallet \in [loaded : BOOLEAN, locked : BOOLEAN, balance : Nat]
    /\ txs \in Seq(Nat)
    /\ onchain \subseteq 1..Len(txs)
    /\ expired \in BOOLEAN
    /\ reserved \in Nat
    /\ mutex \in Requests \cup {NoOne}
    /\ pc \in [Requests -> PCs]
    /\ snap \in [Requests -> SpendingLimit]
    /\ funds \in [Requests -> Nat]
    /\ hold \in [Requests -> Nat]
    /\ due \in [Requests -> Nat]
    /\ served \in Nat /\ paid \in Nat /\ deposited \in Nat /\ crashes \in Nat

Debt(e) == e.consumed - e.transferred

(* Coins are paid at whole-TKNC boundaries only: whatever the interleaving,  *)
(* the lock, the partial transfers and the crashes, the wallet never sends   *)
(* the miner more than the whole TKNC the record has consumed.               *)
NeverOverpays == paid <= Coin * (db.consumed \div Coin)

(* transferred_tknc is what TransferFromWallet moved: it never runs ahead of *)
(* the money sent, and lags behind it only inside the critical section or    *)
(* after a crash between the transfer and the second write.                  *)
TransfersAccounted ==
    /\ db.transferred <= paid
    /\ crashes = 0 =>
          paid - db.transferred =
              IF mutex # NoOne /\ pc[mutex] = "recording" THEN due[mutex] ELSE 0

(* A prepaid record is never billed beyond its total, though concurrent      *)
(* requests are all admitted against the same remaining limit.               *)
PrepaidLimit == db.total > 0 => db.consumed <= db.total

(* g_pending_costs covers the reservations of the requests in flight: a      *)
(* release takes back what its request reserved, once, and never what        *)
(* another request holds, so CanAffordInference sees all that is in flight.  *)
ReservationsCover == reserved >= SumFunctionOnSet(hold, Requests)

(* A request holds something from ReserveEscrowCost to ReleaseEscrowCost.    *)
ReservationInv ==
    /\ ReservationsCover
    /\ \A r \in Requests :
          pc[r] \in {"idle", "screen", "balance", "funds", "admitted"} => hold[r] = 0

Admitted == {r \in Requests : pc[r] = "admitted"}

(* CanAffordInference does not count the request's own cost, and reserving   *)
(* is a later step, so what is reserved may exceed the balance, but each     *)
(* request adds only one reservation: it stays within the money that ever    *)
(* arrived and one reservation for each request that can be in flight.       *)
OverbookingBound ==
    reserved + MaxReservation * Cardinality(Admitted)
        <= deposited + MaxReservation * Cardinality(Requests)

(* No request decides on a balance larger than what arrived.                 *)
OverbookingInv ==
    /\ OverbookingBound
    /\ wallet.balance <= deposited
    /\ \A r \in Requests : funds[r] <= deposited

(* The unpaid debt of a pay-as-you-go record: CanAffordInference decides on  *)
(* a copy, so each request that passed can add one more cost, but no more.   *)
Tickets ==
    {r \in Requests :
        \/ pc[r] = "screen" /\ Debt(snap[r]) < 2 * Coin
        \/ pc[r] \in {"balance", "funds", "admitted", "serving", "billing"}}

DebtBound ==
    db.total = 0 =>
        Debt(db) + MaxCost * Cardinality(Tickets)
            < 2 * Coin + MaxCost * Cardinality(Requests)

(* Admission looks at the state of the record, billing at its amounts as     *)
(* well: they agree, so what is admitted and served is billed unless the     *)
(* record changes meanwhile. A prepaid total below the price of one token is *)
(* created with a quota of zero and is the exception.                        *)
AdmissionMatchesBilling == Billable(db) /\ db.quota > 0 => ~IsExhausted(db)

(* What makes the invariants above inductive: the thread between the two     *)
(* writes of CheckAndDeductEscrow is the one that holds the mutex; what it   *)
(* is about to pay is covered by coins already consumed; what it is about to *)
(* record has been sent.                                                     *)
SectionOK(r) ==
    /\ pc[r] \in {"paying", "recording"} <=> mutex = r
    /\ pc[r] = "paying" => paid + due[r] <= Coin * (db.consumed \div Coin)
    /\ pc[r] = "recording" => db.transferred + due[r] <= paid

MoneyInv ==
    /\ \A r \in Requests : SectionOK(r)
    /\ served = db.consumed
    /\ NeverOverpays /\ TransfersAccounted /\ PrepaidLimit

(* The copy a request decides on still has the record's total.               *)
CopyOK(r) == pc[r] = "screen" => snap[r].total = db.total

BillingInv ==
    TypeOK /\ MoneyInv /\ (\A r \in Requests : CopyOK(r)) /\ DebtBound

(* Every transfer ever recorded is either confirmed or still on the pending  *)
(* list: UpdateConfirmedTransfers moves amounts, it neither loses nor        *)
(* repeats one.                                                              *)
EveryTransferTracked == db.confirmed + TotalAmount(db.pending) = db.transferred

(* Can the record still be billed? CheckAndDeductEscrow's own conditions.    *)
Open == Billable(db) /\ ~IsExhausted(db) /\ ~expired

Account == INSTANCE SpendingAccount WITH
    Limits <- Totals, limit <- db.total, billed <- db.consumed, open <- Open

(* The threads, the copies of the record, the two writes, the crashes and    *)
(* the user together behave as an account: it is billed in single costs,     *)
(* only while open and within the limit; it pays whole TKNC already billed;  *)
(* and nothing that happens reopens it.                                      *)
ImplementsAccount == Account!Spec

(* No thread stays inside the node's code: each wait for g_escrow_mutex,     *)
(* which is held across a wallet transfer, ends.                             *)
RequestsReturn ==
    \A r \in Requests : pc[r] \notin {"idle", "serving"} ~> pc[r] \in {"idle", "serving"}

=============================================================================
