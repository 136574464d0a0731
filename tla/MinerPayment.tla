---------------------------- MODULE MinerPayment ----------------------------
(***************************************************************************)
(* The two nodes of a paid inference together: the client node, which      *)
(* bills and pays as in EscrowBilling, and the miner's node, which keeps   *)
(* its own count of what it served (TrackMinerServedTokens) and refuses a  *)
(* request when the transfers the client lists, looked up in the miner's   *)
(* wallet, leave two TKNC or more of it unpaid (CheckMinerReceivedPayment).*)
(*                                                                         *)
(* The client lists its transfers in the header X-TKNC-Pending-Txids: the  *)
(* pending_txids of its record, read after the reservation by the gateway  *)
(* and before the balance check by the proxy.  ESCROWSYNC, sent only when  *)
(* the record is created, may or may not reach the miner.                  *)
(***************************************************************************)
EXTENDS EscrowBilling

CONSTANTS
    MaxTracked,     \* bound: nothing is sent once the miner has served this much
    MaxFailures     \* bound: crashes of the client and restarts of the miner

ASSUME PaymentAssumption ==
    MaxTracked \in Nat /\ MaxFailures \in Nat

VARIABLES
    header,     \* txids in the header of each request
    listed,     \* history: number of transfers made when the header was written
    dropped,    \* history: unconfirmed txids lost to the list
    miner,      \* where each request is on the miner's node
    known,      \* the record has been synced to the miner's node
    received,   \* txids in the miner's wallet
    tracked,    \* g_miner_served_tknc[api_key]
    trusted,    \* history: part of tracked admitted without looking at payments
    restarts    \* history: restarts of the miner's node

minerVars == <<miner, known, received, tracked, trusted, restarts>>
paymentVars == <<header, listed, dropped, minerVars>>
mpVars == <<vars, paymentVars>>

MPInit ==
    /\ Init
    /\ header = [r \in Requests |-> {}]
    /\ listed = [r \in Requests |-> 0] /\ dropped = {}
    /\ miner = [r \in Requests |-> "none"]
    /\ known = FALSE /\ received = {}
    /\ tracked = 0 /\ trusted = 0 /\ restarts = 0

------------------------------------------------------------------------------
(* The client node.                                                          *)

(* The header lists the pending transfers of the record as it is now.        *)
WriteHeader(r) ==
    /\ header' = [header EXCEPT ![r] = db.pending]
    /\ listed' = [listed EXCEPT ![r] = Len(txs)]

(* The proxy writes the header before it checks the balance.                 *)
Arrive(r) ==
    /\ FindEscrow(r)
    /\ IF r \in ViaProxy THEN WriteHeader(r) ELSE UNCHANGED <<header, listed>>
    /\ UNCHANGED <<dropped, minerVars>>

(* The write-back of CanAffordInference also takes off the list what another *)
(* thread added after the copy was made.                                     *)
WriteBack(r) ==
    /\ Screen(r)
    /\ dropped' = dropped \cup ((db.pending \ db'.pending) \ onchain)
    /\ UNCHANGED <<header, listed, minerVars>>

Admission(r) ==
    /\ ReadBalance(r) \/ CheckFunds(r) \/ ReserveEscrowCost(r)
    /\ UNCHANGED paymentVars

(* The request goes to the miner; the gateway writes the header only now.    *)
SendToMiner(r) ==
    /\ pc[r] = "serving" /\ miner[r] = "none" /\ mutex = NoOne /\ ThreadFree(r)
    /\ tracked < MaxTracked
    /\ miner' = [miner EXCEPT ![r] = "sent"]
    /\ IF r \in ViaProxy THEN UNCHANGED <<header, listed>> ELSE WriteHeader(r)
    /\ UNCHANGED <<vars, dropped, known, received, tracked, trusted, restarts>>

(* The request is over for the client: its connection to the miner closes.   *)
HangUp(r) ==
    /\ miner' = [miner EXCEPT ![r] = "none"]
    /\ header' = [header EXCEPT ![r] = {}]
    /\ listed' = [listed EXCEPT ![r] = 0]
    /\ UNCHANGED <<dropped, known, received, tracked, trusted, restarts>>

(* Refused, failed, timed out, or left by its client.                        *)
GetsNothing(r) == (InferenceFails(r) \/ ProxyForgets(r)) /\ HangUp(r)

(* The answer is complete, or the proxy's client leaves in the middle of it. *)
GetsAnswer(r) ==
    /\ InferenceSucceeds(r)
    /\ miner[r] = "done" \/ (miner[r] = "running" /\ r \in ViaProxy)
    /\ HangUp(r)

Settlement(r) ==
    /\ CheckAndDeductEscrow(r) \/ Pay(r) \/ RecordTransfer(r) \/ ReleaseEscrowCost(r)
    /\ UNCHANGED paymentVars

(* The user's wallet, the owner's calls, time and the chain.                 *)
Outside == Surroundings /\ UNCHANGED paymentVars

(* A transfer sent and not yet recorded never gets on the list.              *)
ClientCrash ==
    /\ Crash /\ crashes + restarts < MaxFailures
    /\ dropped' = dropped \cup
          {i \in {Len(txs)} : \E r \in Requests : pc[r] = "recording"}
    /\ header' = [r \in Requests |-> {}] /\ listed' = [r \in Requests |-> 0]
    /\ miner' = [r \in Requests |-> "none"]
    /\ UNCHANGED <<known, received, tracked, trusted, restarts>>

------------------------------------------------------------------------------
(* The miner's node.                                                         *)

(* The ESCROWSYNC of createescrow arrives: WriteSpendingLimitFromP2P.        *)
SyncArrives ==
    /\ ~known /\ known' = TRUE
    /\ UNCHANGED <<vars, header, listed, dropped, miner, received, tracked, trusted, restarts>>

(* A transfer reaches the miner's wallet, by its mempool or a block.         *)
ReceiveTx ==
    /\ \E i \in (1..Len(txs)) \ received : received' = received \cup {i}
    /\ UNCHANGED <<vars, header, listed, dropped, miner, known, tracked, trusted, restarts>>

(* Is there a debt to look at, a record to find the wallet with, and is it   *)
(* this node's wallet?                                                       *)
Verifies == tracked > 0 /\ known /\ db.miner

(* Mutant: the miner admits whatever is unpaid.                              *)
AnyDebtAccepted(txids) == TRUE

(* Mutant: one TKNC of grace instead of two.                                 *)
OneCoinGrace(txids) ==
    Verifies => tracked - TotalAmount(txids \cap received) < Coin

(* Listed transfers found in the wallet count with their amount.             *)
CheckMinerReceivedPayment(txids) ==
    Verifies => tracked - TotalAmount(txids \cap received) < 2 * Coin

MinerAdmits(r) ==
    /\ miner[r] = "sent"
    /\ CheckMinerReceivedPayment(header[r])
    /\ miner' = [miner EXCEPT ![r] = IF Verifies \/ tracked = 0 THEN "running" ELSE "trusted"]
    /\ UNCHANGED <<vars, header, listed, dropped, known, received, tracked, trusted, restarts>>

MinerRefuses(r) ==
    /\ miner[r] = "sent"
    /\ ~CheckMinerReceivedPayment(header[r])
    /\ miner' = [miner EXCEPT ![r] = "refused"]
    /\ UNCHANGED <<vars, header, listed, dropped, known, received, tracked, trusted, restarts>>

(* TrackMinerServedTokens, before the end of the answer is sent: at the      *)
(* record's rate, or one satoshi per token without the record.               *)
TrackMinerServedTokens(r) ==
    /\ miner[r] \in {"running", "trusted"}
    /\ miner' = [miner EXCEPT ![r] = "done"]
    /\ \E tokens \in Tokens \ {0} :
          LET cost == tokens * (IF known THEN db.rate ELSE 1)
          IN  /\ tracked' = tracked + cost
              /\ trusted' = IF miner[r] = "trusted" THEN trusted + cost ELSE trusted
    /\ UNCHANGED <<vars, header, listed, dropped, known, received, restarts>>

(* The count is in memory only; the record and the wallet survive.           *)
MinerRestart ==
    /\ crashes + restarts < MaxFailures /\ restarts' = restarts + 1
    /\ tracked' = 0 /\ trusted' = 0
    /\ miner' = [r \in Requests |-> IF miner[r] = "none" THEN "none" ELSE "refused"]
    /\ UNCHANGED <<vars, header, listed, dropped, known, received>>

------------------------------------------------------------------------------
MPNext ==
    \/ \E r \in Requests :
          \/ Arrive(r) \/ WriteBack(r) \/ Admission(r) \/ SendToMiner(r)
          \/ GetsNothing(r) \/ GetsAnswer(r) \/ Settlement(r)
          \/ MinerAdmits(r) \/ MinerRefuses(r) \/ TrackMinerServedTokens(r)
    \/ Outside \/ ClientCrash \/ SyncArrives \/ ReceiveTx \/ MinerRestart

MPSpec == MPInit /\ [][MPNext]_mpVars

------------------------------------------------------------------------------
Serving == {r \in Requests : miner[r] = "running"}

(* The grace period bounds the debt that the miner counts, though requests   *)
(* are admitted on the same count and counted later: beyond the transfers in *)
(* its wallet it has counted less than two TKNC and one inference for each   *)
(* concurrent request. It counts since it started, completed answers only,   *)
(* and `trusted` is what it admitted without a record to verify with: work   *)
(* outside that count is not bounded by the code.                            *)
CountedDebtBound ==
    tracked - trusted + MaxCost * Cardinality(Serving)
        < TotalAmount(received) + 2 * Coin + MaxCost * Cardinality(Requests)

MinerStates == {"none", "sent", "running", "trusted", "done", "refused"}

PaymentTypeOK ==
    /\ miner \in [Requests -> MinerStates]
    /\ header \in [Requests -> SUBSET Nat] /\ listed \in [Requests -> Nat]
    /\ dropped \subseteq Nat /\ known \in BOOLEAN /\ received \subseteq 1..Len(txs)
    /\ tracked \in Nat /\ trusted \in Nat /\ restarts \in Nat

(* Where a transfer can be when it is not on the pending list.               *)
Unlisted(i) == i \in onchain \cup dropped

Listed(i) ==
    \/ i \in db.pending \/ Unlisted(i)
    \/ i = Len(txs) /\ \E r \in Requests : pc[r] = "recording"

HeaderOK(r) == \A i \in 1..listed[r] : i \in header[r] \/ Unlisted(i)

(* A miner refuses a client whose payments it has received only because the  *)
(* header does not list one of them: a transfer already confirmed, which     *)
(* UpdateConfirmedTransfers took off the list, one that a write-back of      *)
(* CanAffordInference dropped, one made after the header was written, or one *)
(* that a crash of the client kept out of the record.                        *)
RefusalsExplained ==
    [][\A r \in Requests :
          miner[r] = "sent" /\ miner'[r] = "refused" /\ restarts' = restarts =>
             \/ tracked - TotalAmount(received) >= 2 * Coin
             \/ \E i \in received \ header[r] : Unlisted(i) \/ i > listed[r]]_mpVars

(* "Inference refused until payment is received": the miner refuses only     *)
(* while it has not received payment for all but two TKNC of what it served. *)
RefusedOnlyUnpaid ==
    [][\A r \in Requests :
          miner[r] = "sent" /\ miner'[r] = "refused" /\ restarts' = restarts =>
             tracked - TotalAmount(received) >= 2 * Coin]_mpVars
=============================================================================
