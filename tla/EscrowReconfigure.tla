------------------------- MODULE EscrowReconfigure -------------------------
(***************************************************************************)
(* tknc_setinferproxytarget run beside the billing of EscrowBilling: an    *)
(* operator thread copies the record, edits the copy and hands it to       *)
(* WriteSpendingLimitFromP2P, which reads the stored record WITHOUT        *)
(* g_escrow_mutex, merges, and takes the mutex only to write.              *)
(* Requests go on meanwhile on threads of their own.                       *)
(*                                                                         *)
(* Of the callers of the merge this is the one that edits a record which   *)
(* is being billed. CanAffordInference merges its own copy when the record *)
(* names no wallet, as OpFind does with the state left as it is. The node  *)
(* that creates a record sends it to its peers once (ESCROWSYNC): it is    *)
(* new to them and stored as it is, so a record of a peer that would merge *)
(* into one billed here is left out. The record of the new miner that      *)
(* follows a change of miner is another record.                            *)
(***************************************************************************)
EXTENDS EscrowBilling

CONSTANT MaxReconfigures   \* bound: calls of tknc_setinferproxytarget
ASSUME ReconfigureAssumption == MaxReconfigures \in Nat

VARIABLES
    opPc,       \* where the operator's call is
    copy,       \* its edited copy of the record
    existing,   \* the record WriteSpendingLimitFromP2P read
    calls       \* history: calls made

opVars == <<opPc, copy, existing, calls>>
allVars == <<vars, opVars>>

(* Mutant: the merge adds the incoming amounts to the stored ones.           *)
AddedUp(a, b) == a + b
Higher(a, b) == IF a > b THEN a ELSE b

(* Mutant: the merge takes the incoming amounts as they are.                 *)
Overwrite(in, old) ==
    [old EXCEPT !.transferred = in.transferred, !.consumed = in.consumed,
                !.confirmed = in.confirmed, !.pending = in.pending,
                !.state = in.state]

(* WriteSpendingLimitFromP2P on a known escrow: amounts only grow, a         *)
(* non-empty pending list and any state replace the stored ones. Rate,       *)
(* wallets, total and quota of the incoming record are ignored.              *)
Merge(in, old) ==
    [old EXCEPT !.transferred = Higher(in.transferred, @),
                !.consumed = Higher(in.consumed, @),
                !.confirmed = Higher(in.confirmed, @),
                !.pending = IF in.pending # {} THEN in.pending ELSE @,
                !.state = in.state]

RInit ==
    /\ Init
    /\ opPc = "idle" /\ copy = DefaultLimit /\ existing = DefaultLimit
    /\ calls = 0

(* Find the record; the same miner leaves its state, a different one closes  *)
(* it. The other edits are to fields Merge ignores.                          *)
OpFind ==
    /\ opPc = "idle" /\ mutex = NoOne /\ calls < MaxReconfigures
    /\ \E e \in {db, [db EXCEPT !.state = "CLOSED"]} : copy' = e
    /\ opPc' = "found" /\ calls' = calls + 1
    /\ UNCHANGED <<vars, existing>>

OpRead ==
    /\ opPc = "found"
    /\ existing' = db
    /\ opPc' = "read"
    /\ UNCHANGED <<vars, copy, calls>>

OpWrite ==
    LET merged == Merge(copy, existing)
    IN  /\ opPc = "read"
        /\ merged # existing => mutex = NoOne
        /\ db' = IF merged # existing THEN merged ELSE db
        /\ opPc' = "idle" /\ copy' = DefaultLimit /\ existing' = DefaultLimit
        /\ UNCHANGED <<wallet, chainVars, expired, reserved, mutex, reqVars,
                       histVars, calls>>

OpCrash ==
    /\ Crash
    /\ opPc' = "idle" /\ copy' = DefaultLimit /\ existing' = DefaultLimit
    /\ UNCHANGED calls

RNext == (Running /\ UNCHANGED opVars) \/ OpFind \/ OpRead \/ OpWrite \/ OpCrash

RSpec == RInit /\ [][RNext]_allVars

RFairSpec == RSpec /\ Fairness

------------------------------------------------------------------------------
(* consumed_tknc is what was billed and transferred_tknc never goes down,    *)
(* whatever the requests write, but in one way: somebody wrote between the   *)
(* unlocked read and the write of the merge. No crash and no stale copy,     *)
(* the operator's or a request's, does it.                                   *)
LossNeedsRace ==
    [][(served' - served # db'.consumed - db.consumed \/ db'.transferred < db.transferred)
          => opPc = "read" /\ opPc' = "idle" /\ db # existing]_allVars

OpTypeOK ==
    /\ opPc \in {"idle", "found", "read"} /\ calls \in Nat
    /\ copy \in SpendingLimit /\ existing \in SpendingLimit

(* Why no other step loses anything: the operator's copy is not ahead of     *)
(* the record, nor later of what the merge read.                             *)
CopiesOrdered ==
    /\ opPc = "found" => copy.consumed <= db.consumed
    /\ opPc = "read" => copy.consumed <= existing.consumed

ReconfigureInv == TypeOK /\ OpTypeOK /\ CopiesOrdered

(* The merge may lose what was billed or sent beside it, and never invents   *)
(* anything: the record claims no transfer that was not sent and no cost     *)
(* that was not billed, and a prepaid one stays within its total.            *)
MergeInventsNothing ==
    db.transferred <= paid /\ db.consumed <= served /\ PrepaidLimit

(* The same of the copies, and of the transfer about to be recorded.         *)
Within(e) ==
    /\ e.transferred <= paid /\ e.consumed <= served
    /\ e.total = db.total /\ (e.total > 0 => e.consumed <= e.total)

SectionsOK ==
    \A r \in Requests :
        /\ pc[r] \in {"paying", "recording"} <=> mutex = r
        /\ pc[r] = "recording" => db.transferred + due[r] <= paid

BooksInv ==
    /\ TypeOK /\ OpTypeOK /\ SectionsOK /\ Within(db)
    /\ opPc # "idle" => Within(copy)
    /\ opPc = "read" => Within(existing)

=============================================================================
