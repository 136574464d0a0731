-------------------------- MODULE SpendingAccount --------------------------
(***************************************************************************)
(* What a spending limit promises to the user and to the miner, with no    *)
(* threads, locks, copies, wallets or crashes: an account that is billed   *)
(* one cost at a time while it is open, never beyond a prepaid limit; that *)
(* pays out only whole TKNC already billed; and that once closed (by the   *)
(* user, by expiry or by exhaustion) is never billed again.                *)
(***************************************************************************)
EXTENDS Integers

CONSTANTS Coin, MaxCost, Limits

VARIABLES limit, billed, paid, open

vars == <<limit, billed, paid, open>>

Init ==
    /\ limit \in Limits
    /\ billed = 0 /\ paid = 0
    /\ open \in BOOLEAN

Bill ==
    /\ open
    /\ \E cost \in 1..MaxCost : billed' = billed + cost
    /\ limit > 0 => billed' <= limit
    /\ open' \in BOOLEAN
    /\ UNCHANGED <<limit, paid>>

Pay ==
    /\ paid' > paid
    /\ paid' <= Coin * (billed \div Coin)
    /\ UNCHANGED <<limit, billed, open>>

Close ==
    /\ open /\ open' = FALSE
    /\ UNCHANGED <<limit, billed, paid>>

Next == Bill \/ Pay \/ Close

Spec == Init /\ [][Next]_vars
=============================================================================
