------------------------------ MODULE Emission ------------------------------
(***************************************************************************)
(* The emission schedule of economics/emission.h: the subsidy of a block   *)
(* is a fixed fraction of the supply that remains, and the remaining       *)
(* supply at a height is computed from a table of checkpoints and a loop   *)
(* over the blocks since the nearest one.  Amounts are in satoshis.        *)
(***************************************************************************)
EXTENDS Integers

CONSTANTS
    TotalSupply,    \* TKNC_TOTAL_SUPPLY * COIN
    Divisor,        \* TKNC_EMISSION_DIVISOR
    BlocksPerYear,  \* TKNC_BLOCKS_PER_YEAR
    CompleteYear,   \* TKNC_EMISSION_COMPLETE_YEAR
    Interval        \* EMISSION_LOOKUP_INTERVAL

ASSUME EmissionAssumption ==
    /\ TotalSupply \in Nat \ {0} /\ Divisor \in Nat \ {0}
    /\ BlocksPerYear \in Nat \ {0} /\ CompleteYear \in Nat \ {0}
    /\ Interval \in Nat \ {0}

TotalBlocks == BlocksPerYear * CompleteYear

(* One round of the loops: a remainder too small for a reward is dropped.    *)
AfterBlock[remaining \in 0..TotalSupply] ==
    LET reward == remaining \div Divisor
    IN  IF reward = 0 THEN 0 ELSE remaining - reward

(* n rounds of the loop; once at 0 it stays there, as after the break.       *)
Decay(remaining, n) ==
    LET left[k \in 0..n] == IF k = 0 THEN remaining ELSE AfterBlock[left[k - 1]]
    IN  left[n]

NumCheckpoints == TotalBlocks \div Interval + 2

EmissionLookupTable ==
    LET checkpoint[i \in 0..(NumCheckpoints - 1)] ==
            IF i = 0 THEN TotalSupply ELSE Decay(checkpoint[i - 1], Interval)
    IN  [i \in 0..(NumCheckpoints - 1) |-> checkpoint[i]]

(* Mutant: the checkpoint stands for all the heights up to the next one.     *)
CheckpointOnly(h) ==
    IF h <= 0 THEN TotalSupply
    ELSE EmissionLookupTable[(IF h > TotalBlocks THEN TotalBlocks ELSE h) \div Interval]

(* Mutant: the loop runs one block too far.                                  *)
OneBlockAhead(h) ==
    IF h <= 0 THEN TotalSupply
    ELSE LET top == IF h > TotalBlocks THEN TotalBlocks ELSE h
             i == top \div Interval
         IN  Decay(EmissionLookupTable[i], top - i * Interval + 1)

ComputeRemainingO1(h) ==
    IF h <= 0 THEN TotalSupply
    ELSE LET top == IF h > TotalBlocks THEN TotalBlocks ELSE h
             i == top \div Interval
         IN  Decay(EmissionLookupTable[i], top - i * Interval)

Complete(h) == h \div BlocksPerYear >= CompleteYear

GetTKNCTotalEmitted(h) ==
    IF h <= 0 THEN 0
    ELSE IF Complete(h) THEN TotalSupply
    ELSE TotalSupply - ComputeRemainingO1(h)

(* At least one satoshi while supply remains.                                *)
GetTKNCBlockSubsidy(h) ==
    LET remaining == TotalSupply - GetTKNCTotalEmitted(h)
        reward == remaining \div Divisor
    IN  IF h <= 0 \/ Complete(h) \/ remaining <= 0 THEN 0
        ELSE IF reward = 0 THEN 1 ELSE reward
=============================================================================
