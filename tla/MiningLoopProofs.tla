-------------------------- MODULE MiningLoopProofs --------------------------
(***************************************************************************)
(* Proofs about Emission and MiningLoop, for any supply, divisor, length   *)
(* of the emission and interval of the checkpoints, and for any chain.     *)
(***************************************************************************)
EXTENDS MiningLoop, SumTheorems

-----------------------------------------------------------------------------
(* Arithmetic of the divisions.                                              *)

(* The arithmetic the provers need: a product one step on.                   *)
LEMMA Product ==
    ASSUME NEW a \in Nat, NEW d \in Nat
    PROVE  a * d \in Nat /\ (a + 1) * d = a * d + d
OBVIOUS

(* Division with remainder.                                                  *)
LEMMA Quotient ==
    ASSUME NEW a \in Nat, NEW d \in Nat \ {0}
    PROVE  /\ a \div d \in Nat /\ (a \div d) * d \in Nat
           /\ (a \div d) * d <= a /\ a < (a \div d) * d + d
           /\ a \div d <= a
OBVIOUS

(* Division is monotone.                                                     *)
LEMMA QuotientMonotone ==
    ASSUME NEW a \in Nat, NEW b \in Nat, NEW d \in Nat \ {0}, a <= b
    PROVE  a \div d <= b \div d
OBVIOUS

(* A quotient reaches c when the dividend reaches b * c.                     *)
LEMMA QuotientAtLeast ==
    ASSUME NEW a \in Nat, NEW b \in Nat \ {0}, NEW c \in Nat
    PROVE  a \div b >= c <=> a >= b * c
OBVIOUS

-----------------------------------------------------------------------------
(* The loop over the blocks.                                                 *)

Supply == 0..TotalSupply

(* A block takes a fraction of what remains, or drops it.                    *)
LEMMA AfterBlockStep ==
    /\ AfterBlock \in [Supply -> Supply]
    /\ \A x \in Supply :
          AfterBlock[x] = IF x \div Divisor = 0 THEN 0 ELSE x - (x \div Divisor)
<1>1. \A x \in Supply : x \div Divisor \in Nat /\ x \div Divisor <= x
  BY EmissionAssumption, Quotient DEF Supply
<1>2. AfterBlock = [x \in Supply |-> IF x \div Divisor = 0 THEN 0 ELSE x - (x \div Divisor)]
  BY DEF AfterBlock, Supply
<1> HIDE DEF Supply
<1>3. \A x \in Supply : AfterBlock[x] = IF x \div Divisor = 0 THEN 0 ELSE x - (x \div Divisor)
  BY <1>2
<1>4. \A x \in Supply : AfterBlock[x] \in Supply
  BY <1>1, <1>3, EmissionAssumption DEF Supply
<1> QED  BY <1>2, <1>3, <1>4

(* The n + 1 values of the loop variable in n rounds.                        *)
Rounds(left, r, n) ==
    left = [k \in 0..n |-> IF k = 0 THEN r ELSE AfterBlock[left[k - 1]]]

(* Decay is the loop over the blocks: its value is that of the last round.   *)
LEMMA DecayRounds ==
    ASSUME NEW r \in Supply, NEW n \in Nat
    PROVE  \E left \in [0..n -> Supply] : Rounds(left, r, n) /\ Decay(r, n) = left[n]
<1> DEFINE g == [k \in 1..n |-> AfterBlock]
           left == CHOOSE f : Rounds(f, r, n)
<1>1. g \in [1..n -> [Supply -> Supply]]
  BY AfterBlockStep
<1>2. PICK f \in [0..n -> Supply] :
            f[0] = r /\ \A k \in 1..n : f[k] = g[k][f[k - 1]]
  <2> HIDE DEF g
  <2> QED  BY <1>1, LoopExists
<1>3. Rounds(f, r, n)
  BY <1>2 DEF Rounds
<1>4. Decay(r, n) = left[n]
  BY DEF Decay, Rounds
<1>5. Rounds(left, r, n)
  BY <1>3
<1> HIDE DEF left, g
<1>6. \A k \in Nat : k \in 0..n => left[k] = f[k]
  <2> DEFINE T == {k \in Nat : k \in 0..n => left[k] = f[k]}
  <2>1. 0 \in T
    BY <1>3, <1>5 DEF Rounds
  <2>2. \A k \in Nat : k \in T => k + 1 \in T
    BY <1>3, <1>5 DEF Rounds
  <2> HIDE DEF T
  <2>3. Nat \subseteq T
    BY <2>1, <2>2, NatSetInduction
  <2> QED  BY <2>3 DEF T
<1>7. left \in [0..n -> Supply]
  <2>1. \A k \in 0..n : left[k] \in Supply
    BY <1>6
  <2>2. left = [k \in 0..n |-> left[k]]
    BY <1>5 DEF Rounds
  <2> QED  BY <2>1, <2>2
<1> QED  BY <1>4, <1>5, <1>7

(* Two loops from the same remainder agree as far as both go.                *)
LEMMA RoundsAgree ==
    ASSUME NEW r, NEW m \in Nat, NEW n \in Nat, m <= n,
           NEW f, Rounds(f, r, m), NEW g, Rounds(g, r, n)
    PROVE  f[m] = g[m]
<1> DEFINE T == {k \in Nat : k <= m => f[k] = g[k]}
<1>1. 0 \in T
  BY DEF Rounds
<1>2. \A k \in Nat : k \in T => k + 1 \in T
  BY DEF Rounds
<1> HIDE DEF T
<1>3. Nat \subseteq T
  BY <1>1, <1>2, NatSetInduction
<1> QED  BY <1>3 DEF T

(* Decay in terms of itself: no round, one round more.                       *)
LEMMA DecayStep ==
    ASSUME NEW r \in Supply, NEW n \in Nat
    PROVE  /\ Decay(r, n) \in Supply /\ Decay(r, 0) = r
           /\ Decay(r, n + 1) = AfterBlock[Decay(r, n)]
<1>1. PICK f \in [0..n -> Supply] : Rounds(f, r, n) /\ Decay(r, n) = f[n]
  BY DecayRounds
<1>2. PICK g \in [0..(n + 1) -> Supply] :
            Rounds(g, r, n + 1) /\ Decay(r, n + 1) = g[n + 1]
  <2>1. n + 1 \in Nat
    OBVIOUS
  <2> QED  BY <2>1, DecayRounds, Zenon
<1>3. PICK z \in [0..0 -> Supply] : Rounds(z, r, 0) /\ Decay(r, 0) = z[0]
  BY DecayRounds, Zenon
<1>4. f[n] = g[n]
  BY <1>1, <1>2, RoundsAgree
<1>5. g[n + 1] = AfterBlock[g[n]]
  BY <1>2 DEF Rounds
<1>6. z[0] = r
  BY <1>3 DEF Rounds
<1> QED  BY <1>1, <1>2, <1>3, <1>4, <1>5, <1>6

(* Stopping at a checkpoint and going on from it is going on.                *)
LEMMA DecayFromCheckpoint ==
    ASSUME NEW r \in Supply, NEW m \in Nat, NEW n \in Nat
    PROVE  Decay(Decay(r, m), n) = Decay(r, m + n)
<1> DEFINE T == {k \in Nat : Decay(Decay(r, m), k) = Decay(r, m + k)}
<1>1. Decay(r, m) \in Supply
  BY DecayStep
<1>2. 0 \in T
  BY <1>1, DecayStep
<1>3. ASSUME NEW k \in Nat, k \in T PROVE k + 1 \in T
  <2>1. Decay(Decay(r, m), k + 1) = AfterBlock[Decay(Decay(r, m), k)]
    BY <1>1, DecayStep, Zenon
  <2>2. m + k \in Nat /\ m + (k + 1) = (m + k) + 1
    OBVIOUS
  <2>3. Decay(r, (m + k) + 1) = AfterBlock[Decay(r, m + k)]
    BY <2>2, DecayStep
  <2> QED  BY <1>3, <2>1, <2>2, <2>3
<1> HIDE DEF T
<1>4. Nat \subseteq T
  BY <1>2, <1>3, NatSetInduction
<1> QED  BY <1>4 DEF T

-----------------------------------------------------------------------------
(* The table of checkpoints.                                                 *)

(* The table covers every block with a reward.                               *)
LEMMA Checkpoints ==
    /\ TotalBlocks \in Nat \ {0} /\ TotalBlocks \div Interval \in Nat
    /\ NumCheckpoints - 1 = TotalBlocks \div Interval + 1
    /\ TotalSupply \in Supply
<1>1. BlocksPerYear * CompleteYear \in Nat \ {0}
  BY EmissionAssumption
<1>2. TotalBlocks \in Nat \ {0}
  BY <1>1 DEF TotalBlocks
<1>3. TotalBlocks \div Interval \in Nat
  BY <1>2, EmissionAssumption, Quotient
<1> QED  BY <1>2, <1>3, EmissionAssumption DEF NumCheckpoints, Supply

(* The i-th checkpoint is the supply after i intervals, block by block.      *)
LEMMA TableEntry ==
    ASSUME NEW i \in 0..(NumCheckpoints - 1)
    PROVE  EmissionLookupTable[i] = Decay(TotalSupply, i * Interval)
<1> DEFINE n == NumCheckpoints - 1
           Fills(f) == f = [k \in 0..n |-> IF k = 0 THEN TotalSupply
                                           ELSE Decay(f[k - 1], Interval)]
           g == [k \in 1..n |-> [x \in Supply |-> Decay(x, Interval)]]
           table == CHOOSE f : Fills(f)
<1>1. n \in Nat /\ TotalSupply \in Supply /\ Interval \in Nat
  BY Checkpoints, EmissionAssumption
<1>2. EmissionLookupTable = [k \in 0..n |-> table[k]]
  BY DEF EmissionLookupTable
<1>3. g \in [1..n -> [Supply -> Supply]]
  BY <1>1, DecayStep
<1> HIDE DEF n
<1>4. PICK f \in [0..n -> Supply] :
            f[0] = TotalSupply /\ \A k \in 1..n : f[k] = g[k][f[k - 1]]
  <2> HIDE DEF g
  <2> QED  BY <1>1, <1>3, LoopExists
<1>5. Fills(f)
  <2>1. ASSUME NEW k \in 1..n
        PROVE  f[k - 1] \in Supply /\ f[k] = Decay(f[k - 1], Interval)
    <3>1. k - 1 \in 0..n /\ f[k - 1] \in Supply
      BY <1>1
    <3>2. \A x \in Supply : g[k][x] = Decay(x, Interval)
      OBVIOUS
    <3> HIDE DEF g
    <3> QED  BY <1>4, <3>1, <3>2
  <2> QED  BY <1>1, <1>4, <2>1
<1>6. Fills(table)
  BY <1>5, Zenon
<1> HIDE DEF table, g
<1> DEFINE T == {k \in Nat : k <= n => table[k] = Decay(TotalSupply, k * Interval)}
<1>7. 0 \in T
  <2>1. 0 * Interval = 0 /\ Decay(TotalSupply, 0) = TotalSupply
    BY <1>1, DecayStep
  <2>2. table[0] = TotalSupply
    BY <1>1, <1>6
  <2> QED  BY <2>1, <2>2
<1>8. ASSUME NEW k \in Nat, k \in T, k + 1 <= n
      PROVE  table[k + 1] = Decay(TotalSupply, (k + 1) * Interval)
  <2>1. table[k + 1] = Decay(table[k], Interval)
    BY <1>1, <1>6, <1>8
  <2>2. table[k] = Decay(TotalSupply, k * Interval)
    BY <1>1, <1>8
  <2>3. k * Interval \in Nat /\ (k + 1) * Interval = k * Interval + Interval
    BY <1>1, Product
  <2> QED  BY <1>1, <2>1, <2>2, <2>3, DecayFromCheckpoint
<1>9. \A k \in Nat : k \in T => k + 1 \in T
  BY <1>8
<1>10. i \in Nat /\ i <= n
  BY <1>1 DEF n
<1> HIDE DEF T
<1>11. i \in T
  BY <1>7, <1>9, <1>10, NatSetInduction
<1> QED  BY <1>1, <1>2, <1>10, <1>11 DEF T

(* The table and the partial loop give the supply block by block, at every   *)
(* height.                                                                   *)
LEMMA RemainingAtHeight ==
    ASSUME NEW h \in Nat
    PROVE  ComputeRemainingO1(h) = Remaining(h) /\ Remaining(h) \in Supply
<1> DEFINE top == IF h > TotalBlocks THEN TotalBlocks ELSE h
           i == top \div Interval
<1>1. top \in Nat /\ top <= TotalBlocks /\ TotalSupply \in Supply
  BY Checkpoints
<1>2. Remaining(h) = Decay(TotalSupply, top) /\ Remaining(h) \in Supply
  BY <1>1, DecayStep DEF Remaining
<1>3. CASE h = 0
  <2>1. ComputeRemainingO1(h) = TotalSupply /\ top = 0
    BY <1>3, Checkpoints DEF ComputeRemainingO1
  <2> QED  BY <1>1, <1>2, <2>1, DecayStep, SMTT(30)
<1>4. CASE h # 0
  <2>1. ComputeRemainingO1(h) = Decay(EmissionLookupTable[i], top - i * Interval)
    BY <1>4 DEF ComputeRemainingO1
  <2> HIDE DEF top
  <2>2. i \in Nat /\ i * Interval \in Nat /\ top - i * Interval \in Nat
    BY <1>1, EmissionAssumption, Quotient
  <2>3. i <= TotalBlocks \div Interval
    BY <1>1, Checkpoints, EmissionAssumption, QuotientMonotone
  <2> HIDE DEF i
  <2>4. EmissionLookupTable[i] = Decay(TotalSupply, i * Interval)
    BY <2>2, <2>3, Checkpoints, TableEntry
  <2>5. i * Interval + (top - i * Interval) = top
    BY <1>1, <2>2
  <2> QED  BY <1>1, <1>2, <2>1, <2>2, <2>4, <2>5, DecayFromCheckpoint
<1> QED  BY <1>3, <1>4

-----------------------------------------------------------------------------
(* What is emitted, and the subsidy.                                         *)

(* The emission is complete from block TotalBlocks on.                       *)
LEMMA CompleteAt ==
    ASSUME NEW h \in Nat
    PROVE  Complete(h) <=> h >= TotalBlocks
BY EmissionAssumption, QuotientAtLeast DEF Complete, TotalBlocks

(* The supply that remains, one block on.                                    *)
LEMMA RemainingStep ==
    ASSUME NEW h \in Nat
    PROVE  /\ Remaining(0) = TotalSupply
           /\ h < TotalBlocks => Remaining(h + 1) = AfterBlock[Remaining(h)]
<1>1. Remaining(0) = TotalSupply
  BY Checkpoints, DecayStep DEF Remaining
<1>2. ASSUME h < TotalBlocks PROVE Remaining(h + 1) = AfterBlock[Remaining(h)]
  <2>1. Remaining(h + 1) = Decay(TotalSupply, h + 1) /\ Remaining(h) = Decay(TotalSupply, h)
    BY <1>2, Checkpoints DEF Remaining
  <2> QED  BY <2>1, Checkpoints, DecayStep
<1> QED  BY <1>1, <1>2

(* GetTKNCTotalEmitted in terms of the supply block by block.                *)
LEMMA Emitted ==
    ASSUME NEW h \in Nat
    PROVE  /\ GetTKNCTotalEmitted(h) =
                 IF h >= TotalBlocks THEN TotalSupply ELSE TotalSupply - Remaining(h)
           /\ GetTKNCTotalEmitted(h) \in Supply
<1>1. Remaining(h) \in Supply /\ ComputeRemainingO1(h) = Remaining(h)
  BY RemainingAtHeight
<1>2. h = 0 => Remaining(h) = TotalSupply /\ ~(h >= TotalBlocks)
  BY RemainingStep, Checkpoints
<1>3. GetTKNCTotalEmitted(h) =
          IF h >= TotalBlocks THEN TotalSupply ELSE TotalSupply - Remaining(h)
  BY <1>1, <1>2, CompleteAt, EmissionAssumption DEF GetTKNCTotalEmitted
<1> QED  BY <1>1, <1>3, EmissionAssumption DEF Supply

(* The subsidy: a fraction of the remainder, at least one satoshi of it.     *)
Reward(remaining) ==
    IF remaining = 0 THEN 0
    ELSE IF remaining \div Divisor = 0 THEN 1 ELSE remaining \div Divisor

(* The reward of a block by the supply that remains.                         *)
LEMMA Subsidy ==
    ASSUME NEW h \in Nat
    PROVE  /\ GetTKNCBlockSubsidy(h) =
                 IF h = 0 \/ h >= TotalBlocks THEN 0 ELSE Reward(Remaining(h))
           /\ GetTKNCBlockSubsidy(h) \in Nat
<1> DEFINE R == Remaining(h)
           G == GetTKNCTotalEmitted(h)
<1>1. R \in Supply
  BY RemainingAtHeight
<1>2. R \in Nat /\ R \div Divisor \in Nat
  BY <1>1, EmissionAssumption, Quotient DEF Supply
<1>3. ~(h >= TotalBlocks) => TotalSupply - G = R
  BY <1>1, Emitted, EmissionAssumption DEF Supply
<1>4. GetTKNCBlockSubsidy(h) =
          IF h <= 0 \/ Complete(h) \/ TotalSupply - G <= 0 THEN 0
          ELSE IF (TotalSupply - G) \div Divisor = 0 THEN 1
          ELSE (TotalSupply - G) \div Divisor
  BY DEF GetTKNCBlockSubsidy
<1> HIDE DEF R, G
<1>5. GetTKNCBlockSubsidy(h) = IF h = 0 \/ h >= TotalBlocks THEN 0 ELSE Reward(R)
  <2>1. CASE h >= TotalBlocks
    BY <1>4, <2>1, CompleteAt
  <2>2. CASE ~(h >= TotalBlocks)
    BY <1>2, <1>3, <1>4, <2>2, CompleteAt DEF Reward
  <2> QED  BY <2>1, <2>2
<1>6. Reward(R) \in Nat
  BY <1>2 DEF Reward
<1> QED  BY <1>5, <1>6 DEF R

(* A block's subsidy is within what the schedule emits with that block: the  *)
(* remainder that is dropped pays for the satoshi of the smallest rewards.   *)
LEMMA SubsidyWithinSchedule ==
    ASSUME NEW h \in Nat
    PROVE  GetTKNCTotalEmitted(h) + GetTKNCBlockSubsidy(h + 1)
               <= GetTKNCTotalEmitted(h + 1)
<1> DEFINE R == Remaining(h)
           S == Remaining(h + 1)
<1>1. h + 1 \in Nat /\ R \in Supply /\ S \in Supply /\ TotalSupply \in Nat
  BY RemainingAtHeight, EmissionAssumption
<1>2. CASE h + 1 >= TotalBlocks
  <2>1. GetTKNCBlockSubsidy(h + 1) = 0 /\ GetTKNCTotalEmitted(h + 1) = TotalSupply
    BY <1>1, <1>2, Subsidy, Emitted
  <2>2. GetTKNCTotalEmitted(h) \in Supply
    BY Emitted
  <2> QED  BY <1>1, <2>1, <2>2 DEF Supply
<1>3. CASE ~(h + 1 >= TotalBlocks)
  <2>1. /\ GetTKNCTotalEmitted(h) = TotalSupply - R
        /\ GetTKNCTotalEmitted(h + 1) = TotalSupply - S
        /\ GetTKNCBlockSubsidy(h + 1) = Reward(S)
        /\ S = AfterBlock[R]
    BY <1>1, <1>3, Subsidy, Emitted, RemainingStep, Checkpoints
  <2> HIDE DEF R, S
  <2>2. Reward(S) <= R - S /\ Reward(S) \in Nat
    <3>1. R \in Nat /\ S \in Nat /\ R \div Divisor \in Nat /\ S \div Divisor \in Nat
      BY <1>1, EmissionAssumption, Quotient DEF Supply
    <3>2. S = IF R \div Divisor = 0 THEN 0 ELSE R - (R \div Divisor)
      BY <1>1, <2>1, AfterBlockStep
    <3>3. S <= R => S \div Divisor <= R \div Divisor
      BY <3>1, EmissionAssumption, QuotientMonotone
    <3> QED  BY <3>1, <3>2, <3>3 DEF Reward
  <2> QED  BY <1>1, <2>1, <2>2 DEF Supply
<1> QED  BY <1>2, <1>3

(* The subsidy never rises with the height.                                  *)
LEMMA SubsidyStep ==
    ASSUME NEW h \in Nat \ {0}
    PROVE  GetTKNCBlockSubsidy(h + 1) <= GetTKNCBlockSubsidy(h)
<1> DEFINE R == Remaining(h)
           S == Remaining(h + 1)
<1>1. h + 1 \in Nat /\ R \in Supply /\ S \in Supply
  BY RemainingAtHeight
<1>2. CASE h + 1 >= TotalBlocks
  BY <1>1, <1>2, Subsidy
<1>3. CASE ~(h + 1 >= TotalBlocks)
  <2>1. /\ GetTKNCBlockSubsidy(h) = Reward(R) /\ GetTKNCBlockSubsidy(h + 1) = Reward(S)
        /\ S = AfterBlock[R]
    BY <1>1, <1>3, Subsidy, RemainingStep, Checkpoints
  <2> HIDE DEF R, S
  <2>2. R \in Nat /\ S \in Nat /\ R \div Divisor \in Nat /\ S \div Divisor \in Nat
    BY <1>1, EmissionAssumption, Quotient DEF Supply
  <2>3. S = IF R \div Divisor = 0 THEN 0 ELSE R - (R \div Divisor)
    BY <1>1, <2>1, AfterBlockStep
  <2>4. S <= R => S \div Divisor <= R \div Divisor
    BY <2>2, EmissionAssumption, QuotientMonotone
  <2> QED  BY <2>1, <2>2, <2>3, <2>4 DEF Reward
<1> QED  BY <1>2, <1>3

(* The reward never rises.                                                   *)
LEMMA SubsidyFalls ==
    ASSUME NEW h \in Nat \ {0}, NEW g \in Nat, h <= g
    PROVE  GetTKNCBlockSubsidy(g) <= GetTKNCBlockSubsidy(h)
<1> DEFINE T == {k \in Nat : GetTKNCBlockSubsidy(h + k) <= GetTKNCBlockSubsidy(h)}
<1>1. \A k \in Nat : h + k \in Nat \ {0} /\ GetTKNCBlockSubsidy(h + k) \in Nat
  BY Subsidy
<1>2. 0 \in T
  BY <1>1
<1>3. ASSUME NEW k \in Nat, k \in T PROVE k + 1 \in T
  <2>1. h + (k + 1) = (h + k) + 1
    OBVIOUS
  <2>2. GetTKNCBlockSubsidy((h + k) + 1) <= GetTKNCBlockSubsidy(h + k)
    BY <1>1, SubsidyStep
  <2>3. /\ GetTKNCBlockSubsidy(h + k) \in Nat /\ GetTKNCBlockSubsidy(h) \in Nat
        /\ GetTKNCBlockSubsidy((h + k) + 1) \in Nat
    BY <1>1, <2>1, Subsidy
  <2> QED  BY <1>3, <2>1, <2>2, <2>3
<1> HIDE DEF T
<1>4. Nat \subseteq T
  BY <1>2, <1>3, NatSetInduction
<1>5. g - h \in T
  BY <1>4
<1>6. h + (g - h) = g
  OBVIOUS
<1> QED  BY <1>5, <1>6 DEF T

-----------------------------------------------------------------------------
(* The inductive invariant of the loop.                                      *)

Pays == [miner : Nat, team : Nat]
Block == [hash : Nat \ {0}, new : Int]
Template == [prev : Nat \cup {NoParent}, height : Nat, pays : Pays]

LoopTypeOK ==
    /\ base \in Nat /\ chain \in Seq(Block) /\ made \in Nat
    /\ height \in Nat /\ synced \in Nat \cup {NoHeight}
    /\ template \in Template /\ candidate \in Template
    /\ seen \in Nat /\ real \in Nat /\ regressed \in BOOLEAN

(* Hashes are never reused, and no block claims more than its subsidy.       *)
ChainOK ==
    /\ \A i \in DOMAIN chain :
          chain[i].hash <= made /\ chain[i].new <= GetTKNCBlockSubsidy(base + i)
    /\ \A i, j \in DOMAIN chain : i # j => chain[i].hash # chain[j].hash

(* A template knows the height after its parent, while that is in the chain. *)
Placed(t) ==
    t.prev # NoParent =>
        /\ t.prev <= made /\ t.height >= 1
        /\ t.prev = 0 => t.height = base + 1
        /\ \A i \in DOMAIN chain : chain[i].hash = t.prev => t.height = base + i + 1

(* The height h is not behind the template.                                  *)
Ahead(h) == template.prev # NoParent => template.height <= h

(* The reward the candidate claims is that of its height or of a later one.  *)
Claims(t) ==
    t.prev # NoParent =>
        \E h \in Nat : /\ t.height <= h
                       /\ \/ t.pays = SplitTeam(GetTKNCBlockSubsidy(h))
                          \/ t.pays = SplitMiner(GetTKNCBlockSubsidy(h))

LoopInv ==
    /\ LoopTypeOK /\ ChainOK
    /\ Placed(template) /\ Placed(candidate)
    /\ ~regressed => Ahead(height)
    /\ synced # NoHeight => pc = "store" /\ (~regressed => Ahead(synced))
    /\ ~regressed => Claims(candidate)
    /\ pc = "start" => template.prev = NoParent

(* Both splits divide the whole reward, with a team output that ConnectBlock *)
(* accepts.                                                                  *)
LEMMA Splits ==
    ASSUME NEW R \in Nat
    PROVE  \A s \in {SplitTeam(R), SplitMiner(R)} :
              /\ s \in Pays /\ s.miner + s.team = R
              /\ s.team \in ((R * 10) \div 100 - 1)..((R * 10) \div 100 + 1)
<1>1. /\ (R * 10) \div 100 \in Nat /\ (R * 10) \div 100 <= R
      /\ (R * 90) \div 100 \in Nat /\ (R * 90) \div 100 <= R
      /\ R - ((R * 90) \div 100) \in ((R * 10) \div 100 - 1)..((R * 10) \div 100 + 1)
  OBVIOUS
<1>2. SplitTeam(R) = [miner |-> R - ((R * 10) \div 100), team |-> (R * 10) \div 100]
  BY DEF SplitTeam
<1>3. SplitMiner(R) = [miner |-> (R * 90) \div 100, team |-> R - ((R * 90) \div 100)]
  BY DEF SplitMiner
<1> QED  BY <1>1, <1>2, <1>3 DEF Pays

(* The types of the height and of the tip.                                   *)
LEMMA HeightType ==
    ASSUME LoopTypeOK
    PROVE  /\ Height \in Nat /\ Height + 1 \in Nat \ {0} /\ Tip \in Nat
           /\ Len(chain) \in Nat /\ DOMAIN chain = 1..Len(chain)
           /\ Height = base + Len(chain)
           /\ Tip = IF chain = <<>> THEN 0 ELSE chain[Len(chain)].hash
           /\ chain # <<>> => chain[Len(chain)].hash \in Nat \ {0} /\ Len(chain) > 0
           /\ GetTKNCBlockSubsidy(Height + 1) \in Nat
<1>1. base \in Nat /\ chain \in Seq(Block) /\ Len(chain) \in Nat
  BY DEF LoopTypeOK
<1>2. Height \in Nat /\ Height + 1 \in Nat \ {0} /\ Height = base + Len(chain)
  BY <1>1 DEF Height
<1>3. chain # <<>> => Len(chain) > 0 /\ chain[Len(chain)] \in Block
  BY <1>1
<1>4. Tip = IF chain = <<>> THEN 0 ELSE chain[Len(chain)].hash
  BY DEF Tip
<1>5. chain # <<>> => chain[Len(chain)].hash \in Nat \ {0}
  BY <1>3 DEF Block
<1>6. DOMAIN chain = 1..Len(chain)
  BY <1>1
<1>7. Tip \in Nat
  BY <1>4, <1>5
<1>8. GetTKNCBlockSubsidy(Height + 1) \in Nat
  BY <1>2, Subsidy
<1> QED  BY <1>1, <1>2, <1>3, <1>4, <1>5, <1>6, <1>7, <1>8

(* The node's template: on the tip, for the next height, at its reward.      *)
LEMMA FreshTemplate ==
    ASSUME LoopInv
    PROVE  /\ FromNode \in Template /\ FromNode.height = Height + 1
           /\ Placed(FromNode) /\ Claims(FromNode)
<1> DEFINE R == GetTKNCBlockSubsidy(Height + 1)
<1>1. LoopTypeOK /\ ChainOK
  BY DEF LoopInv
<1>2. FromNode = [prev |-> Tip, height |-> Height + 1, pays |-> SplitMiner(R)]
  BY DEF FromNode
<1>3. SplitMiner(R) \in Pays
  BY <1>1, HeightType, Splits
<1>4. FromNode \in Template /\ FromNode.height = Height + 1
  BY <1>1, <1>2, <1>3, HeightType DEF Template
<1>5. Claims(FromNode)
  BY <1>1, <1>2, HeightType DEF Claims
<1>6. Placed(FromNode)
  <2>1. /\ FromNode.prev = Tip /\ FromNode.height = base + Len(chain) + 1
        /\ FromNode.height >= 1 /\ base \in Nat /\ made \in Nat
    BY <1>1, <1>2, HeightType DEF LoopTypeOK
  <2>2. CASE chain = <<>>
    BY <1>1, <2>1, <2>2, HeightType DEF Placed
  <2>3. CASE chain # <<>>
    <3>1. Len(chain) \in DOMAIN chain
      BY <1>1, <2>3, HeightType
    <3>2. Tip = chain[Len(chain)].hash /\ Tip # 0 /\ Tip <= made
      BY <1>1, <2>3, <3>1, HeightType DEF ChainOK
    <3>3. \A i \in DOMAIN chain : chain[i].hash = Tip => i = Len(chain)
      BY <1>1, <3>1, <3>2 DEF ChainOK
    <3> QED  BY <2>1, <3>2, <3>3 DEF Placed
  <2> QED  BY <2>2, <2>3
<1> QED  BY <1>4, <1>5, <1>6

(* A block that ConnectBlock accepts extends the chain with a new hash and   *)
(* within its subsidy.                                                       *)
LEMMA ConnectStep ==
    ASSUME LoopInv, NEW pays \in Pays, NEW fees \in Nat,
           CoinbaseAccepted(pays, fees, Height + 1), Connect(pays, fees), base' = base
    PROVE  /\ chain' \in Seq(Block) /\ made' \in Nat /\ made <= made' /\ ChainOK'
           /\ \A i \in DOMAIN chain' :
                 \/ i \in DOMAIN chain /\ chain'[i] = chain[i]
                 \/ chain'[i].hash > made
<1> DEFINE b == [hash |-> made + 1, new |-> pays.miner + pays.team - fees]
           n == Len(chain)
<1>1. /\ LoopTypeOK /\ ChainOK /\ chain \in Seq(Block) /\ made \in Nat /\ base \in Nat
      /\ n \in Nat /\ DOMAIN chain = 1..n /\ Height = base + n
  BY HeightType DEF LoopInv, LoopTypeOK
<1>2. b \in Block /\ b.hash = made + 1
  BY <1>1 DEF Pays, Block
<1>3. b.new <= GetTKNCBlockSubsidy(base + (n + 1))
  <2>1. base + (n + 1) = Height + 1
    BY <1>1
  <2>2. pays.miner + pays.team <= fees + GetTKNCBlockSubsidy(Height + 1)
    BY DEF CoinbaseAccepted
  <2>3. GetTKNCBlockSubsidy(Height + 1) \in Nat
    BY <1>1, HeightType
  <2> QED  BY <2>1, <2>2, <2>3 DEF Pays
<1>4. chain' = Append(chain, b) /\ made' = made + 1
  BY DEF Connect
<1> HIDE DEF b
<1>5. /\ chain' \in Seq(Block) /\ DOMAIN chain' = 1..(n + 1) /\ chain'[n + 1] = b
      /\ \A i \in 1..n : chain'[i] = chain[i]
  BY <1>1, <1>2, <1>4
<1>6. \A i \in 1..(n + 1) : i \in 1..n \/ i = n + 1
  BY <1>1
<1>7. \A i \in 1..n : chain[i].hash \in Nat /\ chain[i].hash <= made
  <2>1. \A i \in 1..n : chain[i] \in Block
    BY <1>1
  <2>2. \A x \in Block : x.hash \in Nat
    BY DEF Block
  <2> QED  BY <1>1, <2>1, <2>2 DEF ChainOK
<1>8. ChainOK'
  <2>1. ASSUME NEW i \in DOMAIN chain'
        PROVE  chain'[i].hash <= made' /\ chain'[i].new <= GetTKNCBlockSubsidy(base' + i)
    <3>1. CASE i \in 1..n
      BY <1>1, <1>4, <1>5, <1>7, <3>1, SMTT(30) DEF ChainOK
    <3>2. CASE i = n + 1
      BY <1>1, <1>2, <1>3, <1>4, <1>5, <3>2
    <3> QED  BY <1>5, <1>6, <3>1, <3>2
  <2>2. ASSUME NEW i \in DOMAIN chain', NEW j \in DOMAIN chain', i # j
        PROVE  chain'[i].hash # chain'[j].hash
    <3>1. CASE i \in 1..n /\ j \in 1..n
      BY <1>1, <1>5, <2>2, <3>1, SMTT(30) DEF ChainOK
    <3>2. CASE i = n + 1 /\ j \in 1..n
      BY <1>1, <1>2, <1>5, <1>7, <3>2
    <3>3. CASE i \in 1..n /\ j = n + 1
      BY <1>1, <1>2, <1>5, <1>7, <3>3
    <3> QED  BY <1>5, <1>6, <2>2, <3>1, <3>2, <3>3
  <2> QED  BY <2>1, <2>2 DEF ChainOK
<1>9. \A i \in DOMAIN chain' : \/ i \in DOMAIN chain /\ chain'[i] = chain[i]
                               \/ chain'[i].hash > made
  BY <1>1, <1>2, <1>5, <1>6
<1> QED  BY <1>1, <1>4, <1>5, <1>8, <1>9

(* A block is disconnected.                                                  *)
LEMMA DisconnectStep ==
    ASSUME LoopInv, chain # <<>>, chain' = SubSeq(chain, 1, Len(chain) - 1),
           base' = base, made' = made
    PROVE  /\ chain' \in Seq(Block) /\ ChainOK'
           /\ \A i \in DOMAIN chain' : i \in DOMAIN chain /\ chain'[i] = chain[i]
<1>1. /\ LoopTypeOK /\ ChainOK /\ chain \in Seq(Block)
      /\ Len(chain) \in Nat /\ Len(chain) > 0 /\ DOMAIN chain = 1..Len(chain)
  BY HeightType DEF LoopInv, LoopTypeOK
<1>2. /\ chain' \in Seq(Block)
      /\ \A i \in DOMAIN chain' : i \in DOMAIN chain /\ chain'[i] = chain[i]
  BY <1>1
<1>3. ChainOK'
  BY <1>1, <1>2 DEF ChainOK
<1> QED  BY <1>2, <1>3

(* The chain changes and the miner does not: no new block is the parent of   *)
(* a template the miner holds.                                               *)
LEMMA ChainChanges ==
    ASSUME LoopInv,
           UNCHANGED <<base, height, synced, template, candidate, seen, real, regressed>>,
           synced # NoHeight => pc' = "store", pc' = "start" => pc = "start",
           chain' \in Seq(Block), made' \in Nat, made <= made', ChainOK',
           \A i \in DOMAIN chain' :
              \/ i \in DOMAIN chain /\ chain'[i] = chain[i]
              \/ chain'[i].hash > made
    PROVE  LoopInv'
<1>1. LoopTypeOK /\ made \in Nat /\ template \in Template /\ candidate \in Template
  BY DEF LoopInv, LoopTypeOK
<1>2. LoopTypeOK'
  BY <1>1 DEF LoopTypeOK
<1>3. ASSUME NEW t \in Template, Placed(t) PROVE Placed(t)'
  <2> SUFFICES ASSUME t.prev # NoParent PROVE Placed(t)'
    BY DEF Placed
  <2>1. t.prev \in Nat /\ t.prev <= made
    BY <1>3 DEF Placed, Template
  <2>2. ASSUME NEW i \in DOMAIN chain', chain'[i].hash = t.prev
        PROVE  t.height = base + i + 1
    <3>1. chain'[i] \in Block
      OBVIOUS
    <3>2. chain'[i].hash \in Nat
      BY <3>1 DEF Block
    <3> QED  BY <1>1, <1>3, <2>1, <2>2, <3>2 DEF Placed
  <2> QED  BY <1>1, <1>3, <2>1, <2>2 DEF Placed
<1>4. Placed(template)' /\ Placed(candidate)'
  <2>1. Placed(template) /\ Placed(candidate)
    BY DEF LoopInv
  <2> QED  BY <1>1, <1>3, <2>1 DEF Placed
<1>5. /\ ~regressed' => Ahead(height)'
      /\ synced' # NoHeight => pc' = "store" /\ (~regressed' => Ahead(synced)')
      /\ ~regressed' => Claims(candidate)'
      /\ pc' = "start" => template'.prev = NoParent
  BY DEF LoopInv, Ahead, Claims
<1> QED  BY <1>2, <1>4, <1>5 DEF LoopInv

(* The miner's variables change and the chain does not.                      *)
LEMMA MinerChanges ==
    ASSUME LoopInv, UNCHANGED <<base, chain, made>>,
           height' \in Nat, synced' \in Nat \cup {NoHeight},
           template' \in Template, candidate' \in Template,
           seen' \in Nat, real' \in Nat, regressed' \in BOOLEAN,
           Placed(template'), Placed(candidate'),
           ~regressed' => Ahead(height)' /\ Claims(candidate'),
           synced' # NoHeight => pc' = "store" /\ (~regressed' => Ahead(synced)'),
           pc' = "start" => template'.prev = NoParent
    PROVE  LoopInv'
<1>1. LoopTypeOK'
  BY DEF LoopInv, LoopTypeOK
<1>2. ChainOK'
  BY DEF LoopInv, ChainOK
<1>3. Placed(template)' /\ Placed(candidate)' /\ (Claims(candidate') => Claims(candidate)')
  BY DEF Placed, Claims
<1> QED  BY <1>1, <1>2, <1>3 DEF LoopInv

(* The chain holds no block of the loop at first.                            *)
LEMMA LoopInit == Init => LoopInv
<1> SUFFICES ASSUME Init PROVE LoopInv
  OBVIOUS
<1>1. SplitTeam(0) \in Pays
  BY Splits
<1>2. template \in Template /\ template.prev = NoParent /\ candidate = template
  BY <1>1 DEF Init, Template
<1>3. LoopTypeOK
  <2>1. base \in Nat /\ height \in Nat /\ <<>> \in Seq(Block)
    BY LoopAssumption DEF Init
  <2> QED  BY <1>2, <2>1, Zenon DEF Init, LoopTypeOK
<1>4. ChainOK
  BY DEF Init, ChainOK
<1> QED  BY <1>2, <1>3, <1>4 DEF Init, LoopInv, Placed, Ahead, Claims

(* One step of the node, of the loop or of the status thread.                *)
LEMMA LoopStep == LoopInv /\ [Next]_vars => LoopInv'
<1> SUFFICES ASSUME LoopInv, [Next]_vars PROVE LoopInv'
  OBVIOUS
<1> USE DEF nodeVars, statusVars, minerVars
<1>1. /\ LoopTypeOK /\ ChainOK /\ Placed(template) /\ Placed(candidate)
      /\ ~regressed => Ahead(height) /\ Claims(candidate)
      /\ synced # NoHeight => pc = "store" /\ (~regressed => Ahead(synced))
      /\ pc = "start" => template.prev = NoParent
  BY DEF LoopInv
<1>2. /\ base \in Nat /\ chain \in Seq(Block) /\ made \in Nat /\ height \in Nat
      /\ synced \in Nat \cup {NoHeight} /\ template \in Template
      /\ candidate \in Template /\ seen \in Nat /\ real \in Nat /\ regressed \in BOOLEAN
  BY <1>1 DEF LoopTypeOK
<1>3. /\ FromNode \in Template /\ FromNode.height = Height + 1
      /\ Placed(FromNode) /\ Claims(FromNode) /\ Height \in Nat
  BY <1>1, FreshTemplate, HeightType
<1> DEFINE Same == UNCHANGED <<base, height, synced, template, candidate, seen, real, regressed>>
<1>4. ASSUME UNCHANGED <<base, chain, made>>, Same,
             synced # NoHeight => pc' = "store", pc' = "start" => pc = "start"
      PROVE  LoopInv'
  BY <1>1, <1>2, <1>4, MinerChanges DEF Ahead
<1>5. ASSUME UNCHANGED <<base, chain, made, synced, seen, real, regressed>>, pc # "store",
             (UNCHANGED <<height, template>>) \/ Fetched,
             candidate' \in {candidate, FromNode}, pc' # "start"
      PROVE  LoopInv'
  <2>1. Placed(template') /\ template' \in Template /\ height' \in Nat
    BY <1>1, <1>2, <1>3, <1>5 DEF Fetched
  <2>2. ~regressed' => Ahead(height)'
    BY <1>1, <1>2, <1>3, <1>5 DEF Fetched, Ahead
  <2> QED  BY <1>1, <1>2, <1>3, <1>5, <2>1, <2>2, MinerChanges
<1>6. CASE OtherBlock
  <2>1. PICK fees \in Fees, extra \in 0..1, off \in -2..2 :
          LET full == SplitTeam(fees + GetTKNCBlockSubsidy(Height + 1) + extra)
              pays == [miner |-> full.miner - off, team |-> full.team + off]
          IN  /\ pays.miner >= 0 /\ pays.team >= 0
              /\ CoinbaseAccepted(pays, fees, Height + 1)
              /\ Connect(pays, fees)
    BY <1>6, Zenon DEF OtherBlock
  <2> DEFINE full == SplitTeam(fees + GetTKNCBlockSubsidy(Height + 1) + extra)
             pays == [miner |-> full.miner - off, team |-> full.team + off]
  <2>2. fees \in Nat /\ full \in Pays
    <3>1. fees \in Nat /\ GetTKNCBlockSubsidy(Height + 1) \in Nat /\ extra \in Nat
      BY <1>1, HeightType, LoopAssumption
    <3>2. fees + GetTKNCBlockSubsidy(Height + 1) + extra \in Nat
      BY <3>1
    <3> QED  BY <3>1, <3>2, Splits
  <2> HIDE DEF full
  <2>3. pays \in Pays
    BY <2>1, <2>2 DEF Pays, full
  <2>4. CoinbaseAccepted(pays, fees, Height + 1) /\ Connect(pays, fees)
    BY <2>1 DEF full
  <2> HIDE DEF pays
  <2>5. Same /\ pc' = pc
    BY <1>6 DEF OtherBlock
  <2> QED  BY <1>1, <2>2, <2>3, <2>4, <2>5, ConnectStep, ChainChanges, SMTT(30)
<1>7. CASE DisconnectTip
  <2>1. /\ Same /\ pc' = pc /\ made' = made /\ chain # <<>>
        /\ chain' = SubSeq(chain, 1, Len(chain) - 1)
    BY <1>7 DEF DisconnectTip
  <2> QED  BY <1>1, <1>2, <2>1, DisconnectStep, ChainChanges
<1>8. CASE NodeChanges
  BY <1>1, <1>4, <1>8 DEF NodeChanges
<1>9. CASE Start
  <2>1. CASE FetchFails /\ candidate' = template
    <3>1. /\ UNCHANGED <<base, chain, made, synced, seen, real, regressed, height, template>>
          /\ pc = "start" /\ pc' # "start"
      BY <1>9, <2>1 DEF Start, FetchFails
    <3>2. Claims(template)
      BY <1>1, <3>1 DEF Claims
    <3> QED  BY <1>1, <1>2, <2>1, <3>1, <3>2, MinerChanges DEF Ahead
  <2>2. CASE Fetched /\ candidate' = FromNode
    BY <1>5, <1>9, <2>2 DEF Start
  <2> QED  BY <1>9, <2>1, <2>2 DEF Start
<1>10. CASE Leave
  BY <1>1, <1>4, <1>10 DEF Leave
<1>11. CASE Skip
  BY <1>1, <1>4, <1>11 DEF Skip
<1>12. CASE IbdCheck
  BY <1>1, <1>4, <1>12, Zenon DEF IbdCheck, CountFailure
<1>13. CASE SyncHeight
  <2>1. CASE synced' = synced
    BY <1>1, <1>4, <1>13, <2>1 DEF SyncHeight, CountFailure
  <2>2. CASE synced' # synced
    <3>1. pc' = "store" /\ synced' \in {HigherOnly, NoHeight}
      BY <1>13, <2>2 DEF SyncHeight
    <3>2. /\ synced' \in Nat \cup {NoHeight}
          /\ synced' # NoHeight => synced' = Height /\ Height > height
      BY <1>2, <1>3, <3>1 DEF HigherOnly
    <3>3. UNCHANGED <<base, chain, made, height, template, candidate, seen, real, regressed>>
      BY <1>13 DEF SyncHeight
    <3>4. synced' # NoHeight => (~regressed' => Ahead(synced)')
      BY <1>1, <1>2, <1>3, <3>2, <3>3 DEF Ahead, Template
    <3> QED  BY <1>1, <1>2, <3>1, <3>2, <3>3, <3>4, MinerChanges DEF Ahead
  <2> QED  BY <2>1, <2>2
<1>14. CASE StoreHeight
  <2>1. /\ UNCHANGED <<base, chain, made, template, candidate, seen, real, regressed>>
        /\ pc' # "start" /\ synced' = NoHeight
        /\ height' = IF synced = NoHeight THEN height ELSE synced
    BY <1>14 DEF StoreHeight
  <2>2. height' \in Nat /\ (~regressed' => Ahead(height)')
    BY <1>1, <1>2, <2>1 DEF Ahead
  <2> QED  BY <1>1, <1>2, <2>1, <2>2, MinerChanges
<1>15. CASE RefreshFetch
  <2>1. /\ UNCHANGED <<base, chain, made, synced, seen, real, regressed, candidate>>
        /\ pc # "store" /\ pc' # "start" /\ (UNCHANGED <<height, template>> \/ Fetched)
    BY <1>15 DEF RefreshFetch, FetchFails
  <2> QED  BY <1>5, <2>1
<1>16. CASE Recompute
  <2>1. /\ UNCHANGED <<base, chain, made, synced, seen, real, regressed, height, template>>
        /\ pc # "store" /\ pc' # "start"
        /\ candidate' = [template EXCEPT !.pays = SplitTeam(GetTKNCBlockSubsidy(height))]
    BY <1>16 DEF Recompute
  <2>2. SplitTeam(GetTKNCBlockSubsidy(height)) \in Pays
    BY <1>2, Subsidy, Splits
  <2>3. /\ candidate' \in Template /\ candidate'.prev = template.prev
        /\ candidate'.height = template.height
        /\ candidate'.pays = SplitTeam(GetTKNCBlockSubsidy(height))
    BY <1>2, <2>1, <2>2 DEF Template
  <2>4. Placed(candidate')
    BY <1>1, <2>3 DEF Placed
  <2>5. ~regressed' => Claims(candidate')
    BY <1>1, <1>2, <2>1, <2>3 DEF Claims, Ahead
  <2> QED  BY <1>1, <1>2, <2>1, <2>3, <2>4, <2>5, MinerChanges DEF Ahead
<1>17. CASE FindNothing
  BY <1>1, <1>4, <1>17 DEF FindNothing
<1>18. CASE SubmitBlockToNode
  <2>1. Same /\ pc = "mine" /\ pc' # "start"
    BY <1>18 DEF SubmitBlockToNode
  <2>2. PICK fees \in Fees :
          IF /\ node # "down" /\ candidate.prev = Tip
             /\ CoinbaseAccepted(candidate.pays, fees, Height + 1)
          THEN Connect(candidate.pays, fees)
          ELSE UNCHANGED <<chain, made>>
    BY <1>18 DEF SubmitBlockToNode
  <2>3. CASE UNCHANGED <<chain, made>>
    BY <1>1, <1>4, <2>1, <2>3, SMTT(30)
  <2>4. CASE ~UNCHANGED <<chain, made>>
    <3>1. /\ fees \in Nat /\ candidate.pays \in Pays
          /\ CoinbaseAccepted(candidate.pays, fees, Height + 1)
          /\ Connect(candidate.pays, fees)
      BY <1>2, <2>2, <2>4, LoopAssumption DEF Template
    <3> QED  BY <1>1, <2>1, <3>1, ConnectStep, ChainChanges
  <2> QED  BY <2>3, <2>4
<1>19. CASE AfterSubmission
  <2>1. /\ UNCHANGED <<base, chain, made, synced, seen, real, regressed>>
        /\ pc # "store" /\ pc' # "start" /\ (UNCHANGED <<height, template>> \/ Fetched)
        /\ candidate' \in {candidate, FromNode}
    BY <1>19 DEF AfterSubmission, FetchFails
  <2> QED  BY <1>5, <2>1
<1>20. CASE Shutdown
  BY <1>1, <1>4, <1>20 DEF Shutdown
<1>21. CASE GetMiningInfo
  <2>1. UNCHANGED <<base, chain, made, pc, synced, template, candidate>>
    BY <1>21 DEF GetMiningInfo
  <2>2. /\ seen' \in Nat /\ real' \in Nat /\ height' \in Nat /\ regressed' \in BOOLEAN
        /\ ~regressed' => ~regressed /\ height <= height'
    <3>1. \/ regressed' = regressed /\ height' = height
          \/ regressed' = (regressed \/ height' < height)
      BY <1>21 DEF GetMiningInfo
    <3>2. seen' \in Nat /\ real' \in Nat /\ height' \in Nat
      BY <1>2, <1>3, <1>21 DEF GetMiningInfo
    <3>3. /\ regressed' \in BOOLEAN
          /\ ~regressed' => ~regressed /\ (height' = height \/ ~(height' < height))
      BY <1>2, <3>1, Zenon
    <3> QED  BY <1>2, <3>2, <3>3
  <2>3. ~regressed' => Ahead(height)' /\ (synced # NoHeight => Ahead(synced)')
    BY <1>1, <1>2, <2>1, <2>2 DEF Ahead, Template
  <2> QED  BY <1>1, <1>2, <2>1, <2>2, <2>3, MinerChanges
<1>22. CASE UNCHANGED vars
  BY <1>1, <1>4, <1>22 DEF vars
<1> QED
  BY <1>6, <1>7, <1>8, <1>9, <1>10, <1>11, <1>12, <1>13, <1>14, <1>15, <1>16, <1>17,
     <1>18, <1>19, <1>20, <1>21, <1>22 DEF Next, MinerThread

-----------------------------------------------------------------------------
(* The coins in existence, height by height, stay within the schedule.       *)
LEMMA CoinsWithinSchedule ==
    ASSUME LoopTypeOK, ChainOK
    PROVE  Coins <= GetTKNCTotalEmitted(Height)
<1> DEFINE amount(h) == IF h <= base THEN GetTKNCBlockSubsidy(h) ELSE chain[h - base].new
           Adds(f) == f = [h \in 0..Height |-> IF h = 0 THEN 0 ELSE f[h - 1] + amount(h)]
           g == [h \in 1..Height |-> [x \in Int |-> x + amount(h)]]
           coins == CHOOSE f : Adds(f)
<1>1. /\ Height \in Nat /\ base \in Nat /\ Len(chain) \in Nat
      /\ Height = base + Len(chain) /\ DOMAIN chain = 1..Len(chain)
  BY HeightType DEF LoopTypeOK
<1>2. Coins = coins[Height]
  BY DEF Coins
<1>3. ASSUME NEW h \in 1..Height
      PROVE  amount(h) \in Int /\ amount(h) <= GetTKNCBlockSubsidy(h)
  <2>1. GetTKNCBlockSubsidy(h) \in Nat
    BY <1>1, Subsidy
  <2>2. CASE h <= base
    BY <2>1, <2>2
  <2>3. CASE ~(h <= base)
    <3>1. h - base \in DOMAIN chain /\ base + (h - base) = h
      BY <1>1, <2>3
    <3>2. chain[h - base] \in Block
      BY <3>1 DEF LoopTypeOK
    <3>3. chain[h - base].new \in Int /\ chain[h - base].new <= GetTKNCBlockSubsidy(h)
      BY <3>1, <3>2 DEF ChainOK, Block
    <3> QED  BY <2>3, <3>3
  <2> QED  BY <2>2, <2>3
<1> HIDE DEF amount
<1>4. g \in [1..Height -> [Int -> Int]]
  BY <1>3
<1>5. PICK f \in [0..Height -> Int] :
            f[0] = 0 /\ \A k \in 1..Height : f[k] = g[k][f[k - 1]]
  <2> DEFINE Z == Int
             zero == 0
             n == Height
  <2>1. n \in Nat /\ zero \in Z /\ g \in [1..n -> [Z -> Z]]
    BY <1>1, <1>4
  <2> HIDE DEF g, Z, zero, n
  <2>2. \E f \in [0..n -> Z] :
            f[0] = zero /\ \A k \in 1..n : f[k] = g[k][f[k - 1]]
    BY <2>1, LoopExists
  <2> QED  BY <2>2, Zenon DEF Z, zero, n
<1>6. Adds(f)
  <2>1. ASSUME NEW k \in 1..Height PROVE f[k] = f[k - 1] + amount(k)
    <3>1. f[k - 1] \in Int
      BY <1>1
    <3> QED  BY <1>5, <3>1, Zenon
  <2> QED  BY <1>1, <1>5, <2>1
<1>7. Adds(coins)
  BY <1>6, Zenon
<1> HIDE DEF coins, g
<1> DEFINE T == {k \in Nat : k <= Height =>
                    coins[k] \in Int /\ coins[k] <= GetTKNCTotalEmitted(k)}
<1>8. 0 \in T
  BY <1>1, <1>7, Emitted DEF Supply
<1>9. ASSUME NEW k \in Nat, k \in T, k + 1 <= Height
      PROVE  coins[k + 1] \in Int /\ coins[k + 1] <= GetTKNCTotalEmitted(k + 1)
  <2>1. coins[k + 1] = coins[k] + amount(k + 1)
    BY <1>1, <1>7, <1>9
  <2>2. coins[k] \in Int /\ coins[k] <= GetTKNCTotalEmitted(k)
    BY <1>1, <1>9
  <2>3. amount(k + 1) \in Int /\ amount(k + 1) <= GetTKNCBlockSubsidy(k + 1)
    BY <1>1, <1>3, <1>9
  <2>4. /\ GetTKNCTotalEmitted(k) \in Nat /\ GetTKNCTotalEmitted(k + 1) \in Nat
        /\ GetTKNCBlockSubsidy(k + 1) \in Nat
    <3>1. k + 1 \in Nat
      OBVIOUS
    <3>2. GetTKNCTotalEmitted(k) \in Supply /\ GetTKNCTotalEmitted(k + 1) \in Supply
      BY <3>1, Emitted
    <3> QED  BY <3>1, <3>2, Subsidy DEF Supply
  <2>5. GetTKNCTotalEmitted(k) + GetTKNCBlockSubsidy(k + 1) <= GetTKNCTotalEmitted(k + 1)
    BY SubsidyWithinSchedule
  <2> QED  BY <2>1, <2>2, <2>3, <2>4, <2>5
<1>10. \A k \in Nat : k \in T => k + 1 \in T
  BY <1>9
<1> HIDE DEF T
<1>11. Height \in T
  BY <1>1, <1>8, <1>10, NatSetInduction
<1> QED  BY <1>1, <1>2, <1>11 DEF T

(* A coinbase built for the height of the tip or a later one is accepted.    *)
LEMMA LaterClaimsLess ==
    ASSUME NEW n \in Nat \ {0}, NEW h \in Nat, n <= h, NEW fees \in Nat, NEW pays,
           \/ pays = SplitTeam(GetTKNCBlockSubsidy(h))
           \/ pays = SplitMiner(GetTKNCBlockSubsidy(h))
    PROVE  CoinbaseAccepted(pays, fees, n)
<1> DEFINE R == GetTKNCBlockSubsidy(h)
<1>1. R \in Nat /\ GetTKNCBlockSubsidy(n) \in Nat /\ R <= GetTKNCBlockSubsidy(n)
  BY Subsidy, SubsidyFalls
<1>2. /\ pays.miner + pays.team = R
      /\ pays.team \in ((R * 10) \div 100 - 1)..((R * 10) \div 100 + 1)
  BY <1>1, Splits
<1> HIDE DEF R
<1> QED  BY <1>1, <1>2 DEF CoinbaseAccepted

(* The invariant of the mining loop, for every chain and every interleaving  *)
(* of the loop, the status thread and the node.                              *)
THEOREM LoopInvariant == Spec => []LoopInv
BY LoopInit, LoopStep, PTL DEF Spec

(* ComputeRemainingO1 of emission.h, table and partial loop, agrees with the *)
(* block-by-block schedule at every height.                                  *)
THEOREM TableMatchesLoopHolds == Spec => []TableMatchesLoop
<1>1. TableMatchesLoop
  <2>1. \A h \in 0..(TotalBlocks + Interval) : h \in Nat
    OBVIOUS
  <2> QED  BY <2>1, RemainingAtHeight DEF TableMatchesLoop
<1> QED  BY <1>1, PTL

(* No more coins exist than GetTKNCTotalEmitted reports for the height of    *)
(* the tip, and that is within the total supply.                             *)
THEOREM SupplyWithinReportedHolds == Spec => []SupplyWithinReported
<1>1. LoopInv => SupplyWithinReported
  <2> SUFFICES ASSUME LoopInv PROVE SupplyWithinReported
    OBVIOUS
  <2>1. LoopTypeOK /\ ChainOK /\ Height \in Nat
    BY HeightType DEF LoopInv
  <2>2. GetTKNCTotalEmitted(Height) \in Supply
    BY <2>1, Emitted
  <2> QED  BY <2>1, <2>2, CoinsWithinSchedule, EmissionAssumption
           DEF SupplyWithinReported, Supply
<1> QED  BY <1>1, LoopInvariant, PTL

(* Unless the status thread has set the height back, the coinbase of a block *)
(* on the tip passes ConnectBlock's check.                                   *)
THEOREM CandidateAcceptedHolds == Spec => []CandidateAccepted
<1>1. LoopInv => CandidateAccepted
  <2> SUFFICES ASSUME LoopInv, candidate.prev = Tip, ~regressed, NEW fees \in Fees
               PROVE  CoinbaseAccepted(candidate.pays, fees, Height + 1)
    BY DEF CandidateAccepted
  <2>1. LoopTypeOK /\ Placed(candidate) /\ Claims(candidate)
    BY DEF LoopInv
  <2>2. candidate.prev # NoParent /\ Height + 1 \in Nat \ {0} /\ fees \in Nat
    BY <2>1, HeightType, LoopAssumption DEF NoParent
  <2>3. candidate.height = Height + 1
    <3>1. CASE chain = <<>>
      <4>1. Tip = 0 /\ Height = base /\ base \in Nat
        BY <2>1, <3>1, HeightType DEF LoopTypeOK
      <4> QED  BY <2>1, <2>2, <4>1 DEF Placed
    <3>2. CASE chain # <<>>
      <4>1. Len(chain) \in DOMAIN chain /\ chain[Len(chain)].hash = Tip
        BY <2>1, <3>2, HeightType
      <4> QED  BY <2>1, <2>2, <4>1, HeightType DEF Placed
    <3> QED  BY <3>1, <3>2
  <2>4. PICK h \in Nat : /\ Height + 1 <= h
                         /\ \/ candidate.pays = SplitTeam(GetTKNCBlockSubsidy(h))
                            \/ candidate.pays = SplitMiner(GetTKNCBlockSubsidy(h))
    BY <2>1, <2>2, <2>3 DEF Claims
  <2> QED  BY <2>2, <2>4, LaterClaimsLess
<1> QED  BY <1>1, LoopInvariant, PTL
=============================================================================
