----------------------------- MODULE MiningLoop -----------------------------
(***************************************************************************)
(* The mining loop of the miner program (miner/miner.cpp) against its      *)
(* node: templates fetched by RPC, a coinbase the miner builds itself from *)
(* a height that it keeps in a global variable, blocks submitted to        *)
(* ConnectBlock's check of the coinbase, and the status thread of the      *)
(* program, which writes the same height.                                  *)
(*                                                                         *)
(* What the clocks decide (whether a check is due) is left open.  The      *)
(* node's chain grows by blocks of others and loses its tip in a           *)
(* reorganisation; the node goes away and comes back.                      *)
(***************************************************************************)
EXTENDS Emission, Sequences

CONSTANTS
    StartHeights,   \* heights of the chain when the miner starts
    Fees,           \* total fees of the transactions of a block
    MaxBlocks       \* bound: blocks connected

ASSUME LoopAssumption ==
    StartHeights \subseteq Nat /\ Fees \subseteq Nat /\ MaxBlocks \in Nat

MAX_RPC_FAILURES == 3

VARIABLES
    base,       \* height when the miner started
    chain,      \* the blocks connected since
    made,       \* number of blocks ever connected; the last block's hash
    node,       \* "up", "ibd", "limited" (answers, has no template) or "down"
    generate,   \* fGenerateTKNC
    pc,         \* where the loop is
    failures,   \* consecutive_rpc_failures
    height,     \* g_current_mining_height
    synced,     \* the height the loop is about to store, or NoHeight
    template,   \* g_block_template
    candidate,  \* block_template, the one the loop mines on
    spc, seen, real, \* the status thread: progress, its two heights
    regressed   \* history: it has stored a height lower than the one there

nodeVars == <<base, chain, made, node>>
statusVars == <<spc, seen, real, regressed>>
minerVars == <<generate, pc, failures, height, synced, template, candidate>>
vars == <<nodeVars, minerVars, statusVars>>

NoParent == -1
NoHeight == -1

NodeStates == {"up", "ibd", "limited", "down"}

Height == base + Len(chain)
Tip == IF chain = <<>> THEN 0 ELSE chain[Len(chain)].hash

(* 10 % of a reward, rounded down, for the team wallet (CreateNewBlock and   *)
(* the refresh of the loop).                                                 *)
SplitTeam(reward) ==
    LET team == (reward * 10) \div 100 IN [miner |-> reward - team, team |-> team]

(* 90 %, rounded down, for the miner (FetchBlockTemplateFromRPC).            *)
SplitMiner(reward) ==
    LET miner == (reward * 90) \div 100 IN [miner |-> miner, team |-> reward - miner]

(* ConnectBlock: the coinbase claims no more than subsidy and fees, and the  *)
(* team's output is within a satoshi of 10 % of the coinbase.                *)
CoinbaseAccepted(pays, fees, h) ==
    LET total == pays.miner + pays.team
        expected == (total * 10) \div 100
    IN  /\ total <= fees + GetTKNCBlockSubsidy(h)
        /\ total > 0 => pays.team \in (expected - 1)..(expected + 1)

Init ==
    /\ base \in StartHeights /\ chain = <<>> /\ made = 0 /\ node = "up"
    /\ generate = TRUE /\ pc = "start" /\ failures = 0
    /\ height = base /\ synced = NoHeight
    /\ template = [prev |-> NoParent, height |-> 0, pays |-> SplitTeam(0)]
    /\ candidate = template
    /\ spc = "idle" /\ seen = 0 /\ real = 0 /\ regressed = FALSE

-----------------------------------------------------------------------------
(* The node.                                                                 *)

Connect(pays, fees) ==
    /\ chain' = Append(chain, [hash |-> made + 1, new |-> pays.miner + pays.team - fees])
    /\ made' = made + 1

(* A block of another miner, by CreateNewBlock or with a team output that is *)
(* off, or a claim that is too high: it is connected if it is acceptable.    *)
OtherBlock ==
    /\ made < MaxBlocks
    /\ \E fees \in Fees, extra \in 0..1, off \in -2..2 :
          LET full == SplitTeam(fees + GetTKNCBlockSubsidy(Height + 1) + extra)
              pays == [miner |-> full.miner - off, team |-> full.team + off]
          IN  /\ pays.miner >= 0 /\ pays.team >= 0
              /\ CoinbaseAccepted(pays, fees, Height + 1)
              /\ Connect(pays, fees)
    /\ UNCHANGED <<base, node, minerVars, statusVars>>

DisconnectTip ==
    /\ chain # <<>> /\ chain' = SubSeq(chain, 1, Len(chain) - 1)
    /\ UNCHANGED <<base, made, node, minerVars, statusVars>>

NodeChanges ==
    /\ \E s \in NodeStates \ {node} : node' = s
    /\ UNCHANGED <<base, chain, made, minerVars, statusVars>>

-----------------------------------------------------------------------------
(* MinerThread.                                                              *)

(* FetchBlockTemplateFromRPC: an answer sets the height and the template.    *)
(* getblocktemplate is an error without peers, and in initial block download *)
(* above a certain height.                                                   *)
FetchFails == node # "up" /\ UNCHANGED <<height, template>>

FromNode ==
    [prev |-> Tip, height |-> Height + 1,
     pays |-> SplitMiner(GetTKNCBlockSubsidy(Height + 1))]

Fetched ==
    /\ node \in {"up", "ibd"}
    /\ height' = FromNode.height /\ template' = FromNode

Start ==
    /\ pc = "start" /\ pc' = "head"
    /\ \/ FetchFails /\ candidate' = template
       \/ Fetched /\ candidate' = FromNode
    /\ UNCHANGED <<nodeVars, statusVars, generate, failures, synced>>

(* The test of the loop.                                                     *)
Leave ==
    /\ pc \in {"head", "paused"} /\ ~generate /\ pc' = "done"
    /\ UNCHANGED <<nodeVars, statusVars, generate, failures, height, synced,
                   template, candidate>>

(* A check that is not due.                                                  *)
Skip ==
    /\ \/ pc = "head" /\ generate /\ pc' = "sync"
       \/ pc = "sync" /\ pc' = "refresh"
       \/ pc = "refresh" /\ pc' = "mine"
    /\ UNCHANGED <<nodeVars, statusVars, generate, failures, height, synced,
                   template, candidate>>

(* Mutant: a failure is logged and forgotten.                                *)
ForgetFailure(next) ==
    /\ pc' = next /\ UNCHANGED <<failures, generate>>

(* The node is unreachable once more: the third time in a row ends the loop. *)
CountFailure(next) ==
    /\ failures' = failures + 1
    /\ IF failures + 1 < MAX_RPC_FAILURES
       THEN pc' = next /\ UNCHANGED generate
       ELSE pc' = "done" /\ generate' = FALSE

(* The IBD check, every 30 s.  While the node is syncing the rest of the     *)
(* round is skipped, and the check is due again in the next round.           *)
IbdCheck ==
    /\ pc \in {"head", "paused"} /\ generate
    /\ \/ node = "down" /\ CountFailure("sync")
       \/ /\ node # "down" /\ failures' = 0 /\ UNCHANGED generate
          /\ pc' = IF node = "ibd" THEN "paused" ELSE "sync"
    /\ UNCHANGED <<nodeVars, statusVars, height, synced, template, candidate>>

(* Mutant: what the node says is stored, higher or not.                      *)
AnyHeight == Height

(* A height above the miner's is stored, a regression is only logged.        *)
HigherOnly == IF Height > height THEN Height ELSE NoHeight

(* getblockcount, every 10 s: the answer is compared with the global height, *)
(* and then stored.                                                          *)
SyncHeight ==
    /\ pc = "sync"
    /\ \/ node = "down" /\ CountFailure("refresh") /\ UNCHANGED synced
       \/ /\ node # "down" /\ failures' = 0 /\ pc' = "store" /\ UNCHANGED generate
          /\ synced' \in {HigherOnly} \cup (IF node = "limited" THEN {NoHeight} ELSE {})
    /\ UNCHANGED <<nodeVars, statusVars, height, template, candidate>>

StoreHeight ==
    /\ pc = "store" /\ pc' = "refresh" /\ synced' = NoHeight
    /\ height' = IF synced = NoHeight THEN height ELSE synced
    /\ UNCHANGED <<nodeVars, statusVars, generate, failures, template, candidate>>

(* Mutant: the refresh only recomputes the reward.                           *)
RefreshWithoutFetch ==
    /\ pc = "refresh" /\ pc' = "recompute"
    /\ UNCHANGED <<nodeVars, statusVars, generate, failures, height, synced,
                   template, candidate>>

(* The refresh, every 30 s: the template is fetched, or the old one kept.    *)
RefreshFetch ==
    /\ pc = "refresh" /\ pc' = "recompute"
    /\ \/ FetchFails /\ UNCHANGED failures
       \/ Fetched /\ failures' = 0
    /\ UNCHANGED <<nodeVars, statusVars, generate, synced, candidate>>

(* Its coinbase is recomputed for the height of the global variable.         *)
Recompute ==
    /\ pc = "recompute" /\ pc' = "mine"
    /\ candidate' = [template EXCEPT !.pays = SplitTeam(GetTKNCBlockSubsidy(height))]
    /\ UNCHANGED <<nodeVars, statusVars, generate, failures, height, synced, template>>

(* The mode is not PoW, or no nonce is found.                                *)
FindNothing ==
    /\ pc = "mine" /\ pc' = "head"
    /\ UNCHANGED <<nodeVars, statusVars, generate, failures, height, synced,
                   template, candidate>>

(* A block is found and submitted: the node connects it if it is on the tip  *)
(* and its coinbase is accepted.  The miner claims none of the fees of the   *)
(* transactions it carries.                                                  *)
SubmitBlockToNode ==
    /\ pc = "mine" /\ made < MaxBlocks /\ pc' = "submitted"
    /\ \E fees \in Fees :
          IF /\ node # "down" /\ candidate.prev = Tip
             /\ CoinbaseAccepted(candidate.pays, fees, Height + 1)
          THEN Connect(candidate.pays, fees)
          ELSE UNCHANGED <<chain, made>>
    /\ UNCHANGED <<base, node, statusVars, generate, failures, height, synced,
                   template, candidate>>

(* Accepted or not, a new template is fetched, and mined on with the         *)
(* coinbase of the fetch; without an answer the loop goes on with the old.   *)
AfterSubmission ==
    /\ pc = "submitted" /\ pc' = "head"
    /\ \/ FetchFails /\ UNCHANGED candidate
       \/ Fetched /\ candidate' = FromNode
    /\ UNCHANGED <<nodeVars, statusVars, generate, failures, synced>>

(* GenerateTKNC(false) when the program is told to stop.                     *)
Shutdown ==
    /\ generate /\ generate' = FALSE
    /\ UNCHANGED <<nodeVars, statusVars, pc, failures, height, synced,
                   template, candidate>>

-----------------------------------------------------------------------------
(* GetMiningInfo on the main thread, every 30 s: the height is loaded, the   *)
(* node asked, and what it answered stored, if it is higher than the loaded. *)
GetMiningInfo ==
    /\ \/ /\ spc = "idle" /\ spc' = "loaded" /\ seen' = height
          /\ UNCHANGED <<real, height, regressed>>
       \/ /\ spc = "loaded" /\ node # "down" /\ spc' = "asked" /\ real' = Height
          /\ UNCHANGED <<seen, height, regressed>>
       \/ /\ spc = "loaded" /\ node = "down" /\ spc' = "idle" /\ seen' = 0
          /\ UNCHANGED <<real, height, regressed>>
       \/ /\ spc = "asked" /\ spc' = "idle" /\ seen' = 0 /\ real' = 0
          /\ height' = IF real > seen /\ real < seen + 100 THEN real ELSE height
          /\ regressed' = (regressed \/ height' < height)
    /\ UNCHANGED <<nodeVars, generate, pc, failures, synced, template, candidate>>

-----------------------------------------------------------------------------
MinerThread ==
    \/ Start \/ Leave \/ Skip \/ IbdCheck \/ SyncHeight \/ StoreHeight
    \/ RefreshFetch \/ Recompute \/ FindNothing \/ SubmitBlockToNode
    \/ AfterSubmission

Next ==
    \/ OtherBlock \/ DisconnectTip \/ NodeChanges
    \/ MinerThread \/ Shutdown \/ GetMiningInfo

Spec == Init /\ [][Next]_vars

(* The loop runs, and 30 s pass again and again: a check that is due in      *)
(* infinitely many rounds is made.                                           *)
Fairness ==
    /\ WF_vars(MinerThread) /\ SF_vars(IbdCheck) /\ SF_vars(RefreshFetch)

FairSpec == Spec /\ Fairness

-----------------------------------------------------------------------------
(* The supply that remains after h blocks, block by block.                   *)
Remaining(h) == Decay(TotalSupply, IF h > TotalBlocks THEN TotalBlocks ELSE h)

(* The table and the partial loop agree with the block-by-block definition   *)
(* at every height: on both sides of a checkpoint, in the tail where the     *)
(* remainder is dropped, and past the last block of the emission.  Nothing   *)
(* in it depends on the state; it is evaluated before the miner starts.      *)
TableMatchesLoop ==
    pc = "start" =>
        \A h \in 0..(TotalBlocks + Interval) : ComputeRemainingO1(h) = Remaining(h)

(* The coins in existence: full subsidies up to the start of the miner, and  *)
(* what the blocks since have created (less than they may, if they burn      *)
(* fees).                                                                    *)
Coins ==
    LET coins[h \in 0..Height] ==
            IF h = 0 THEN 0
            ELSE coins[h - 1] + IF h <= base THEN GetTKNCBlockSubsidy(h)
                                ELSE chain[h - base].new
    IN  coins[Height]

(* "Total emission should never exceed 1 billion TKNC": whatever the miners  *)
(* claim, and through reorganisations, no more coins exist than              *)
(* GetTKNCTotalEmitted reports for the height of the tip.                    *)
SupplyWithinReported ==
    /\ Coins <= GetTKNCTotalEmitted(Height)
    /\ GetTKNCTotalEmitted(Height) <= TotalSupply

(* A block found on the tip is not refused for its coinbase, whichever of    *)
(* the two splits and of the heights it was built with: a height that runs   *)
(* ahead only claims less.  The exception is a height set back by the status *)
(* thread, which stores an answer the loop has overtaken.                    *)
CandidateAccepted ==
    candidate.prev = Tip /\ ~regressed
        => \A fees \in Fees : CoinbaseAccepted(candidate.pays, fees, Height + 1)

(* A miner whose node is lost for good stops: three failures in a row are    *)
(* counted across the two checks, and nothing resets the count in between.   *)
StopsWithoutNode == <>[](node = "down") => <>(pc = "done")

(* A miner whose node stays reachable is told of every change of the tip:    *)
(* it mines on the tip again and again, through stale submissions, failed    *)
(* refreshes and pauses, unless it has stopped.                              *)
WorksOnTip == <>[](node = "up") => []<>(~generate \/ candidate.prev = Tip)
=============================================================================
