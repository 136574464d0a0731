\* Twelve blocks of emission with a checkpoint every four; a miner that starts
\* two blocks before the end, where the remainder (4, then 3) is about to be too
\* small to be divided.
SPECIFICATION FairSpec
CONSTANTS
    TotalSupply = 50
    Divisor = 4
    BlocksPerYear = 6
    CompleteYear = 2
    Interval = 4
    StartHeights = {10}
    Fees = {0, 3}
    MaxBlocks = 2
INVARIANTS TableMatchesLoop SupplyWithinReported CandidateAccepted
PROPERTIES StopsWithoutNode WorksOnTip
CHECK_DEADLOCK FALSE
