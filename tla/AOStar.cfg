SPECIFICATION FairSpec
CONSTANTS
  Size = 4
  State <- States
  Rank <- Ranks
  Tasks <- TaskNumbers
  Graph <- TableGraph
  Heights <- TableHeights
  MaxDepth <- DepthLimit
INVARIANT TypeOK
INVARIANT SolvedIsPolicy
INVARIANT RefutedIsUnsolvable
INVARIANT DeepeningIsExact
INVARIANT LinearExhaustionIsProof
PROPERTY MemosOnlyImprove
PROPERTY Termination
