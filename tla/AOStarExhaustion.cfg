SPECIFICATION Spec
CONSTANTS
  State <- States
  Rank <- Ranks
  Tasks <- TaskNumbers
  Graph <- ChainGraph
  Heights <- ChainHeights
  MaxDepth <- NoLimit
INVARIANT ExhaustedIsProof
