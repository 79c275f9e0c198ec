SPECIFICATION FairSpec
CONSTANTS
  Size = 4
  State <- States
  Tasks <- TaskNumbers
  Graph <- TableGraph
INVARIANT TypeOK
INVARIANT SolvedIsPolicy
INVARIANT DeadIsDoomed
INVARIANT FailureIsProof
INVARIANT HintsArePaths
INVARIANT OpenIsUnsettled
PROPERTY Termination
