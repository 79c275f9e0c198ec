SPECIFICATION FairSpec
CONSTANTS
  Size = 4
  State <- States
  Tasks <- SearchNumbers
  Graph <- SearchGraph
  MaxNodes <- NodeLimit
INVARIANT PlanIsExecutable
INVARIANT NoStateTwice
INVARIANT ExhaustedIsProof
INVARIANT ParallelIsSerial
PROPERTY Termination
