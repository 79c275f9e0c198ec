SPECIFICATION FairSpec
CONSTANTS
  Size = 5
  State <- States
  Tasks <- SearchNumbers
  Graph <- SearchGraph
  MaxNodes <- NodeLimit
  MaxH = 2
INVARIANT PlanIsExecutable
INVARIANT NoStateTwice
INVARIANT BreadthFirst
PROPERTY Termination
