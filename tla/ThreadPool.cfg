SPECIFICATION FairSpec
CONSTANTS
  main = main
  member = member
  w1 = w1
  w2 = w2
  None = None
  Main = main
  Callers <- TwoCallers
  Workers <- TwoWorkers
  Sizes = {0, 1, 2}
  MaxCalls = 1
  MaxNesting = 2
  Nesters <- MainNests
  NestedSizes = {2}
INVARIANT FreePoolIsQuiet
INVARIANT OwnerNeverRelocks
PROPERTY ImplementsLoops
PROPERTY CallsReturn
