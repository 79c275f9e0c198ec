SPECIFICATION EstimateSpec
CONSTANTS
  Agents <- MCAgents
  Atoms <- MCAtoms
  Formulas <- MCFormulas
  Tasks <- MistakenTasks
  Task <- MCTask
  MaxLayers = 3
  MaxDepth = 4
INVARIANT
  GoalNotBeforeEstimate
CHECK_DEADLOCK FALSE
