SPECIFICATION EstimateSpec
CONSTANTS
  Agents <- MCAgents
  Atoms <- MCAtoms
  Formulas <- MCFormulas
  Tasks <- MCTasks
  Task <- MCTask
  MaxLayers = 3
  MaxDepth = 4
INVARIANTS
  FormulasCovered
  LossesCovered
  GoalNotBeforeEstimate
CHECK_DEADLOCK FALSE
