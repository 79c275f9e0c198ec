SPECIFICATION Spec
CONSTANTS
  Agents <- MCAgents
  Atoms <- MCAtoms
  Formulas <- MCFormulas
  Tasks <- MCTasks
  Task <- MCTask
  MaxDepth = 3
INVARIANTS
  ContractionIsExact
  NumberingIsCanonical
  BeliefsStayConsistent
  SymmetryLosesNothing
  PlansValidate
CHECK_DEADLOCK FALSE
