SPECIFICATION Spec
CONSTANTS
  Order <- FourMembers
  Conditional <- PolicyMembers
  AOStarName = "aostar+kadd"
  None = "none"
INVARIANT ExhaustionIsReported
