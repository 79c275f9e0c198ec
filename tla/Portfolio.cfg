SPECIFICATION FairSpec
CONSTANTS
  Order <- FourMembers
  Conditional <- PolicyMembers
  AOStarName = "aostar+kadd"
  None = "none"
INVARIANT NoPlanIsLost
PROPERTY PlanEndsTheRace
