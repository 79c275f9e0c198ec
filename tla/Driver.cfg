SPECIFICATION Spec
CONSTANTS
  PolicyFiles <- MCPolicyFiles
  FeatureSets <- MCFeatureSets
INVARIANT FileHoldsOneAnswer
INVARIANT NullIsJustified
INVARIANT PolicyDecides
