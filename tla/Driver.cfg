SPECIFICATION Spec
CONSTANTS
  Sizes = {8, 13, 14}
  Selectors = {0, 8, 9}
  Policies <- MCPolicies
  MaxErrors = 1
  Ones = Ones
INVARIANTS TypeOK CardGivenBack BoundIsBacked StartSettles
PROPERTIES ZeroMeansHeld CallsReturn
