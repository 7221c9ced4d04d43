CONSTANTS
  Names <- MCNames
  Indices = {0, 1}
  RuleLists <- MCRuleLists
  InvalidBody = "invalid_body"
  None = None
SPECIFICATION Spec
INVARIANTS PrefixPointsHere EveryViolationLocated ItemsInOrder
