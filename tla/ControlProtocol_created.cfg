SPECIFICATION Spec
CONSTANTS
  fe = fe
  cp = cp
  be1 = be1
  be2 = be2
  Node <- MCNode
  Root = fe
  Parent <- MCParent
  Failures <- MCFailures
CHECK_DEADLOCK FALSE
INVARIANT CreatedEverywhere
