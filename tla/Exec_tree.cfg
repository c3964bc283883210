SPECIFICATION Spec
CONSTANTS
  shell = shell
  p1 = p1
  p2 = p2
  p3 = p3
  Shell <- shell
  Others <- MCOthers
INVARIANTS NothingOfTheTreeSurvives OutputIsSettled
PROPERTY CommandReturns
CHECK_DEADLOCK FALSE
