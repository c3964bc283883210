SPECIFICATION Spec
CONSTANTS
  Quarter = 2
  Settings <- Clocks
  MaxTime = 11
  Statuses = {500}
  Types = {"none"}
  Afters = {0}
INVARIANTS StallIsNoticed TotalHolds ErrorIsOfItsEnding
PROPERTIES StallsAreSilences CallReturns
CHECK_DEADLOCK FALSE
