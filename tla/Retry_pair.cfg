CONSTANTS
  Ann = Ann
  Bob = Bob
  Agents = {Ann, Bob}
  Rungs = 3
  Attempts = 2
  Base = 2
  MaxWait = 2
  Budget = 1
  Statuses = {404, 500}
  Types = {"none"}
  Afters = {0}
SPECIFICATION Spec
SYMMETRY Interchangeable
INVARIANTS AllowancePerRung WaitsWithinBudget
PROPERTIES LadderStepsOnEvidence CallRunsDown
