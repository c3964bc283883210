CONSTANTS
  MaxCalls = 2
  MaxDepth = 1
  MaxTurns = 2
  SubTurns = 1
  Nobody = Nobody
SPECIFICATION Spec
INVARIANTS AnswersAreTrue SubagentsAreWaitedFor OneQuestion StopEndsTheRound
PROPERTY TurnReturns
