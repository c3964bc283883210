SPECIFICATION Spec
CONSTANTS
  Calls <- MCCalls
  Prose <- MCProse
  Text <- MCText
  Letters <- MCLetters
INVARIANTS HeldAsWritten ReplyIsTheModels NothingPartialRuns CutIsCalledCut
PROPERTY WholeStaysWhole
CHECK_DEADLOCK FALSE
