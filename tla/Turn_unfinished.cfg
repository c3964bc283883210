CONSTANTS
  Replies <- OrdinaryReplies
  Stems = {"", "a", "call", "call_dup"}
  LongIds <- OneLongId
  ResultSizes = {1, 3}
  MaxTurns = 2
  MaxCutStreak = 2
  Base = 1
  Threshold = 7
  Keep = 5
  MaxMsgs = 4
  MaxIds = 2
SPECIFICATION Spec
INVARIANT NoCallIsLeft
CHECK_DEADLOCK FALSE
