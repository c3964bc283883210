CONSTANTS
  Ann = Ann
  Bob = Bob
  CatF = CatF
  CatFG = CatFG
  Refused = Refused
  F = F
  G = G
  MaxVersion = 1
  Agents = {Ann, Bob}
  Paths <- TwoFiles
  Contents <- Versions
  Blank = 0
  Commands <- TwoCommands
  Reads <- ReadsTwo
  Rewrites <- Forward
  Width <- Growing
  MaxEntries = 2
  MaxBytes = 3
  Expiring = TRUE
  NoEntry = NoEntry
  Nobody = Nobody
SPECIFICATION Spec
INVARIANTS HitIsCurrent LRUConsistent WithinBudget EntryIsSnapshot
PROPERTY StaleDropIsEarned
