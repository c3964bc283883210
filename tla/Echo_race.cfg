CONSTANTS
  Ann = Ann
  Bob = Bob
  CatF = CatF
  CatFG = CatFG
  Refused = Refused
  F = F
  G = G
  MaxVersion = 2
  Agents = {Ann, Bob}
  Paths <- OneFile
  Contents <- Versions
  Blank = 0
  Commands <- OneCommand
  Reads <- ReadsOne
  Rewrites <- Forward
  Width <- Growing
  MaxEntries = 1
  MaxBytes = 0
  Expiring = FALSE
  NoEntry = NoEntry
  Nobody = Nobody
SPECIFICATION Spec
INVARIANT AnswerIsRegular
